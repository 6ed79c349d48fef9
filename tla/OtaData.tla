------------------------------ MODULE OtaData ------------------------------
(***************************************************************************)
(* The otadata adapter of kernel/otadata.c: two flash sectors, each with   *)
(* one sequence number; the highest valid one decides which application    *)
(* slot boots.  Writing an entry takes three flash operations, and power   *)
(* may go away, or an operation fail, between any two of them.             *)
(*                                                                         *)
(* An entry is its ota_seq, or Invalid if entry_valid rejects it: the CRC  *)
(* is taken to reject every entry but the one written, and ota_state is    *)
(* left out (select writes VALID).  Sequence numbers stay below 2^32 - 1,  *)
(* which the wear of the flash does for the code.                          *)
(***************************************************************************)
EXTENDS Integers, Sequences

CONSTANTS
  MaxSeq,  \* bound of the model on sequence numbers
  Invalid  \* no valid entry in the sector

ASSUME MaxSeqAssumption == MaxSeq \in Nat
ASSUME InvalidAssumption == Invalid \notin Nat

VARIABLES
  entries,  \* the entry in each sector
  todo,     \* the writes of the call under way: sector and entry
  step,     \* how far the first of them is
  backup,   \* what the caller's last cirvane_otadata_read returned
  goal,     \* the slot that is active once the call under way has succeeded
  chosen,   \* history: the slot the last call that succeeded was to make active
  tried     \* history: the slots the calls begun since may have made active

otaDataVars == <<entries, todo, step, backup, goal, chosen, tried>>

Sector == {0, 1}
App    == {0, 1}
Entry  == 1 .. MaxSeq \cup {Invalid}
Pending == [sector : Sector, entry : Entry]

\* The number of an entry, 0 if it is not valid.
SeqOf(entry) == IF entry = Invalid THEN 0 ELSE entry

Highest(e) == IF SeqOf(e[0]) >= SeqOf(e[1]) THEN SeqOf(e[0]) ELSE SeqOf(e[1])

AppOf(seq) == (seq - 1) % 2

\* cirvane_otadata_active_slot.
Active(e) == IF Highest(e) = 0 THEN 0 ELSE AppOf(Highest(e))

OtaDataInit ==
  /\ entries \in [Sector -> Entry]
  /\ todo = <<>>
  /\ step = "erase"
  /\ backup = entries
  /\ goal = Active(entries)
  /\ chosen = Active(entries)
  /\ tried = {}

Idle == todo = <<>>

-----------------------------------------------------------------------------
(* The calls.                                                              *)

Read ==
  /\ Idle
  /\ backup' = entries
  /\ UNCHANGED <<entries, todo, step, goal, chosen, tried>>

DestinationOfHighest == IF Highest(entries) = SeqOf(entries[0]) THEN 0 ELSE 1

\* The sector that does not hold the highest entry.
Destination == IF Highest(entries) = SeqOf(entries[0]) THEN 1 ELSE 0

\* The next number whose parity is the slot's.
NextSeq(app) ==
  LET next == Highest(entries) + 1 IN IF AppOf(next) = app THEN next ELSE next + 1

\* cirvane_otadata_select, up to the write.
SelectApp(app) ==
  /\ Idle
  /\ NextSeq(app) <= MaxSeq
  /\ todo' = <<[sector |-> Destination, entry |-> NextSeq(app)]>>
  /\ goal' = app
  /\ tried' = tried \cup {app}
  /\ UNCHANGED <<entries, step, backup, chosen>>

\* cirvane_otadata_restore writes one sector, then the other: in between either
\* slot may be active, so it promises nothing before it has succeeded.
Restore ==
  /\ Idle
  /\ todo' = <<[sector |-> 0, entry |-> backup[0]], [sector |-> 1, entry |-> backup[1]]>>
  /\ goal' = Active(backup)
  /\ tried' = App
  /\ UNCHANGED <<entries, step, backup, chosen>>

-----------------------------------------------------------------------------
(* write_entry.                                                            *)

Destined == Head(todo).sector

\* A flash operation fails, and with it the call.
Fail == todo' = <<>> /\ step' = "erase"

EraseEntry ==
  /\ ~Idle
  /\ step = "erase"
  /\ \/ /\ entries' = [entries EXCEPT ![Destined] = Invalid]
        /\ step' = "write"
        /\ UNCHANGED todo
     \/ /\ \E kept \in {entries[Destined], Invalid} :
             entries' = [entries EXCEPT ![Destined] = kept]
        /\ Fail
  /\ UNCHANGED <<backup, goal, chosen, tried>>

\* The entry may reach the sector or not, whatever the write reports.
WriteEntry ==
  /\ step = "write"
  /\ \E stored \in {Head(todo).entry, Invalid} :
       entries' = [entries EXCEPT ![Destined] = stored]
  /\ \/ step' = "verify" /\ UNCHANGED todo
     \/ Fail
  /\ UNCHANGED <<backup, goal, chosen, tried>>

\* The read-back matches and the next entry's turn comes, or the call succeeds; or
\* it does not match or cannot be read.
VerifyEntry ==
  /\ step = "verify"
  /\ \/ /\ entries[Destined] = Head(todo).entry
        /\ step' = "erase"
        /\ todo' = Tail(todo)
        /\ IF Len(todo) = 1 THEN chosen' = goal /\ tried' = {} ELSE UNCHANGED <<chosen, tried>>
     \/ Fail /\ UNCHANGED <<chosen, tried>>
  /\ UNCHANGED <<entries, backup, goal>>

\* The processor restarts between two flash operations.
PowerLoss ==
  /\ Fail
  /\ backup' = entries
  /\ chosen' = Active(entries)
  /\ goal' = Active(entries)
  /\ tried' = {}
  /\ UNCHANGED entries

OtaDataStep ==
  \/ Read
  \/ \E app \in App : SelectApp(app)
  \/ Restore
  \/ EraseEntry
  \/ WriteEntry
  \/ VerifyEntry

-----------------------------------------------------------------------------
(* Properties.                                                             *)

OtaDataType ==
  /\ entries \in [Sector -> Entry]
  /\ todo \in Seq(Pending) /\ Len(todo) <= 2
  /\ step \in {"erase", "write", "verify"}
  /\ backup \in [Sector -> Entry]
  /\ goal \in App /\ chosen \in App /\ tried \subseteq App

\* A boot at any moment of a select finds the slot chosen before or the one being
\* selected; a select or restore that has succeeded has made its slot active.
ActiveIsChosenOrTried == Active(entries) \in {chosen} \cup tried

=============================================================================
