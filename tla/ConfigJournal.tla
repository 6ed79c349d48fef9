--------------------------- MODULE ConfigJournal ---------------------------
(***************************************************************************)
(* The two-slot configuration journal of kernel/config.c on the flash of   *)
(* kernel/config_flash.c.  A commit is three flash operations, each of     *)
(* which may fail with the sector in either state, and power may go away   *)
(* between any two of them.                                                *)
(*                                                                         *)
(* A sector whose record fails record_valid (erased, torn, wrong CRC) is   *)
(* Invalid: the CRC is taken to reject every record but the one written.   *)
(* Left out: out-of-range values (refused before anything changes) and     *)
(* journal.slots, the copy of the flash that load refills before it reads. *)
(***************************************************************************)
EXTENDS Integers

CONSTANTS
  Configs,       \* the values cfg_in_range accepts
  Default,       \* cfg_defaults
  Invalid,       \* no valid record in the sector
  MaxGeneration  \* bound of the model on commits; the code's is uint32_t

ASSUME DefaultAssumption == Default \in Configs
ASSUME MaxGenerationAssumption == MaxGeneration \in Nat
VARIABLES
  flash,    \* the record in each of the two sectors
  journal,  \* journal.generation and journal.live
  loaded,   \* a load has succeeded since the last reset: callers commit only then
  commit,   \* the commit under way: its next step and its record (working)
  acked,    \* history: the value of the last load or commit that succeeded
  tried     \* history: the values of the commits begun since

vars == <<flash, journal, loaded, commit, acked, tried>>

Sector == {0, 1}
Generation == 0 .. MaxGeneration
Record == [generation : Generation, config : Configs]

ASSUME InvalidAssumption == Invalid \notin Record

ResetJournal == [generation |-> 0, config |-> Default]
NoCommit == [step |-> "none", record |-> ResetJournal]

Init ==
  /\ flash = [i \in Sector |-> Invalid]
  /\ journal = ResetJournal
  /\ loaded = FALSE
  /\ commit = NoCommit
  /\ acked = Default
  /\ tried = {}

-----------------------------------------------------------------------------
(* Loading.                                                                *)

Valid(i) == flash[i] # Invalid

\* The slot cirvane_cfg_load selects when one is valid.
SelectedSecond == Valid(1) /\ (Valid(0) => flash[1].generation > flash[0].generation)

SelectedFirstValid ==
  IF Valid(0) THEN flash[0] ELSE IF Valid(1) THEN flash[1] ELSE ResetJournal

Selected ==
  IF SelectedSecond THEN flash[1]
  ELSE IF Valid(0) THEN flash[0]
  ELSE ResetJournal

\* Both reads succeed.
Load ==
  /\ commit.step = "none"
  /\ journal' = Selected
  /\ loaded' = TRUE
  /\ acked' = Selected.config
  /\ tried' = {}
  /\ UNCHANGED <<flash, commit>>

\* A reset of the processor: the caller starts over with cirvane_cfg_reset.  A
\* load whose read fails leaves the journal as it was reset, too.
Restart ==
  /\ journal' = ResetJournal
  /\ loaded' = FALSE
  /\ commit' = NoCommit
  /\ UNCHANGED <<flash, acked, tried>>

-----------------------------------------------------------------------------
(* Committing.                                                             *)

SlotOf(generation) == generation % 2

\* The record of the next generation.
Following(v) == [generation |-> journal.generation + 1, config |-> v]

\* cirvane_cfg_commit on the working copy.
CommitBegin(v) ==
  /\ loaded
  /\ commit.step = "none"
  /\ journal.generation < MaxGeneration
  /\ commit' = [step |-> "erase", record |-> Following(v)]
  /\ tried' = tried \cup {v}
  /\ UNCHANGED <<flash, journal, loaded, acked>>

Target == SlotOf(commit.record.generation)

\* The sector is erased, or the erase fails and leaves it as it was or spoilt.
CommitErase ==
  /\ commit.step = "erase"
  /\ \/ /\ flash' = [flash EXCEPT ![Target] = Invalid]
        /\ commit' = [commit EXCEPT !.step = "write"]
     \/ /\ \E kept \in {flash[Target], Invalid} : flash' = [flash EXCEPT ![Target] = kept]
        /\ commit' = NoCommit
  /\ UNCHANGED <<journal, loaded, acked, tried>>

\* The record may reach the sector or not, whatever the write reports.
CommitWrite ==
  /\ commit.step = "write"
  /\ \E stored \in {commit.record, Invalid} : flash' = [flash EXCEPT ![Target] = stored]
  /\ \/ commit' = [commit EXCEPT !.step = "verify"]
     \/ commit' = NoCommit
  /\ UNCHANGED <<journal, loaded, acked, tried>>

CommitVerifyBlindly ==
  /\ commit.step = "verify"
  /\ journal' = commit.record
  /\ acked' = commit.record.config
  /\ tried' = {}
  /\ commit' = NoCommit
  /\ UNCHANGED <<flash, loaded>>

\* The read-back matches and the commit is published, or it does not match or
\* cannot be read, and the journal keeps what it had.
CommitVerify ==
  /\ commit.step = "verify"
  /\ \/ /\ flash[Target] = commit.record
        /\ journal' = commit.record
        /\ acked' = commit.record.config
        /\ tried' = {}
     \/ UNCHANGED <<journal, acked, tried>>
  /\ commit' = NoCommit
  /\ UNCHANGED <<flash, loaded>>

\* cirvane_cfg_flash_inject_corrupt up to its commit: a record with a wrong CRC
\* goes to the next slot and the journal is loaded; or a flash operation fails.
InjectCorrupt ==
  /\ loaded
  /\ commit.step = "none"
  /\ journal.generation < MaxGeneration
  /\ LET slot == SlotOf(journal.generation + 1)
     IN  \/ /\ flash' = [flash EXCEPT ![slot] = Invalid]
            /\ journal' = Selected'
            /\ acked' = Selected'.config
            /\ tried' = {}
            /\ commit' = [NoCommit EXCEPT !.step =
                 IF Selected' = journal THEN "again" ELSE "none"]
         \/ /\ \E kept \in {flash[slot], Invalid} : flash' = [flash EXCEPT ![slot] = kept]
            /\ UNCHANGED <<journal, acked, tried, commit>>
  /\ UNCHANGED loaded

\* Its commit of the value it has loaded.
CommitAgain ==
  /\ commit.step = "again"
  /\ commit' = [step |-> "erase", record |-> Following(journal.config)]
  /\ tried' = tried \cup {journal.config}
  /\ UNCHANGED <<flash, journal, loaded, acked>>

Next ==
  \/ Load
  \/ Restart
  \/ \E v \in Configs : CommitBegin(v)
  \/ CommitErase
  \/ CommitWrite
  \/ CommitVerify
  \/ InjectCorrupt
  \/ CommitAgain

Spec == Init /\ [][Next]_vars

-----------------------------------------------------------------------------
(* Properties.                                                             *)

TypeOK ==
  /\ flash \in [Sector -> Record \cup {Invalid}]
  /\ journal \in Record
  /\ loaded \in BOOLEAN
  /\ commit \in [step : {"none", "again", "erase", "write", "verify"}, record : Record]
  /\ acked \in Configs
  /\ tried \subseteq Configs

\* KERNEL.md "Commit erases one sector ... and publishes only after a matching
\* read-back": the configuration in force, once committed, is in flash at every
\* moment, also while the next one is being written over the older copy.
LiveIsInFlash ==
  loaded /\ journal.generation > 0 => flash[SlotOf(journal.generation)] = journal

\* "Highest valid generation wins": a loader started now, at whatever point of
\* whatever commit, would find the configuration acknowledged last or one tried
\* since, and never an older one.
LoadFindsAckedOrTried == Selected.config \in {acked} \cup tried

\* The generation a loader started now would find is the journal's own or the one
\* after it: a failed commit never leaves a record that outlives the next one.
LoadFindsThisOrNext ==
  loaded => Selected.generation \in {journal.generation, journal.generation + 1}

\* The journal keeps the promise of DurableConfig.
Durable == INSTANCE DurableConfig WITH live <- journal.config
ImplementsDurable == Durable!Spec

=============================================================================
