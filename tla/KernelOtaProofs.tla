--------------------------- MODULE KernelOtaProofs ---------------------------
(***************************************************************************)
(* Theorems about KernelOta, for images of any length and any number of    *)
(* selections.                                                             *)
(***************************************************************************)
EXTENDS KernelOta, SequenceTheorems, TLAPS

USE MaxBlocksAssumption, MaxSeqAssumption, InvalidAssumption

-----------------------------------------------------------------------------
(* The policy.  Its invariant is inductive as it stands.                   *)

PolicyInv == PolicyType /\ BootableIsVerified /\ StagingSparesRunning /\ VerdictIsCurrent

LEMMA Ranges ==
  /\ 0 \in Blocks
  /\ \A s \in Slot : 1 - s \in Slot
  /\ {"EMPTY", "STAGING", "PENDING", "VALID", "INVALID", "ABORTED"} \subseteq States
BY DEF Blocks, Slot, States

LEMMA PolicyInitInv == ASSUME NEW r \in Slot, PolicyInit(r) PROVE PolicyInv
<1>1. PolicyType
  BY Ranges DEF PolicyInit, PolicyType, ResetStates
<1>2. BootableIsVerified
  BY DEF PolicyInit, BootableIsVerified, ResetStates, Slot
<1>3. QED
  BY <1>1, <1>2 DEF PolicyInit, PolicyInv, StagingSparesRunning, VerdictIsCurrent

LEMMA PolicyResetInv == ASSUME NEW r \in Slot, PolicyReset(r) PROVE PolicyInv'
<1>1. PolicyType'
  BY Ranges DEF PolicyReset, PolicyType, ResetStates
<1>2. BootableIsVerified'
  BY DEF PolicyReset, BootableIsVerified, ResetStates, Slot
<1>3. QED
  BY <1>1, <1>2 DEF PolicyReset, PolicyInv, StagingSparesRunning, VerdictIsCurrent

LEMMA PolicyStepInv == ASSUME PolicyInv, PolicyStep PROVE PolicyInv'
<1> USE DEF PolicyInv, PolicyType
<1>1. CASE \E target \in Slot, image_len \in Blocks : Begin(target, image_len)
  <2>1. PICK target \in Slot, image_len \in Blocks : Begin(target, image_len)
    BY <1>1
  <2>2. PolicyType'
    BY <2>1, Ranges DEF Begin
  <2>3. BootableIsVerified'
    BY <2>1 DEF Begin, BootableIsVerified
  <2>4. StagingSparesRunning' /\ VerdictIsCurrent'
    BY <2>1 DEF Begin, StagingSparesRunning, VerdictIsCurrent
  <2>5. QED
    BY <2>2, <2>3, <2>4
<1>2. CASE \E length \in Blocks : Write(length)
  <2>1. PolicyType'
    BY <1>2 DEF Write, Blocks
  <2>2. QED
    BY <1>2, <2>1 DEF Write, BootableIsVerified, StagingSparesRunning, VerdictIsCurrent
<1>3. CASE Abort
  <2>1. PolicyType'
    BY <1>3, Ranges DEF Abort
  <2>2. BootableIsVerified'
    BY <1>3 DEF Abort, BootableIsVerified
  <2>3. QED
    BY <1>3, <2>1, <2>2 DEF Abort, StagingSparesRunning, VerdictIsCurrent
<1>4. CASE EndGood
  <2>1. PolicyType'
    BY <1>4, Ranges DEF EndGood
  <2>2. BootableIsVerified'
    BY <1>4 DEF EndGood, BootableIsVerified
  <2>3. QED
    BY <1>4, <2>1, <2>2 DEF EndGood, StagingSparesRunning, VerdictIsCurrent
<1>5. CASE EndBad
  <2>1. PolicyType'
    BY <1>5, Ranges DEF EndBad
  <2>2. BootableIsVerified'
    BY <1>5 DEF EndBad, BootableIsVerified
  <2>3. QED
    BY <1>5, <2>1, <2>2 DEF EndBad, StagingSparesRunning, VerdictIsCurrent
<1>6. CASE Select
  BY <1>6 DEF Select, BootableIsVerified, StagingSparesRunning, VerdictIsCurrent
<1>7. CASE Reboot
  BY <1>7 DEF Reboot, BootableIsVerified, StagingSparesRunning, VerdictIsCurrent
<1>8. CASE Confirm
  <2>1. PolicyType'
    BY <1>8, Ranges DEF Confirm
  <2>2. BootableIsVerified'
    BY <1>8 DEF Confirm, BootableIsVerified
  <2>3. QED
    BY <1>8, <2>1, <2>2 DEF Confirm, StagingSparesRunning, VerdictIsCurrent
<1>9. CASE Rollback
  <2>1. ~staging
    BY <1>9 DEF Rollback, StagingSparesRunning, Slot
  <2>2. PolicyType'
    BY <1>9, Ranges DEF Rollback
  <2>3. BootableIsVerified'
    BY <1>9, Ranges DEF Rollback, BootableIsVerified
  <2>4. QED
    BY <1>9, <2>1, <2>2, <2>3 DEF Rollback, StagingSparesRunning, VerdictIsCurrent
<1>10. QED
  BY <1>1, <1>2, <1>3, <1>4, <1>5, <1>6, <1>7, <1>8, <1>9 DEF PolicyStep

\* The boot slot moves only in a select, a rollback and a reset.
LEMMA BootMoves ==
  ASSUME PolicyInv, PolicyStep, boot_slot' # boot_slot
  PROVE  boot_slot' \in verified' /\ states'[boot_slot'] \in {"PENDING", "VALID"}
<1>1. Select \/ Rollback
  BY DEF PolicyStep, Begin, Write, Abort, EndGood, EndBad, Reboot, Confirm
<1>2. CASE Select
  BY <1>2 DEF PolicyInv, PolicyType, Select, BootableIsVerified
<1>3. CASE Rollback
  BY <1>3 DEF PolicyInv, PolicyType, Rollback, BootableIsVerified, Slot
<1>4. QED
  BY <1>1, <1>2, <1>3

-----------------------------------------------------------------------------
(* The adapter.                                                            *)

\* Numbers of entries.
LEMMA Numbers ==
  ASSUME NEW e \in [Sector -> Entry]
  PROVE  /\ Highest(e) \in 0 .. MaxSeq
         /\ Active(e) \in App
<1>1. \A i \in Sector : SeqOf(e[i]) \in 0 .. MaxSeq
  BY DEF Entry, SeqOf
<1>2. Highest(e) \in 0 .. MaxSeq
  BY <1>1 DEF Highest, Sector
<1>3. \A n \in Nat \ {0} : AppOf(n) \in App
  BY DEF AppOf, App
<1>4. QED
  BY <1>2, <1>3 DEF Active, App

LEMMA SeqOfType == ASSUME NEW x \in Entry PROVE SeqOf(x) \in Nat /\ (x # Invalid => SeqOf(x) = x)
BY DEF Entry, SeqOf

\* The writes of a call that have not been done.
LEMMA RestOf ==
  ASSUME NEW q \in Seq(Pending), q # <<>>, Len(q) <= 2
  PROVE  /\ Head(q) \in Pending /\ Head(q).sector \in Sector /\ Head(q).entry \in Entry
         /\ Tail(q) \in Seq(Pending) /\ Len(Tail(q)) <= 2
<1>1. Head(q) \in Pending /\ Tail(q) \in Seq(Pending) /\ Len(Tail(q)) = Len(q) - 1
  BY HeadTailProperties
<1>2. QED
  BY <1>1 DEF Pending

\* The slot an entry makes active when the other sector is empty.
AppOfEntry(x) == IF SeqOf(x) = 0 THEN 0 ELSE AppOf(SeqOf(x))

LEMMA ActiveOfPair ==
  ASSUME NEW e, NEW i \in Sector, SeqOf(e[1 - i]) \in Nat, SeqOf(e[i]) \in Nat
  PROVE  /\ SeqOf(e[i]) > SeqOf(e[1 - i]) => Active(e) = AppOfEntry(e[i])
         /\ SeqOf(e[i]) = 0 => Active(e) = AppOfEntry(e[1 - i])
<1>1. CASE i = 0
  BY <1>1 DEF Active, Highest, AppOfEntry
<1>2. CASE i = 1
  BY <1>2 DEF Active, Highest, AppOfEntry
<1>3. QED
  BY <1>1, <1>2 DEF Sector

-----------------------------------------------------------------------------
(* What holds while a call writes.                                         *)

\* A select writes a higher number to one sector; the other holds the number that
\* decided the boot so far.
Selecting ==
  /\ Len(todo) = 1
  /\ goal \in tried
  /\ LET w     == Head(todo)
         other == 1 - w.sector
     IN  /\ w.entry \in Nat
         /\ AppOf(w.entry) = goal
         /\ w.entry > SeqOf(entries[other])
         /\ AppOfEntry(entries[other]) \in {chosen} \cup tried

RestoringFirst ==
  /\ todo = <<[sector |-> 0, entry |-> backup[0]], [sector |-> 1, entry |-> backup[1]]>>
  /\ goal = Active(backup)
  /\ tried = App

RestoringSecond ==
  /\ todo = <<[sector |-> 1, entry |-> backup[1]]>>
  /\ entries[0] = backup[0]
  /\ goal = Active(backup)
  /\ tried = App

OtaDataInv ==
  /\ OtaDataType
  /\ step # "erase" => ~Idle
  /\ Idle \/ Selecting \/ RestoringFirst \/ RestoringSecond
  /\ ActiveIsChosenOrTried

LEMMA OtaDataInitInv == ASSUME OtaDataInit PROVE OtaDataInv
<1>1. entries \in [Sector -> Entry] /\ Active(entries) \in App
  BY Numbers DEF OtaDataInit
<1>2. OtaDataType
  BY <1>1 DEF OtaDataInit, OtaDataType
<1>3. QED
  BY <1>1, <1>2 DEF OtaDataInit, OtaDataInv, Idle, ActiveIsChosenOrTried

LEMMA ReadInv == ASSUME OtaDataInv, Read PROVE OtaDataInv'
BY DEF OtaDataInv, Read, OtaDataType, Idle, ActiveIsChosenOrTried

LEMMA PowerLossInv == ASSUME OtaDataInv, PowerLoss PROVE OtaDataInv'
<1>1. Active(entries) \in App
  BY Numbers DEF OtaDataInv, OtaDataType
<1>2. OtaDataType'
  BY <1>1 DEF OtaDataInv, OtaDataType, PowerLoss, Fail
<1>3. QED
  BY <1>2 DEF OtaDataInv, PowerLoss, Fail, Idle, ActiveIsChosenOrTried

LEMMA RestoreInv == ASSUME OtaDataInv, Restore PROVE OtaDataInv'
<1>1. entries \in [Sector -> Entry] /\ backup \in [Sector -> Entry]
  BY DEF OtaDataInv, OtaDataType
<1>2. /\ todo' \in Seq(Pending) /\ Len(todo') = 2
      /\ Active(entries) \in App /\ Active(backup) \in App
  BY <1>1, Numbers DEF Restore, Pending, Sector
<1>3. OtaDataType'
  BY <1>2 DEF OtaDataInv, OtaDataType, Restore
<1>4. RestoringFirst' /\ ~Idle'
  BY <1>2 DEF RestoringFirst, Restore, Idle
<1>5. QED
  BY <1>2, <1>3, <1>4 DEF OtaDataInv, Restore, ActiveIsChosenOrTried

LEMMA SelectAppInv == ASSUME OtaDataInv, NEW app \in App, SelectApp(app) PROVE OtaDataInv'
<1> DEFINE h == Highest(entries)
           d == Destination
           n == NextSeq(app)
<1>1. /\ entries \in [Sector -> Entry]
      /\ h \in 0 .. MaxSeq
      /\ \A i \in Sector : SeqOf(entries[i]) \in Nat
  BY Numbers, SeqOfType DEF OtaDataInv, OtaDataType
<1>2. d \in Sector /\ 1 - d \in Sector /\ SeqOf(entries[1 - d]) = h
  BY <1>1 DEF Destination, Highest, Sector
<1>3. n \in Nat /\ n > h /\ AppOf(n) = app /\ n \in 1 .. MaxSeq
  <2>1. h \in Nat /\ n \in {h + 1, h + 2} /\ n <= MaxSeq
    BY <1>1 DEF NextSeq, SelectApp
  <2>2. AppOf(n) = app
    <3>1. AppOf(h + 1) \in App
      BY <2>1 DEF AppOf, App
    <3>2. AppOf(h + 1) # AppOf(h + 2)
      BY <2>1 DEF AppOf
    <3>3. AppOf(h + 2) \in App
      BY <2>1 DEF AppOf, App
    <3>4. QED
      BY <2>1, <3>1, <3>2, <3>3, h + 1 + 1 = h + 2 DEF NextSeq, App
  <2>3. QED
    BY <2>1, <2>2
<1>4. todo' = <<[sector |-> d, entry |-> n]>> /\ tried' = tried \cup {app} /\ goal' = app
      /\ UNCHANGED <<entries, step, backup, chosen>>
  BY DEF SelectApp
<1>5. todo' \in Seq(Pending) /\ Len(todo') = 1 /\ Head(todo') = [sector |-> d, entry |-> n]
  BY <1>2, <1>3, <1>4 DEF Pending, Entry
<1>6. OtaDataType'
  BY <1>4, <1>5 DEF OtaDataInv, OtaDataType
<1>7. AppOfEntry(entries[1 - d]) = Active(entries)
  BY <1>2 DEF AppOfEntry, Active
<1>8. Selecting'
  BY <1>2, <1>3, <1>4, <1>5, <1>7 DEF Selecting, OtaDataInv, ActiveIsChosenOrTried
<1>9. QED
  BY <1>4, <1>5, <1>6, <1>8 DEF OtaDataInv, Idle, ActiveIsChosenOrTried

-----------------------------------------------------------------------------
(* The flash operations change one sector: to Invalid, to what it was, or  *)
(* to the entry that is written.                                           *)

LEMMA UnderWay ==
  ASSUME OtaDataInv, ~Idle
  PROVE  /\ Destined \in Sector /\ 1 - Destined \in Sector /\ 1 - Destined # Destined
         /\ Head(todo).entry \in Entry
         /\ Head(todo).sector = Destined
         /\ Tail(todo) \in Seq(Pending) /\ Len(Tail(todo)) <= 2
         /\ RestoringFirst => Destined = 0 /\ Len(todo) = 2
         /\ RestoringSecond => Destined = 1 /\ Len(todo) = 1
<1>1. todo \in Seq(Pending) /\ todo # <<>> /\ Len(todo) <= 2
  BY DEF OtaDataInv, OtaDataType, Idle
<1>2. /\ Head(todo).sector \in Sector /\ Head(todo).entry \in Entry
      /\ Tail(todo) \in Seq(Pending) /\ Len(Tail(todo)) <= 2
  BY <1>1, RestOf
<1>3. RestoringFirst => Destined = 0 /\ Len(todo) = 2
  BY DEF RestoringFirst, Destined
<1>4. RestoringSecond => Destined = 1 /\ Len(todo) = 1
  BY DEF RestoringSecond, Destined
<1>5. QED
  BY <1>2, <1>3, <1>4 DEF Destined, Sector

LEMMA SectorWritten ==
  ASSUME OtaDataInv, ~Idle, NEW x \in {entries[Destined], Invalid, Head(todo).entry},
         entries' = [entries EXCEPT ![Destined] = x],
         UNCHANGED <<backup, goal, chosen, tried>>
  PROVE  /\ entries' \in [Sector -> Entry]
         /\ ActiveIsChosenOrTried'
         /\ todo' = todo => (Selecting \/ RestoringFirst \/ RestoringSecond)'
<1> DEFINE d     == Destined
           other == 1 - d
<1>1. /\ d \in Sector /\ other \in Sector /\ other # d
      /\ Head(todo).entry \in Entry /\ Head(todo).sector = d
      /\ RestoringFirst => d = 0 /\ Len(todo) = 2
      /\ RestoringSecond => d = 1 /\ Len(todo) = 1
  BY UnderWay
<1>2. entries \in [Sector -> Entry]
  BY DEF OtaDataInv, OtaDataType
<1>3. entries' \in [Sector -> Entry]
  BY <1>1, <1>2 DEF Entry
<1>4. entries'[d] = x /\ entries'[other] = entries[other]
  BY <1>1, <1>2
<1>5. Active(entries') \in App
  BY <1>3, Numbers
<1>6. /\ SeqOf(entries'[d]) \in Nat /\ SeqOf(entries'[other]) \in Nat
      /\ SeqOf(Invalid) = 0
      /\ \A n \in Nat : SeqOf(n) = n
  BY <1>1, <1>3, SeqOfType DEF SeqOf
<1>7. /\ SeqOf(entries'[d]) > SeqOf(entries'[other]) => Active(entries') = AppOfEntry(entries'[d])
      /\ SeqOf(entries'[d]) = 0 => Active(entries') = AppOfEntry(entries'[other])
  BY <1>1, <1>6, ActiveOfPair
<1>8. CASE Selecting
  <2>1. /\ goal \in tried
        /\ Head(todo).entry \in Nat
        /\ AppOf(Head(todo).entry) = goal
        /\ Head(todo).entry > SeqOf(entries[other])
        /\ AppOfEntry(entries[other]) \in {chosen} \cup tried
    BY <1>1, <1>8 DEF Selecting
  <2>2. Active(entries') \in {chosen} \cup tried
    <3>1. CASE x = Invalid
      <4>1. AppOfEntry(entries'[other]) = AppOfEntry(entries[other])
        BY <1>4
      <4>2. SeqOf(entries'[d]) = 0
        BY <1>4, <1>6, <3>1
      <4>3. Active(entries') = AppOfEntry(entries'[other])
        BY <1>7, <4>2
      <4>4. QED
        BY <2>1, <4>1, <4>3
    <3>2. CASE x = entries[d]
      <4>1. entries' = entries
        BY <1>1, <1>2, <3>2
      <4>2. QED
        BY <4>1 DEF OtaDataInv, ActiveIsChosenOrTried
    <3>3. CASE x = Head(todo).entry
      <4>1. SeqOf(entries'[d]) = Head(todo).entry /\ Head(todo).entry # 0
        BY <1>4, <1>6, <2>1, <3>3
      <4>2. Active(entries') = AppOfEntry(entries'[d])
        <5>1. SeqOf(entries'[other]) = SeqOf(entries[other])
          BY <1>4
        <5>2. SeqOf(entries'[d]) > SeqOf(entries'[other])
          BY <2>1, <4>1, <5>1
        <5>3. QED
          BY <1>7, <5>2
      <4>3. QED
        BY <2>1, <4>1, <4>2 DEF AppOfEntry
    <3>4. QED
      BY <3>1, <3>2, <3>3
  <2>3. todo' = todo => Selecting'
    BY <1>1, <1>4, <1>8 DEF Selecting
  <2>4. QED
    BY <1>3, <2>2, <2>3 DEF ActiveIsChosenOrTried
<1>9. CASE RestoringFirst
  <2>1. todo' = todo => RestoringFirst'
    BY <1>9 DEF RestoringFirst
  <2>2. ActiveIsChosenOrTried'
    BY <1>5, <1>9 DEF RestoringFirst, ActiveIsChosenOrTried
  <2>3. QED
    BY <1>3, <2>1, <2>2
<1>10. CASE RestoringSecond
  <2>1. entries'[0] = entries[0]
    BY <1>1, <1>4, <1>10
  <2>2. todo' = todo => RestoringSecond'
    BY <1>10, <2>1 DEF RestoringSecond
  <2>3. ActiveIsChosenOrTried'
    BY <1>5, <1>10 DEF RestoringSecond, ActiveIsChosenOrTried
  <2>4. QED
    BY <1>3, <2>2, <2>3
<1>11. QED
  BY <1>8, <1>9, <1>10 DEF OtaDataInv

LEMMA EmptyCall == <<>> \in Seq(Pending) /\ Len(<<>>) <= 2
OBVIOUS

LEMMA EraseEntryInv == ASSUME OtaDataInv, EraseEntry PROVE OtaDataInv'
<1>1. /\ ~Idle
      /\ UNCHANGED <<backup, goal, chosen, tried>>
      /\ \/ step' = "write" /\ todo' = todo
         \/ Fail
  BY DEF EraseEntry
<1>2. PICK x \in {entries[Destined], Invalid} : entries' = [entries EXCEPT ![Destined] = x]
  BY DEF EraseEntry
<1>3. /\ entries' \in [Sector -> Entry]
      /\ ActiveIsChosenOrTried'
      /\ todo' = todo => (Selecting \/ RestoringFirst \/ RestoringSecond)'
  BY <1>1, <1>2, SectorWritten
<1>4. OtaDataType'
  BY <1>1, <1>3, EmptyCall DEF OtaDataInv, OtaDataType, Fail
<1>5. QED
  BY <1>1, <1>3, <1>4 DEF OtaDataInv, Fail, Idle

LEMMA WriteEntryInv == ASSUME OtaDataInv, WriteEntry PROVE OtaDataInv'
<1>1. /\ ~Idle
      /\ UNCHANGED <<backup, goal, chosen, tried>>
      /\ \/ step' = "verify" /\ todo' = todo
         \/ Fail
  BY DEF WriteEntry, OtaDataInv
<1>2. PICK x \in {Head(todo).entry, Invalid} : entries' = [entries EXCEPT ![Destined] = x]
  BY DEF WriteEntry
<1>3. /\ entries' \in [Sector -> Entry]
      /\ ActiveIsChosenOrTried'
      /\ todo' = todo => (Selecting \/ RestoringFirst \/ RestoringSecond)'
  BY <1>1, <1>2, SectorWritten
<1>4. OtaDataType'
  BY <1>1, <1>3, EmptyCall DEF OtaDataInv, OtaDataType, Fail
<1>5. QED
  BY <1>1, <1>3, <1>4 DEF OtaDataInv, Fail, Idle

LEMMA VerifyEntryInv == ASSUME OtaDataInv, VerifyEntry PROVE OtaDataInv'
<1>1. /\ ~Idle
      /\ UNCHANGED <<entries, backup, goal>>
      /\ entries \in [Sector -> Entry]
      /\ Active(entries) \in App
      /\ goal \in App
  BY Numbers DEF VerifyEntry, OtaDataInv, OtaDataType
<1>2. CASE Fail /\ UNCHANGED <<chosen, tried>>
  <2>1. OtaDataType'
    BY <1>1, <1>2, EmptyCall DEF OtaDataInv, OtaDataType, Fail
  <2>2. QED
    BY <1>1, <1>2, <2>1 DEF OtaDataInv, Fail, Idle, ActiveIsChosenOrTried
<1>3. CASE /\ entries[Destined] = Head(todo).entry
           /\ step' = "erase"
           /\ todo' = Tail(todo)
           /\ IF Len(todo) = 1 THEN chosen' = goal /\ tried' = {} ELSE UNCHANGED <<chosen, tried>>
  <2>1. OtaDataType'
    BY <1>1, <1>3, UnderWay DEF OtaDataInv, OtaDataType
  <2>2. CASE RestoringFirst
    <3>1. Tail(todo) = <<[sector |-> 1, entry |-> backup[1]]>>
      BY <2>2 DEF RestoringFirst
    <3>2. entries[0] = backup[0]
      BY <1>3, <2>2 DEF RestoringFirst, Destined
    <3>3. Len(todo) = 2 /\ UNCHANGED <<chosen, tried>>
      BY <1>1, <1>3, <2>2, UnderWay
    <3>4. RestoringSecond'
      BY <1>1, <1>3, <2>2, <3>1, <3>2, <3>3 DEF RestoringFirst, RestoringSecond
    <3>5. ActiveIsChosenOrTried'
      BY <1>1, <3>3 DEF OtaDataInv, ActiveIsChosenOrTried
    <3>6. QED
      BY <1>3, <2>1, <3>4, <3>5 DEF OtaDataInv
  <2>3. CASE Selecting \/ RestoringSecond
    <3>1. Len(todo) = 1 /\ todo \in Seq(Pending)
      BY <1>1, <2>3, UnderWay DEF Selecting, OtaDataInv, OtaDataType
    <3>2. todo' = <<>> /\ chosen' = goal /\ tried' = {}
      BY <1>3, <3>1
    <3>3. CASE Selecting
      <4> DEFINE w     == Head(todo)
                 other == 1 - w.sector
      <4>1. /\ w.sector \in Sector /\ other \in Sector /\ w.sector = Destined
            /\ w.entry \in Nat /\ AppOf(w.entry) = goal
            /\ w.entry > SeqOf(entries[other])
            /\ entries[w.sector] = w.entry
        BY <1>1, <1>3, <3>3, UnderWay DEF Selecting
      <4>2. SeqOf(entries[w.sector]) = w.entry /\ SeqOf(entries[other]) \in Nat
        BY <1>1, <4>1, SeqOfType DEF SeqOf
      <4>3. Active(entries) = AppOfEntry(entries[w.sector])
        BY <4>1, <4>2, ActiveOfPair
      <4>4. w.entry # 0
        BY <4>1, <4>2
      <4>5. Active(entries) = goal
        BY <4>1, <4>2, <4>3, <4>4 DEF AppOfEntry
      <4>6. QED
        BY <1>1, <1>3, <2>1, <3>2, <4>5 DEF OtaDataInv, Idle, ActiveIsChosenOrTried
    <3>4. CASE RestoringSecond
      <4>1. entries[0] = backup[0] /\ entries[1] = backup[1]
        BY <1>3, <3>4 DEF RestoringSecond, Destined
      <4>2. Active(entries) = goal
        BY <3>4, <4>1 DEF RestoringSecond, Active, Highest
      <4>3. QED
        BY <1>1, <1>3, <2>1, <3>2, <4>2 DEF OtaDataInv, Idle, ActiveIsChosenOrTried
    <3>5. QED
      BY <2>3, <3>3, <3>4
  <2>4. QED
    BY <1>1, <2>2, <2>3 DEF OtaDataInv
<1>4. QED
  BY <1>2, <1>3 DEF VerifyEntry

-----------------------------------------------------------------------------
(* The theorems.                                                           *)

IInv == PolicyInv /\ OtaDataInv

LEMMA NextInv == ASSUME IInv, [Next]_vars PROVE IInv'
<1>1. CASE Idle /\ PolicyStep /\ UNCHANGED otaDataVars
  <2>1. PolicyInv'
    BY <1>1, PolicyStepInv DEF IInv
  <2>2. OtaDataInv'
    BY <1>1 DEF IInv, otaDataVars, OtaDataInv, OtaDataType, Idle, Selecting,
                RestoringFirst, RestoringSecond, ActiveIsChosenOrTried
  <2>3. QED
    BY <2>1, <2>2 DEF IInv
<1>2. CASE OtaDataStep /\ UNCHANGED policyVars
  <2>1. PolicyInv'
    BY <1>2 DEF IInv, policyVars, PolicyInv, PolicyType, BootableIsVerified,
                StagingSparesRunning, VerdictIsCurrent
  <2>2. OtaDataInv'
    BY <1>2, ReadInv, SelectAppInv, RestoreInv, EraseEntryInv, WriteEntryInv, VerifyEntryInv
    DEF IInv, OtaDataStep
  <2>3. QED
    BY <2>1, <2>2 DEF IInv
<1>3. CASE PowerUp
  <2>1. Active(entries) \in Slot
    BY Numbers DEF IInv, OtaDataInv, OtaDataType, App, Slot
  <2>2. QED
    BY <1>3, <2>1, PowerLossInv, PolicyResetInv DEF IInv, PowerUp
<1>4. CASE UNCHANGED vars
  BY <1>4 DEF vars, IInv, PolicyInv, PolicyType, BootableIsVerified, StagingSparesRunning,
              VerdictIsCurrent, OtaDataInv, OtaDataType, Idle, Selecting, RestoringFirst,
              RestoringSecond, ActiveIsChosenOrTried
<1>5. QED
  BY <1>1, <1>2, <1>3, <1>4 DEF Next

\* The policy and the adapter stay in their invariants, whatever their callers do
\* and whenever power fails.
THEOREM InductiveInvariant == Spec => []IInv
<1>1. Init => IInv
  <2> SUFFICES ASSUME Init PROVE IInv
    OBVIOUS
  <2>1. OtaDataInv
    BY OtaDataInitInv DEF Init
  <2>2. Active(entries) \in Slot
    BY <2>1, Numbers DEF OtaDataInv, OtaDataType, App, Slot
  <2>3. QED
    BY <2>1, <2>2, PolicyInitInv DEF Init, IInv
<1>2. QED
  BY <1>1, NextInv, PTL DEF Spec

\* The fields of both keep their ranges.
THEOREM TypeCorrect == Spec => []TypeOK
<1>1. IInv => TypeOK
  BY DEF IInv, PolicyInv, OtaDataInv, TypeOK
<1>2. QED
  BY <1>1, InductiveInvariant, PTL

\* A slot is PENDING or VALID only while it holds a complete, verified image.
THEOREM BootableSlotsAreVerified == Spec => []BootableIsVerified
<1>1. IInv => BootableIsVerified
  BY DEF IInv, PolicyInv
<1>2. QED
  BY <1>1, InductiveInvariant, PTL

\* No image is staged over the one that runs.
THEOREM RunningIsSpared == Spec => []StagingSparesRunning
<1>1. IInv => StagingSparesRunning
  BY DEF IInv, PolicyInv
<1>2. QED
  BY <1>1, InductiveInvariant, PTL

\* verify_ok is about the image that awaits selection.
THEOREM VerdictStaysCurrent == Spec => []VerdictIsCurrent
<1>1. IInv => VerdictIsCurrent
  BY DEF IInv, PolicyInv
<1>2. QED
  BY <1>1, InductiveInvariant, PTL

\* The boot slot moves to verified slots only.
THEOREM BootMovesOnlyToVerified == Spec => BootMovesToVerified
<1>1. IInv /\ [Next]_vars =>
        [boot_slot' # boot_slot =>
           boot_slot' \in verified' /\ states'[boot_slot'] \in {"PENDING", "VALID"}]_policyVars
  <2> SUFFICES ASSUME IInv, [Next]_vars, boot_slot' # boot_slot
               PROVE  boot_slot' \in verified' /\ states'[boot_slot'] \in {"PENDING", "VALID"}
    OBVIOUS
  <2>1. CASE PolicyStep
    BY <2>1, BootMoves DEF IInv
  <2>2. CASE PowerUp
    <3>1. Active(entries) \in Slot
      BY Numbers DEF IInv, OtaDataInv, OtaDataType, App, Slot
    <3>2. QED
      BY <2>2, <3>1 DEF PowerUp, PolicyReset, ResetStates
  <2>3. QED
    BY <2>1, <2>2 DEF Next, vars, policyVars
<1>2. QED
  BY <1>1, InductiveInvariant, PTL DEF Spec, BootMovesToVerified

\* Whenever power fails, the next boot finds the slot of before or the one a call
\* begun since was to make active.
THEOREM BootSurvivesPowerLoss == Spec => []ActiveIsChosenOrTried
<1>1. IInv => ActiveIsChosenOrTried
  BY DEF IInv, OtaDataInv
<1>2. QED
  BY <1>1, InductiveInvariant, PTL

=============================================================================
