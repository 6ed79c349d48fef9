------------------------ MODULE ConfigJournalProofs ------------------------
(***************************************************************************)
(* Theorems about ConfigJournal, for any set of configurations and any     *)
(* number of commits.                                                      *)
(***************************************************************************)
EXTENDS ConfigJournal, TLAPS

USE DefaultAssumption, MaxGenerationAssumption, InvalidAssumption

-----------------------------------------------------------------------------
(* The two sectors alternate.                                              *)

LEMMA SlotOfType == ASSUME NEW g \in Nat PROVE SlotOf(g) \in Sector
BY DEF SlotOf, Sector

LEMMA SlotOfNext == ASSUME NEW g \in Nat PROVE SlotOf(g + 1) = 1 - SlotOf(g)
BY DEF SlotOf

LEMMA SlotOfZero == SlotOf(0) = 0
BY DEF SlotOf

-----------------------------------------------------------------------------
(* The inductive invariant.                                                *)

\* Every valid record is in the slot of its generation, and none has number 0.
RecordsInTheirSlots ==
  \A i \in Sector : Valid(i) => flash[i].generation > 0 /\ SlotOf(flash[i].generation) = i

\* The slot of the configuration in force holds it, or nothing was ever found.
LiveSlotHoldsLive ==
  IF journal.generation = 0
  THEN flash[0] = Invalid /\ journal.config = Default
  ELSE flash[SlotOf(journal.generation)] = journal

\* The other slot holds an older record, or what a commit that has not
\* succeeded left there.
OtherSlotOldOrTried ==
  LET other == 1 - SlotOf(journal.generation)
  IN  Valid(other) =>
        \/ flash[other].generation < journal.generation
        \/ flash[other].generation = journal.generation + 1 /\ flash[other].config \in tried

InForce ==
  loaded => journal.config = acked /\ LiveSlotHoldsLive /\ OtherSlotOldOrTried

\* The commit under way writes the next generation.
CommitIsNext ==
  /\ commit.step # "none" => loaded
  /\ commit.step = "again" => journal.generation < MaxGeneration
  /\ commit.step \in {"erase", "write", "verify"} =>
       /\ commit.record.generation = journal.generation + 1
       /\ commit.record.config \in tried

IInv ==
  /\ TypeOK
  /\ RecordsInTheirSlots
  /\ InForce
  /\ CommitIsNext
  /\ LoadFindsAckedOrTried

-----------------------------------------------------------------------------
(* What a load would find.                                                 *)

FlashOK == flash \in [Sector -> Record \cup {Invalid}]

LEMMA SelectedType == FlashOK => Selected \in Record
BY DEF FlashOK, Selected, SelectedSecond, Valid, Sector, ResetJournal, Record, Generation

\* With a configuration in force, it would find that one or the one tried after it.
LEMMA SelectedInForce ==
  ASSUME TypeOK, InForce, loaded
  PROVE  \/ Selected = journal
         \/ Selected.generation = journal.generation + 1 /\ Selected.config \in tried
<1> DEFINE g     == journal.generation
           this  == SlotOf(g)
           other == 1 - SlotOf(g)
<1>1. g \in Nat /\ journal \in Record /\ this \in {0, 1}
  BY SlotOfType DEF TypeOK, Record, Generation, Sector
<1>2. \A i \in {0, 1} : Valid(i) => flash[i] \in Record /\ flash[i].generation \in Nat
  BY DEF TypeOK, Valid, Sector, Record, Generation
<1>3. CASE g = 0
  <2>1. ~Valid(0) /\ this = 0 /\ journal = ResetJournal
    BY <1>1, <1>3, SlotOfZero DEF InForce, LiveSlotHoldsLive, Valid, ResetJournal, Record
  <2>2. Valid(1) => flash[1].generation = g + 1 /\ flash[1].config \in tried
    BY <1>2, <1>3, <2>1 DEF InForce, OtherSlotOldOrTried
  <2>3. QED
    BY <2>1, <2>2 DEF Selected, SelectedSecond
<1>4. CASE g # 0
  <2>1. flash[this] = journal /\ Valid(this)
    BY <1>1, <1>4 DEF InForce, LiveSlotHoldsLive, Valid
  <2>2. Valid(other) => \/ flash[other].generation < g
                        \/ flash[other].generation = g + 1 /\ flash[other].config \in tried
    BY DEF InForce, OtherSlotOldOrTried
  <2>3. CASE this = 0
    BY <1>1, <1>2, <2>1, <2>2, <2>3 DEF Selected, SelectedSecond
  <2>4. CASE this = 1
    BY <1>1, <1>2, <2>1, <2>2, <2>4 DEF Selected, SelectedSecond
  <2>5. QED
    BY <1>1, <2>3, <2>4
<1>5. QED
  BY <1>3, <1>4

LEMMA InForceSuffices == TypeOK /\ InForce /\ loaded => LoadFindsAckedOrTried
BY SelectedInForce DEF InForce, LoadFindsAckedOrTried

\* A load puts in force what it selects: the other sector is older.
TakesForce(r) ==
  LET other == 1 - SlotOf(r.generation)
  IN  /\ IF r.generation = 0
         THEN flash[0] = Invalid /\ r.config = Default
         ELSE flash[SlotOf(r.generation)] = r
      /\ Valid(other) => flash[other].generation < r.generation

SelectedTakesForce == TakesForce(Selected)

LEMMA LoadTakesForce == FlashOK /\ RecordsInTheirSlots => SelectedTakesForce
<1> SUFFICES ASSUME FlashOK, RecordsInTheirSlots, NEW r, r = Selected
             PROVE  TakesForce(r)
  BY DEF SelectedTakesForce
<1> USE DEF TakesForce
<1>1. \A i \in {0, 1} : Valid(i) =>
        /\ flash[i] \in Record /\ flash[i].generation \in Nat
        /\ flash[i].generation > 0 /\ SlotOf(flash[i].generation) = i
  BY DEF FlashOK, RecordsInTheirSlots, Valid, Sector, Record, Generation
<1>2. CASE SelectedSecond
  BY <1>1, <1>2 DEF Selected, SelectedSecond
<1>3. CASE ~SelectedSecond /\ Valid(0)
  <2>1. r = flash[0] /\ SlotOf(r.generation) = 0
    BY <1>1, <1>3 DEF Selected
  <2>2. Valid(1) => flash[1].generation <= r.generation /\ flash[1].generation # r.generation
    BY <1>1, <1>3, <2>1 DEF SelectedSecond
  <2>3. QED
    BY <1>1, <1>3, <2>1, <2>2
<1>4. CASE ~SelectedSecond /\ ~Valid(0)
  <2>1. r = ResetJournal /\ ~Valid(1)
    BY <1>4 DEF Selected, SelectedSecond
  <2>2. r.generation = 0 /\ r.config = Default
    BY <2>1 DEF ResetJournal
  <2>3. QED
    BY <1>4, <2>1, <2>2, SlotOfZero DEF Valid
<1>5. QED
  BY <1>2, <1>3, <1>4

-----------------------------------------------------------------------------
(* Every action preserves the invariant.  Core leaves out its last          *)
(* conjunct, which CoreSuffices adds for all actions at once.              *)

Core == TypeOK /\ RecordsInTheirSlots /\ InForce /\ CommitIsNext

LEMMA CoreSuffices ==
  ASSUME IInv, Core', loaded' \/ UNCHANGED <<flash, acked, tried>>
  PROVE  IInv'
<1>1. LoadFindsAckedOrTried'
  <2>1. CASE loaded'
    <3>1. (TypeOK /\ InForce /\ loaded => LoadFindsAckedOrTried)'
      BY InForceSuffices, PTL
    <3>2. QED
      BY <2>1, <3>1 DEF Core
  <2>2. CASE UNCHANGED <<flash, acked, tried>>
    BY <2>2 DEF IInv, LoadFindsAckedOrTried, Selected, SelectedSecond, Valid
  <2>3. QED
    BY <2>1, <2>2
<1>2. QED
  BY <1>1 DEF IInv, Core

Commits == [step : {"none", "again", "erase", "write", "verify"}, record : Record]

LEMMA ResetTypes == ResetJournal \in Record /\ NoCommit \in Commits
<1>1. ResetJournal \in Record
  BY DEF ResetJournal, Record, Generation
<1>2. QED
  BY <1>1 DEF NoCommit, Commits

LEMMA InitInv == Init => IInv
<1> SUFFICES ASSUME Init PROVE IInv
  OBVIOUS
<1>1. TypeOK
  BY ResetTypes DEF Init, TypeOK, Commits
<1>2. \A i \in Sector : ~Valid(i)
  BY DEF Init, Valid
<1>3. Selected = ResetJournal
  BY <1>2 DEF Selected, SelectedSecond, Sector
<1>4. RecordsInTheirSlots /\ InForce /\ CommitIsNext
  BY <1>2 DEF Init, RecordsInTheirSlots, InForce, CommitIsNext, NoCommit
<1>5. LoadFindsAckedOrTried
  BY <1>3 DEF Init, LoadFindsAckedOrTried, ResetJournal
<1>6. QED
  BY <1>1, <1>4, <1>5 DEF IInv

LEMMA LoadInv == ASSUME IInv, Load PROVE Core'
<1>1. FlashOK /\ RecordsInTheirSlots /\ TypeOK
  BY DEF IInv, TypeOK, FlashOK
<1>2. Selected \in Record /\ TakesForce(Selected)
  BY <1>1, SelectedType, LoadTakesForce DEF SelectedTakesForce
<1>3. TypeOK'
  BY <1>1, <1>2 DEF Load, TypeOK, Record
<1>4. RecordsInTheirSlots'
  BY <1>1 DEF Load, RecordsInTheirSlots, Valid
<1>5. InForce'
  BY <1>2 DEF Load, InForce, LiveSlotHoldsLive, OtherSlotOldOrTried, TakesForce, Valid
<1>6. CommitIsNext'
  BY DEF Load, CommitIsNext
<1>7. QED
  BY <1>3, <1>4, <1>5, <1>6 DEF Core

LEMMA RestartInv == ASSUME IInv, Restart PROVE Core'
<1>1. TypeOK'
  BY ResetTypes DEF IInv, TypeOK, Restart, Commits
<1>2. RecordsInTheirSlots'
  BY DEF IInv, Restart, RecordsInTheirSlots, Valid
<1>3. InForce' /\ CommitIsNext'
  BY DEF Restart, InForce, CommitIsNext, NoCommit
<1>4. QED
  BY <1>1, <1>2, <1>3 DEF Core

\* A commit that starts, whether the caller's or inject's own.
LEMMA CommitStartInv ==
  ASSUME IInv, NEW v \in Configs, loaded, journal.generation < MaxGeneration,
         commit' = [step |-> "erase", record |-> Following(v)],
         tried' = tried \cup {v}, UNCHANGED <<flash, journal, loaded, acked>>
  PROVE  Core'
<1>1. Following(v) \in Record /\ Following(v).generation = journal.generation + 1
                              /\ Following(v).config = v
  BY DEF IInv, TypeOK, Following, Record, Generation
<1>2. TypeOK'
  BY <1>1 DEF IInv, TypeOK
<1>3. RecordsInTheirSlots'
  BY DEF IInv, RecordsInTheirSlots, Valid
<1>4. InForce'
  BY DEF IInv, InForce, LiveSlotHoldsLive, OtherSlotOldOrTried, Valid
<1>5. CommitIsNext'
  BY <1>1 DEF CommitIsNext
<1>6. QED
  BY <1>2, <1>3, <1>4, <1>5 DEF Core

LEMMA CommitBeginInv == ASSUME IInv, NEW v \in Configs, CommitBegin(v) PROVE Core'
BY CommitStartInv DEF CommitBegin

LEMMA CommitAgainInv == ASSUME IInv, CommitAgain PROVE Core'
<1>1. journal.config \in Configs /\ loaded /\ journal.generation < MaxGeneration
  BY DEF IInv, TypeOK, Record, CommitIsNext, CommitAgain
<1>2. QED
  BY <1>1, CommitStartInv DEF CommitAgain

\* The flash operations touch only the sector that is not in force.
LEMMA TargetIsOther ==
  ASSUME TypeOK
  PROVE  /\ journal.generation \in Nat
         /\ SlotOf(journal.generation) \in Sector
         /\ SlotOf(journal.generation + 1) = 1 - SlotOf(journal.generation)
         /\ SlotOf(journal.generation + 1) \in Sector
         /\ SlotOf(journal.generation) # SlotOf(journal.generation + 1)
<1>1. journal.generation \in Nat
  BY DEF TypeOK, Record, Generation
<1>2. QED
  BY <1>1, SlotOfType, SlotOfNext DEF Sector

\* The other sector may change to Invalid, stay, or take the record of a commit.
LEMMA OtherSectorWritten ==
  ASSUME IInv, loaded, UNCHANGED <<journal, loaded, acked, tried>>,
         NEW x \in Record \cup {Invalid},
         flash' = [flash EXCEPT ![SlotOf(journal.generation + 1)] = x],
         \/ x = Invalid
         \/ x = flash[SlotOf(journal.generation + 1)]
         \/ x.generation = journal.generation + 1 /\ x.config \in tried
  PROVE  FlashOK' /\ RecordsInTheirSlots' /\ InForce'
<1> DEFINE other == SlotOf(journal.generation + 1)
<1>1. /\ journal.generation \in Nat
      /\ SlotOf(journal.generation) \in Sector
      /\ other = 1 - SlotOf(journal.generation)
      /\ other \in Sector
      /\ SlotOf(journal.generation) # other
  BY TargetIsOther DEF IInv
<1>2. \A i \in Sector : flash'[i] = IF i = other THEN x ELSE flash[i]
  BY <1>1 DEF IInv, TypeOK
<1>3. FlashOK'
  BY <1>1 DEF IInv, TypeOK, FlashOK
<1>4. RecordsInTheirSlots'
  <2> SUFFICES ASSUME NEW i \in Sector, flash'[i] # Invalid
               PROVE  flash'[i].generation > 0 /\ SlotOf(flash'[i].generation) = i
    BY DEF RecordsInTheirSlots, Valid
  <2>1. CASE flash'[i] = flash[i]
    BY <2>1 DEF IInv, RecordsInTheirSlots, Valid
  <2>2. CASE i = other /\ x.generation = journal.generation + 1
    BY <1>1, <1>2, <2>2
  <2>3. QED
    BY <1>2, <2>1, <2>2
<1>5. LiveSlotHoldsLive'
  <2>1. flash'[SlotOf(journal.generation)] = flash[SlotOf(journal.generation)]
    BY <1>1, <1>2
  <2>2. journal.generation = 0 => SlotOf(journal.generation) = 0
    BY SlotOfZero
  <2>3. QED
    BY <2>1, <2>2 DEF IInv, InForce, LiveSlotHoldsLive
<1>6. OtherSlotOldOrTried'
  <2>1. \/ flash'[other] = Invalid \/ flash'[other] = flash[other]
        \/ flash'[other].generation = journal.generation + 1 /\ flash'[other].config \in tried
    BY <1>1, <1>2
  <2>2. QED
    BY <1>1, <2>1 DEF IInv, InForce, OtherSlotOldOrTried, Valid
<1>7. QED
  BY <1>3, <1>4, <1>5, <1>6 DEF IInv, InForce

LEMMA CommitEraseInv == ASSUME IInv, CommitErase PROVE Core'
<1>1. /\ loaded /\ commit.step = "erase"
      /\ Target = SlotOf(journal.generation + 1)
      /\ commit.record.generation = journal.generation + 1
      /\ commit.record.config \in tried
  BY DEF IInv, CommitIsNext, CommitErase, Target
<1>2. FlashOK' /\ RecordsInTheirSlots' /\ InForce'
  <2>1. PICK x \in {flash[Target], Invalid} : flash' = [flash EXCEPT ![Target] = x]
    BY DEF CommitErase
  <2>2. x \in Record \cup {Invalid}
    BY <1>1, TargetIsOther DEF IInv, TypeOK
  <2>3. QED
    BY <1>1, <2>1, <2>2, OtherSectorWritten DEF CommitErase
<1>3. \/ commit' = [commit EXCEPT !.step = "write"]
      \/ commit' = NoCommit
  BY DEF CommitErase
<1>4. TypeOK'
  BY <1>2, <1>3, ResetTypes DEF IInv, TypeOK, FlashOK, CommitErase, Commits
<1>5. CommitIsNext'
  BY <1>1, <1>3 DEF IInv, TypeOK, CommitErase, CommitIsNext, NoCommit
<1>6. QED
  BY <1>2, <1>4, <1>5 DEF Core

LEMMA CommitWriteInv == ASSUME IInv, CommitWrite PROVE Core'
<1>1. /\ loaded /\ commit.step = "write"
      /\ Target = SlotOf(journal.generation + 1)
      /\ commit.record.generation = journal.generation + 1
      /\ commit.record.config \in tried
  BY DEF IInv, CommitIsNext, CommitWrite, Target
<1>2. FlashOK' /\ RecordsInTheirSlots' /\ InForce'
  <2>1. PICK x \in {commit.record, Invalid} : flash' = [flash EXCEPT ![Target] = x]
    BY DEF CommitWrite
  <2>2. x \in Record \cup {Invalid}
    BY DEF IInv, TypeOK
  <2>3. QED
    BY <1>1, <2>1, <2>2, OtherSectorWritten DEF CommitWrite
<1>3. \/ commit' = [commit EXCEPT !.step = "verify"]
      \/ commit' = NoCommit
  BY DEF CommitWrite
<1>4. TypeOK'
  BY <1>2, <1>3, ResetTypes DEF IInv, TypeOK, FlashOK, CommitWrite, Commits
<1>5. CommitIsNext'
  BY <1>1, <1>3 DEF IInv, TypeOK, CommitWrite, CommitIsNext, NoCommit
<1>6. QED
  BY <1>2, <1>4, <1>5 DEF Core

LEMMA CommitVerifyInv == ASSUME IInv, CommitVerify PROVE Core'
<1>1. /\ loaded /\ commit.record \in Record
      /\ Target = SlotOf(journal.generation + 1)
      /\ commit.record.generation = journal.generation + 1
  BY DEF IInv, TypeOK, CommitIsNext, CommitVerify, Target
<1>2. /\ journal.generation \in Nat
      /\ SlotOf(journal.generation) \in Sector
      /\ Target = 1 - SlotOf(journal.generation)
  BY <1>1, TargetIsOther DEF IInv
<1>3. TypeOK'
  BY <1>1, ResetTypes DEF IInv, TypeOK, CommitVerify, Commits, Record
<1>4. RecordsInTheirSlots'
  BY DEF IInv, CommitVerify, RecordsInTheirSlots, Valid
<1>5. InForce'
  <2>1. CASE UNCHANGED <<journal, acked, tried>>
    BY <2>1 DEF IInv, CommitVerify, InForce, LiveSlotHoldsLive, OtherSlotOldOrTried, Valid
  <2>2. CASE /\ flash[Target] = commit.record
             /\ journal' = commit.record
             /\ acked' = commit.record.config
    <3>1. LiveSlotHoldsLive'
      BY <1>1, <1>2, <2>2 DEF CommitVerify, LiveSlotHoldsLive, Target
    <3>2. 1 - SlotOf(journal'.generation) = SlotOf(journal.generation)
      BY <1>1, <1>2, <2>2 DEF Target, Sector
    <3>3. flash[SlotOf(journal.generation)] # Invalid =>
            flash[SlotOf(journal.generation)].generation <= journal.generation
      BY <1>1, <1>2, SlotOfZero DEF IInv, InForce, LiveSlotHoldsLive
    <3>4. flash[SlotOf(journal.generation)] # Invalid =>
            flash[SlotOf(journal.generation)].generation \in Nat
      BY <1>2 DEF IInv, TypeOK, Record, Generation
    <3>5. OtherSlotOldOrTried'
      BY <1>1, <1>2, <2>2, <3>2, <3>3, <3>4
      DEF CommitVerify, OtherSlotOldOrTried, Valid
    <3>6. QED
      BY <2>2, <3>1, <3>5 DEF InForce
  <2>3. QED
    BY <2>1, <2>2 DEF CommitVerify
<1>6. CommitIsNext'
  BY DEF CommitVerify, CommitIsNext, NoCommit
<1>7. QED
  BY <1>3, <1>4, <1>5, <1>6 DEF Core

\* Corrupting the other sector, whether or not the load after it is reached.
LEMMA SectorCorrupted ==
  ASSUME TypeOK, RecordsInTheirSlots, NEW slot \in Sector,
         flash' = [flash EXCEPT ![slot] = Invalid]
  PROVE  FlashOK' /\ RecordsInTheirSlots'
BY DEF TypeOK, FlashOK, RecordsInTheirSlots, Valid

LEMMA InjectCorruptInv == ASSUME IInv, InjectCorrupt PROVE Core'
<1> DEFINE slot == SlotOf(journal.generation + 1)
<1>1. /\ TypeOK /\ RecordsInTheirSlots
      /\ loaded /\ loaded' /\ commit.step = "none"
      /\ journal.generation < MaxGeneration
      /\ slot \in Sector
  BY TargetIsOther DEF IInv, InjectCorrupt
<1>2. CASE /\ flash' = [flash EXCEPT ![slot] = Invalid]
           /\ journal' = Selected'
           /\ acked' = Selected'.config
           /\ tried' = {}
           /\ commit' = [NoCommit EXCEPT !.step = IF Selected' = journal THEN "again" ELSE "none"]
  <2>1. FlashOK' /\ RecordsInTheirSlots'
    BY <1>1, <1>2, SectorCorrupted
  <2>2. Selected' \in Record
    <3>1. (FlashOK => Selected \in Record)'
      BY SelectedType, PTL
    <3>2. QED
      BY <2>1, <3>1
  <2>3. SelectedTakesForce'
    <3>1. (FlashOK /\ RecordsInTheirSlots => SelectedTakesForce)'
      BY LoadTakesForce, PTL
    <3>2. QED
      BY <2>1, <3>1
  <2>4. /\ commit' \in Commits
        /\ commit'.step \in {"none", "again"}
        /\ commit'.step = "again" => journal' = journal
    BY <1>2, ResetTypes DEF NoCommit, Commits
  <2>5. TypeOK'
    BY <1>1, <1>2, <2>1, <2>2, <2>4 DEF TypeOK, FlashOK, Commits, Record
  <2>6. InForce'
    BY <1>2, <2>3
    DEF InForce, LiveSlotHoldsLive, OtherSlotOldOrTried, SelectedTakesForce, TakesForce, Valid
  <2>7. CommitIsNext'
    BY <1>1, <2>4 DEF CommitIsNext
  <2>8. QED
    BY <2>1, <2>5, <2>6, <2>7 DEF Core
<1>3. CASE /\ \E kept \in {flash[slot], Invalid} : flash' = [flash EXCEPT ![slot] = kept]
           /\ UNCHANGED <<journal, acked, tried, commit>>
  <2>1. PICK x \in {flash[slot], Invalid} : flash' = [flash EXCEPT ![slot] = x]
    BY <1>3
  <2>2. x \in Record \cup {Invalid}
    BY <1>1 DEF TypeOK
  <2>3. FlashOK' /\ RecordsInTheirSlots' /\ InForce'
    BY <1>1, <1>3, <2>1, <2>2, OtherSectorWritten
  <2>4. TypeOK' /\ CommitIsNext'
    BY <1>1, <1>3, <2>3 DEF TypeOK, FlashOK, CommitIsNext
  <2>5. QED
    BY <2>3, <2>4 DEF Core
<1>4. QED
  BY <1>2, <1>3 DEF InjectCorrupt

LEMMA NextInv == ASSUME IInv, [Next]_vars PROVE IInv'
<1>1. CASE Load
  BY <1>1, LoadInv, CoreSuffices DEF Load
<1>2. CASE Restart
  BY <1>2, RestartInv, CoreSuffices DEF Restart
<1>3. CASE \E v \in Configs : CommitBegin(v)
  BY <1>3, CommitBeginInv, CoreSuffices DEF CommitBegin
<1>4. CASE CommitErase
  BY <1>4, CommitEraseInv, CoreSuffices DEF CommitErase, IInv, CommitIsNext
<1>5. CASE CommitWrite
  BY <1>5, CommitWriteInv, CoreSuffices DEF CommitWrite, IInv, CommitIsNext
<1>6. CASE CommitVerify
  BY <1>6, CommitVerifyInv, CoreSuffices DEF CommitVerify, IInv, CommitIsNext
<1>7. CASE InjectCorrupt
  BY <1>7, InjectCorruptInv, CoreSuffices DEF InjectCorrupt
<1>8. CASE CommitAgain
  BY <1>8, CommitAgainInv, CoreSuffices DEF CommitAgain, IInv, CommitIsNext
<1>9. CASE UNCHANGED vars
  BY <1>9 DEF vars, IInv, TypeOK, RecordsInTheirSlots, InForce, LiveSlotHoldsLive,
              OtherSlotOldOrTried, CommitIsNext, LoadFindsAckedOrTried, Selected,
              SelectedSecond, Valid
<1>10. QED
  BY <1>1, <1>2, <1>3, <1>4, <1>5, <1>6, <1>7, <1>8, <1>9 DEF Next

\* Corrupting the other sector leaves a load to find the configuration in force.
LEMMA CorruptFindsAckedOrTried ==
  ASSUME IInv, InjectCorrupt PROVE Selected'.config \in {acked} \cup tried
<1> DEFINE this  == SlotOf(journal.generation)
           other == SlotOf(journal.generation + 1)
<1>1. /\ journal.generation \in Nat /\ this \in Sector /\ other = 1 - this
      /\ other \in Sector /\ this # other /\ flash \in [Sector -> Record \cup {Invalid}]
      /\ journal # Invalid
  BY TargetIsOther DEF IInv, TypeOK
<1>2. PICK x \in {flash[other], Invalid} : flash' = [flash EXCEPT ![other] = x]
  BY DEF InjectCorrupt
<1>3. CASE x = flash[other]
  <2>1. flash' = flash
    BY <1>1, <1>2, <1>3
  <2>2. Selected' = Selected
    BY <2>1 DEF Selected, SelectedSecond, Valid
  <2>3. QED
    BY <2>2 DEF IInv, LoadFindsAckedOrTried
<1>4. CASE x = Invalid
  <2>1. flash'[other] = Invalid /\ flash'[this] = flash[this]
    BY <1>1, <1>2, <1>4
  <2>2. /\ journal.config = acked
        /\ IF journal.generation = 0
           THEN flash[0] = Invalid /\ journal.config = Default /\ this = 0
           ELSE flash[this] = journal
    BY SlotOfZero DEF IInv, InForce, LiveSlotHoldsLive, InjectCorrupt
  <2>3. Selected'.config = journal.config
    <3>1. CASE this = 0
      BY <1>1, <2>1, <2>2, <3>1 DEF Selected, SelectedSecond, Valid, ResetJournal
    <3>2. CASE this = 1
      BY <1>1, <2>1, <2>2, <3>2 DEF Selected, SelectedSecond, Valid
    <3>3. QED
      BY <1>1, <3>1, <3>2 DEF Sector
  <2>4. QED
    BY <2>2, <2>3
<1>5. QED
  BY <1>2, <1>3, <1>4

-----------------------------------------------------------------------------
(* The theorems.                                                           *)

\* The invariant holds in every state the journal and its flash can reach.
THEOREM InductiveInvariant == Spec => []IInv
BY InitInv, NextInv, PTL DEF Spec

\* config.c and config_flash.c keep every variable in its range.
THEOREM TypeCorrect == Spec => []TypeOK
<1>1. IInv => TypeOK
  BY DEF IInv
<1>2. QED
  BY <1>1, InductiveInvariant, PTL

\* The sector of the configuration in force holds it at every moment: a commit
\* writes only the other one, whatever the flash does and whenever power fails.
THEOREM LiveStaysInFlash == Spec => []LiveIsInFlash
<1>1. IInv => LiveIsInFlash
  BY DEF IInv, TypeOK, InForce, LiveSlotHoldsLive, LiveIsInFlash, Record, Generation
<1>2. QED
  BY <1>1, InductiveInvariant, PTL

\* Whenever power fails, the next load finds the configuration acknowledged last
\* or one whose commit was begun since.
THEOREM NothingAckedIsLost == Spec => []LoadFindsAckedOrTried
<1>1. IInv => LoadFindsAckedOrTried
  BY DEF IInv
<1>2. QED
  BY <1>1, InductiveInvariant, PTL

\* A failed commit leaves at most a record of the generation that the next commit
\* writes again.
THEOREM NoRecordOutlivesTheNext == Spec => []LoadFindsThisOrNext
<1>1. IInv => LoadFindsThisOrNext
  BY SelectedInForce DEF IInv, LoadFindsThisOrNext
<1>2. QED
  BY <1>1, InductiveInvariant, PTL

\* The journal implements the specification of a durable configuration.
THEOREM Refinement == Spec => ImplementsDurable
<1>1. Init => Durable!Init
  BY DEF Init, Durable!Init, ResetJournal
<1>2. IInv /\ [Next]_vars => [Durable!Next]_(Durable!vars)
  <2> SUFFICES ASSUME IInv, [Next]_vars PROVE [Durable!Next]_(Durable!vars)
    OBVIOUS
  <2> USE DEF Durable!Next, Durable!vars
  <2>1. CASE Load
    <3>1. Selected \in Record /\ Selected.config \in {acked} \cup tried
      BY SelectedType DEF IInv, TypeOK, FlashOK, LoadFindsAckedOrTried
    <3>2. QED
      BY <2>1, <3>1 DEF Load, Durable!Load
  <2>2. CASE Restart
    BY <2>2 DEF Restart, ResetJournal, Durable!Crash
  <2>3. CASE \E v \in Configs : CommitBegin(v)
    BY <2>3 DEF CommitBegin, Durable!Try
  <2>4. CASE CommitErase \/ CommitWrite
    BY <2>4 DEF CommitErase, CommitWrite
  <2>5. CASE CommitVerify
    <3>1. commit.record.config \in tried /\ commit.record.config \in Configs
      BY <2>5 DEF IInv, TypeOK, CommitIsNext, CommitVerify, Record
    <3>2. QED
      BY <2>5, <3>1 DEF CommitVerify, Durable!Commit
  <2>6. CASE InjectCorrupt
    <3>1. CASE journal' = Selected' /\ acked' = Selected'.config /\ tried' = {}
      <4>1. Selected'.config \in {acked} \cup tried
        BY <2>6, CorruptFindsAckedOrTried
      <4>2. QED
        BY <3>1, <4>1 DEF Durable!Load
    <3>2. QED
      BY <2>6, <3>1 DEF InjectCorrupt
  <2>7. CASE CommitAgain
    <3>1. journal.config \in Configs
      BY DEF IInv, TypeOK, Record
    <3>2. QED
      BY <2>7, <3>1 DEF CommitAgain, Durable!Try
  <2>8. CASE UNCHANGED vars
    BY <2>8 DEF vars
  <2>9. QED
    BY <2>1, <2>2, <2>3, <2>4, <2>5, <2>6, <2>7, <2>8 DEF Next
<1>3. QED
  BY <1>1, <1>2, InductiveInvariant, PTL DEF Spec, ImplementsDurable, Durable!Spec

=============================================================================
