--------------------------- MODULE RecoveryProofs ---------------------------
(***************************************************************************)
(* Theorems about Recovery, for every number of services and slots, every  *)
(* budget, every epoch width and every set of capabilities.                *)
(***************************************************************************)
EXTENDS Recovery, WorldProofs

USE ServiceCountAssumption, SlotCountAssumption, BudgetMaxAssumption, EpochSpanAssumption

-----------------------------------------------------------------------------
(* The inductive invariant.                                                *)

\* clear is entered only for a slot the loop has reached.
CursorInRange == txn.phase = "clear" => txn.cursor < SlotCount

\* What admit's first step leaves on the service, until its last step, and only
\* until then.
Fenced ==
  \A s \in Service :
    /\ services[s].recovering =>
         services[s].bound /\ services[s].health = "RECOVERING" /\ services[s].cap_lease = {}
    /\ services[s].health = "RECOVERING" => services[s].recovering

\* A slot in use belongs to a service that is bound and has not failed, and is
\* of that service's epoch unless the service was rebound or the reclaim loop
\* has yet to come to the slot.
SlotHeld(i) ==
  LET owner == services[slots[i].owner]
  IN  /\ owner.bound
      /\ owner.health # "FAILED"
      /\ \/ slots[i].epoch = owner.epoch
         \/ owner.epoch = 1
         \/ Reclaiming(slots[i].owner)

\* A slot the loop has passed is not owned by the service it recovers.
PassedSlotsReclaimed ==
  \A i \in Slot : Reclaiming(slots[i].owner) /\ slots[i].in_use => i >= txn.cursor

PoolHeld == \A i \in Slot : slots[i].in_use => SlotHeld(i)

IInv ==
  /\ TypeOK
  /\ CursorInRange
  /\ RecoveringIffInTxn
  /\ Fenced
  /\ PoolHeld
  /\ PassedSlotsReclaimed
  /\ FailedOnlyWhenSpent
  /\ EvidenceCurrent

LEMMA InitInv == Init => IInv
<1> SUFFICES ASSUME Init PROVE IInv
  OBVIOUS
<1>1. TypeOK
  <2>1. WorldType
    BY WorldInitType DEF Init
  <2>2. txn \in TxnRecord
    BY DEF Init, IdleTxn, TxnRecord, Service, AdmitReasons, Outcomes
  <2>3. QED
    BY <2>1, <2>2 DEF TypeOK
<1>2. \A s \in Service : services[s] = UnboundService /\ evidence[s] = NoEvidence
  BY DEF Init, WorldInit
<1>3. \A i \in Slot : ~slots[i].in_use
  BY DEF Init, WorldInit, FreeSlotRecord
<1>4. txn.phase = "idle"
  BY DEF Init, IdleTxn
<1>5. CursorInRange /\ RecoveringIffInTxn /\ Fenced
  BY <1>2, <1>4 DEF CursorInRange, RecoveringIffInTxn, Fenced, Reclaiming, UnboundService
<1>6. PoolHeld /\ PassedSlotsReclaimed
  BY <1>3 DEF PoolHeld, PassedSlotsReclaimed
<1>7. FailedOnlyWhenSpent
  BY <1>2 DEF FailedOnlyWhenSpent, UnboundService
<1>8. EvidenceCurrent
  BY <1>2 DEF EvidenceCurrent, UnboundService
<1>9. QED
  BY <1>1, <1>5, <1>6, <1>7, <1>8 DEF IInv

\* The steps of the transaction.

LEMMA AdmitBeginInv ==
  ASSUME IInv, NEW s \in Service, NEW reason \in AdmitReasons, AdmitBegin(s, reason)
  PROVE  IInv'
<1> USE DEF IInv, TypeOK
<1> DEFINE begun == AdmitBegun(services[s])
<1>1. begun \in ServiceRecord
  BY BegunType DEF WorldType
<1>2. /\ services' = [services EXCEPT ![s] = begun]
      /\ slots' = slots /\ evidence' = evidence
      /\ txn.phase = "idle"
      /\ txn' = [IdleTxn EXCEPT !.phase = "test", !.service = s, !.reason = reason]
  BY DEF AdmitBegin
<1>3. /\ services'[s] = begun
      /\ \A t \in Service : t # s => services'[t] = services[t]
  BY <1>2 DEF WorldType
<1>4. begun.recovering /\ begun.health = "RECOVERING" /\ begun.cap_lease = {}
      /\ begun.bound = services[s].bound
      /\ begun.restart_used = services[s].restart_used
      /\ begun.restart_budget = services[s].restart_budget
  BY DEF AdmitBegun, WorldType, ServiceRecord
<1>5. txn'.phase = "test" /\ txn'.service = s /\ txn'.cursor = 0
  BY <1>2 DEF IdleTxn
<1>6. TypeOK'
  <2>1. WorldType'
    BY <1>1, <1>2 DEF WorldType
  <2>2. txn' \in TxnRecord
    <3>1. 0 \in 0 .. SlotCount
      OBVIOUS
    <3>2. QED
      BY <1>2, <3>1 DEF IdleTxn, TxnRecord, Outcomes
  <2>3. QED
    BY <2>1, <2>2
<1>7. CursorInRange'
  BY <1>5 DEF CursorInRange
<1>8. RecoveringIffInTxn'
  BY <1>2, <1>3, <1>4, <1>5 DEF RecoveringIffInTxn, Reclaiming
<1>9. Fenced'
  <2>1. services[s].bound
    BY DEF AdmitBegin
  <2>2. QED
    BY <1>3, <1>4, <2>1 DEF Fenced
<1>10. PoolHeld'
  <2>1. ASSUME NEW i \in Slot, slots[i].in_use PROVE SlotHeld(i)'
    <3>1. SlotHeld(i) /\ slots[i].owner \in Service
      BY <2>1 DEF PoolHeld, WorldType, SlotRecord
    <3>2. CASE slots[i].owner = s
      BY <1>2, <1>3, <1>4, <1>5, <3>1, <3>2 DEF SlotHeld, Reclaiming
    <3>3. CASE slots[i].owner # s
      BY <1>2, <1>3, <3>1, <3>3 DEF SlotHeld, Reclaiming
    <3>4. QED
      BY <3>2, <3>3
  <2>2. QED
    BY <1>2, <2>1 DEF PoolHeld
<1>11. PassedSlotsReclaimed'
  BY <1>5 DEF PassedSlotsReclaimed, Slot
<1>12. FailedOnlyWhenSpent'
  BY <1>3, <1>4 DEF FailedOnlyWhenSpent
<1>13. EvidenceCurrent'
  BY <1>2, <1>3, <1>4, <1>5 DEF EvidenceCurrent, EvidencePending
<1>14. QED
  BY <1>6, <1>7, <1>8, <1>9, <1>10, <1>11, <1>12, <1>13

LEMMA AdmitTestInv == ASSUME IInv, AdmitTest PROVE IInv'
<1> USE DEF IInv, TypeOK
<1>1. /\ services' = services /\ slots' = slots /\ evidence' = evidence
      /\ txn.phase = "test" /\ txn.cursor < SlotCount
  BY DEF AdmitTest, worldVars
<1>2. /\ txn.cursor \in Nat
      /\ txn'.service = txn.service /\ txn'.phase \in {"test", "clear"}
      /\ \/ txn'.cursor = txn.cursor
         \/ txn'.cursor = txn.cursor + 1 /\ ~Owns(txn.service, txn.cursor)
  BY <1>1 DEF AdmitTest, TxnRecord
<1>3. TypeOK'
  <2>1. txn' \in TxnRecord
    BY <1>1, <1>2 DEF AdmitTest, TxnRecord
  <2>2. QED
    BY <1>1, <2>1 DEF WorldType
<1>4. CursorInRange'
  BY <1>1 DEF AdmitTest, CursorInRange, TxnRecord
<1>5. RecoveringIffInTxn' /\ PoolHeld'
  BY <1>1, <1>2 DEF RecoveringIffInTxn, PoolHeld, SlotHeld, Reclaiming
<1>6. PassedSlotsReclaimed'
  BY <1>1, <1>2 DEF PassedSlotsReclaimed, Reclaiming, Owns, Slot
<1>7. Fenced' /\ FailedOnlyWhenSpent'
  BY <1>1 DEF Fenced, FailedOnlyWhenSpent
<1>8. EvidenceCurrent'
  BY <1>1, <1>2 DEF EvidenceCurrent, EvidencePending
<1>9. QED
  BY <1>3, <1>4, <1>5, <1>6, <1>7, <1>8

LEMMA AdmitClearInv == ASSUME IInv, AdmitClear PROVE IInv'
<1> USE DEF IInv, TypeOK
<1>1. /\ services' = services /\ evidence' = evidence
      /\ slots' = [slots EXCEPT ![txn.cursor] = FreeSlotRecord]
      /\ txn.phase = "clear" /\ txn.cursor \in Slot
      /\ txn' = [txn EXCEPT !.phase = "test", !.cursor = @ + 1]
  BY DEF AdmitClear, CursorInRange, TxnRecord, Slot
<1>2. txn'.service = txn.service /\ txn'.phase = "test" /\ txn'.cursor = txn.cursor + 1
  BY <1>1 DEF TxnRecord
<1>3. \A i \in Slot : IF i = txn.cursor THEN ~slots'[i].in_use ELSE slots'[i] = slots[i]
  BY <1>1 DEF WorldType, FreeSlotRecord
<1>4. TypeOK'
  <2>1. WorldType'
    BY <1>1 DEF WorldType, FreeSlotRecord, SlotRecord, Service, Epoch
  <2>2. txn' \in TxnRecord
    <3>1. txn.cursor + 1 \in 0 .. SlotCount
      BY <1>1 DEF Slot
    <3>2. QED
      BY <1>1, <3>1 DEF TxnRecord
  <2>3. QED
    BY <2>1, <2>2
<1>5. CursorInRange' /\ RecoveringIffInTxn'
  BY <1>1, <1>2 DEF CursorInRange, RecoveringIffInTxn, Reclaiming
<1>6. PoolHeld'
  BY <1>1, <1>2, <1>3 DEF PoolHeld, SlotHeld, Reclaiming
<1>7. PassedSlotsReclaimed'
  BY <1>1, <1>2, <1>3 DEF PassedSlotsReclaimed, Reclaiming, Slot
<1>8. Fenced' /\ FailedOnlyWhenSpent'
  BY <1>1 DEF Fenced, FailedOnlyWhenSpent
<1>9. EvidenceCurrent'
  BY <1>1, <1>2 DEF EvidenceCurrent, EvidencePending
<1>10. QED
  BY <1>4, <1>5, <1>6, <1>7, <1>8, <1>9

\* When the loop is done the recovered service owns nothing.
LEMMA ReclaimedOwnsNothing ==
  ASSUME IInv, txn.phase = "test", txn.cursor = SlotCount
  PROVE  \A i \in Slot : ~Owns(txn.service, i)
BY DEF IInv, PassedSlotsReclaimed, Reclaiming, Owns, Slot

LEMMA AdmitEndInv == ASSUME IInv, AdmitEnd PROVE IInv'
<1> USE DEF IInv, TypeOK
<1> DEFINE s       == txn.service
           outcome == AdmitOutcome(services[s], txn.reason)
           ended   == AdmitEnded(services[s], outcome)
<1>1. s \in Service /\ services[s] \in ServiceRecord
  BY DEF TxnRecord, WorldType
<1>2. /\ services' = [services EXCEPT ![s] = ended]
      /\ slots' = slots /\ evidence' = evidence
      /\ txn.phase = "test" /\ txn.cursor = SlotCount
      /\ txn' = [txn EXCEPT !.phase = "ended", !.outcome = outcome]
  BY DEF AdmitEnd
<1>3. outcome \in {"FAILED", "BACKOFF", "RESTART"} /\ ended \in ServiceRecord
  BY <1>1, OutcomeType, EndedType
<1>4. /\ services'[s] = ended
      /\ \A t \in Service : t # s => services'[t] = services[t]
  BY <1>1, <1>2 DEF WorldType
<1>5. ~ended.recovering /\ ended.health # "RECOVERING"
  BY <1>1, <1>3 DEF AdmitEnded, HealthAfter, ServiceRecord
<1>6. txn'.phase = "ended" /\ txn'.service = s
  BY <1>2 DEF TxnRecord
<1>7. TypeOK'
  <2>1. WorldType'
    BY <1>2, <1>3 DEF WorldType
  <2>2. txn' \in TxnRecord
    BY <1>2, <1>3 DEF TxnRecord, Outcomes
  <2>3. QED
    BY <2>1, <2>2
<1>8. CursorInRange' /\ PassedSlotsReclaimed'
  BY <1>6 DEF CursorInRange, PassedSlotsReclaimed, Reclaiming
<1>9. RecoveringIffInTxn' /\ Fenced'
  BY <1>2, <1>4, <1>5, <1>6 DEF RecoveringIffInTxn, Fenced, Reclaiming
<1>10. PoolHeld'
  <2>1. ASSUME NEW i \in Slot, slots[i].in_use PROVE SlotHeld(i)'
    <3>1. SlotHeld(i) /\ slots[i].owner \in Service
      BY <2>1 DEF PoolHeld, WorldType, SlotRecord
    <3>2. slots[i].owner # s
      BY <1>2, <2>1, ReclaimedOwnsNothing DEF Owns
    <3>3. QED
      BY <1>2, <1>4, <3>1, <3>2 DEF SlotHeld, Reclaiming
  <2>2. QED
    BY <1>2, <2>1 DEF PoolHeld
<1>11. FailedOnlyWhenSpent'
  <2>1. ended.restart_budget = services[s].restart_budget
    BY <1>1 DEF AdmitEnded, ServiceRecord
  <2>2. services[s].restart_used <= services[s].restart_budget
    BY <1>1 DEF FailedOnlyWhenSpent
  <2>3. CASE outcome = "FAILED"
    <3>1. services[s].restart_used >= services[s].restart_budget
      BY <2>3 DEF AdmitOutcome
    <3>2. ended.restart_used = services[s].restart_used
      BY <1>1, <2>3 DEF AdmitEnded, ServiceRecord
    <3>3. services[s].restart_used \in Nat /\ services[s].restart_budget \in Nat
      BY <1>1 DEF ServiceRecord
    <3>4. QED
      BY <1>4, <2>1, <2>2, <3>1, <3>2, <3>3 DEF FailedOnlyWhenSpent
  <2>4. CASE outcome # "FAILED"
    <3>1. ended.health # "FAILED"
      BY <1>1, <1>3, <2>4 DEF AdmitEnded, HealthAfter, ServiceRecord
    <3>2. services[s].restart_used < services[s].restart_budget
      BY <1>1, <2>4 DEF AdmitOutcome, ServiceRecord
    <3>3. ended.restart_used = services[s].restart_used + 1
      BY <1>1, <2>4 DEF AdmitEnded, ServiceRecord
    <3>4. services[s].restart_used \in Nat /\ services[s].restart_budget \in Nat
      BY <1>1 DEF ServiceRecord
    <3>5. QED
      BY <1>4, <2>1, <3>1, <3>2, <3>3, <3>4 DEF FailedOnlyWhenSpent
  <2>5. QED
    BY <2>3, <2>4
<1>12. EvidenceCurrent'
  BY <1>2, <1>4, <1>6 DEF EvidenceCurrent, EvidencePending
<1>13. QED
  BY <1>7, <1>8, <1>9, <1>10, <1>11, <1>12

LEMMA AdmitEvidenceInv == ASSUME IInv, AdmitEvidence PROVE IInv'
<1> USE DEF IInv, TypeOK
<1> DEFINE s      == txn.service
           record == EvidenceOf(services[s], txn.outcome, EvidenceReason(txn.outcome, txn.reason))
<1>1. s \in Service /\ services[s] \in ServiceRecord
  BY DEF TxnRecord, WorldType
<1>2. /\ services' = services /\ slots' = slots
      /\ evidence' = [evidence EXCEPT ![s] = record]
      /\ txn.phase = "ended" /\ txn' = IdleTxn
  BY DEF AdmitEvidence
<1>3. EvidenceReason(txn.outcome, txn.reason) \in Reasons \ {"NESTED"}
  BY DEF EvidenceReason, TxnRecord, Reasons, AdmitReasons
<1>4. TypeOK'
  <2>1. record \in EvidenceRecord
    BY <1>1, <1>3, EvidenceType DEF TxnRecord
  <2>2. txn' \in TxnRecord
    <3>1. 0 \in 0 .. SlotCount /\ 0 \in Service
      BY DEF Service
    <3>2. QED
      BY <1>2, <3>1 DEF IdleTxn, TxnRecord, AdmitReasons, Outcomes
  <2>3. QED
    BY <1>1, <1>2, <2>1, <2>2 DEF WorldType
<1>5. txn'.phase = "idle"
  BY <1>2 DEF IdleTxn
<1>6. CursorInRange' /\ RecoveringIffInTxn' /\ Fenced' /\ PassedSlotsReclaimed'
  BY <1>2, <1>5 DEF CursorInRange, RecoveringIffInTxn, Fenced, PassedSlotsReclaimed, Reclaiming
<1>7. PoolHeld' /\ FailedOnlyWhenSpent'
  BY <1>2, <1>5 DEF PoolHeld, SlotHeld, FailedOnlyWhenSpent, Reclaiming
<1>8. EvidenceCurrent'
  <2>1. /\ record.epoch = services[s].epoch /\ record.generation = services[s].state_generation
        /\ record.health_after = services[s].health /\ record.reason # "NESTED"
    BY <1>3 DEF EvidenceOf
  <2>2. evidence'[s] = record /\ \A t \in Service : t # s => evidence'[t] = evidence[t]
    BY <1>1, <1>2 DEF WorldType
  <2>3. QED
    BY <1>2, <1>5, <2>1, <2>2 DEF EvidenceCurrent, EvidencePending
<1>9. QED
  BY <1>4, <1>6, <1>7, <1>8

\* The calls: txn does not change, and only ~recovering services enter a call
\* that changes their record (cap_revoke excepted).

LEMMA BindInv ==
  ASSUME IInv, NEW s \in Service, NEW budget \in 1 .. BudgetMax, NEW lease \in SUBSET Caps,
         Bind(s, budget, lease), txn' = txn
  PROVE  IInv'
<1> USE DEF IInv, TypeOK
<1>1. /\ ~services[s].recovering /\ slots' = slots
      /\ services'[s] =
           [bound |-> TRUE, recovering |-> FALSE, health |-> "OK",
            restart_budget |-> budget, restart_used |-> 0, cap_lease |-> lease,
            epoch |-> 1, state_generation |-> 1]
      /\ \A t \in Service : t # s => services'[t] = services[t]
  BY DEF Bind, WorldType
<1>2. evidence'[s] = NoEvidence /\ \A t \in Service : t # s => evidence'[t] = evidence[t]
  BY DEF Bind, WorldType
<1>3. TypeOK'
  BY BindType
<1>4. CursorInRange' /\ RecoveringIffInTxn' /\ Fenced'
  BY <1>1 DEF CursorInRange, RecoveringIffInTxn, Fenced, Reclaiming
<1>5. PoolHeld' /\ PassedSlotsReclaimed'
  BY <1>1 DEF PoolHeld, PassedSlotsReclaimed, SlotHeld, Reclaiming, WorldType, SlotRecord
<1>6. FailedOnlyWhenSpent'
  BY <1>1 DEF FailedOnlyWhenSpent
<1>7. EvidenceCurrent'
  BY <1>1, <1>2 DEF EvidenceCurrent, EvidencePending
<1>8. QED
  BY <1>3, <1>4, <1>5, <1>6, <1>7

LEMMA AdmitInv ==
  ASSUME IInv, NEW s \in Service, NEW reason \in AdmitReasons, Admit(s, reason), txn' = txn
  PROVE  IInv'
<1> USE DEF IInv, TypeOK
<1> DEFINE begun   == AdmitBegun(services[s])
           outcome == AdmitOutcome(begun, reason)
           ended   == AdmitEnded(begun, outcome)
           record  == EvidenceOf(ended, outcome, EvidenceReason(outcome, reason))
<1>1. begun \in ServiceRecord /\ outcome \in {"FAILED", "BACKOFF", "RESTART"}
  BY BegunType, OutcomeType DEF WorldType
<1>2. ended \in ServiceRecord
  BY <1>1, EndedType
<1>3. /\ ~services[s].recovering /\ services[s].bound
      /\ slots' = SlotsReclaimed(s)
      /\ services'[s] = ended
      /\ \A t \in Service : t # s => services'[t] = services[t]
      /\ evidence'[s] = record
      /\ \A t \in Service : t # s => evidence'[t] = evidence[t]
  BY DEF Admit, WorldType
<1>4. ~ended.recovering /\ ended.health # "RECOVERING"
  BY <1>1 DEF AdmitEnded, HealthAfter, ServiceRecord
<1>5. \A i \in Slot : slots'[i].in_use =>
        slots'[i] = slots[i] /\ slots[i].owner # s
  BY <1>3 DEF SlotsReclaimed, FreeSlotRecord, Owns
<1>6. TypeOK'
  BY AdmitType
<1>7. CursorInRange' /\ RecoveringIffInTxn' /\ Fenced'
  BY <1>3, <1>4 DEF CursorInRange, RecoveringIffInTxn, Fenced, Reclaiming
<1>8. PoolHeld' /\ PassedSlotsReclaimed'
  <2>1. ASSUME NEW i \in Slot, slots'[i].in_use PROVE SlotHeld(i)'
    <3>1. slots[i].in_use /\ SlotHeld(i) /\ slots[i].owner \in Service
      BY <1>5, <2>1 DEF PoolHeld, WorldType, SlotRecord
    <3>2. QED
      BY <1>3, <1>5, <2>1, <3>1 DEF SlotHeld, Reclaiming
  <2>2. PassedSlotsReclaimed'
    BY <1>5 DEF PassedSlotsReclaimed, Reclaiming
  <2>3. QED
    BY <2>1, <2>2 DEF PoolHeld
<1>9. FailedOnlyWhenSpent'
  <2>1. /\ begun.restart_budget = services[s].restart_budget
        /\ begun.restart_used = services[s].restart_used
        /\ begun.restart_used \in Nat /\ begun.restart_budget \in Nat
        /\ ended.restart_budget = begun.restart_budget
    BY <1>1 DEF AdmitBegun, AdmitEnded, ServiceRecord, WorldType
  <2>2. begun.restart_used <= begun.restart_budget
    BY <2>1 DEF FailedOnlyWhenSpent
  <2>3. CASE outcome = "FAILED"
    <3>1. begun.restart_used >= begun.restart_budget
      BY <2>3 DEF AdmitOutcome
    <3>2. ended.restart_used = begun.restart_used
      BY <1>1, <2>3 DEF AdmitEnded, ServiceRecord
    <3>3. QED
      BY <1>3, <2>1, <2>2, <3>1, <3>2 DEF FailedOnlyWhenSpent
  <2>4. CASE outcome # "FAILED"
    <3>1. ended.health # "FAILED"
      BY <1>1, <2>4 DEF AdmitEnded, HealthAfter, ServiceRecord
    <3>2. begun.restart_used < begun.restart_budget
      BY <2>1, <2>4 DEF AdmitOutcome
    <3>3. ended.restart_used = begun.restart_used + 1
      BY <1>1, <2>4 DEF AdmitEnded, ServiceRecord
    <3>4. QED
      BY <1>3, <2>1, <3>1, <3>2, <3>3 DEF FailedOnlyWhenSpent
  <2>5. QED
    BY <2>3, <2>4
<1>10. EvidenceCurrent'
  <2>1. EvidenceReason(outcome, reason) # "NESTED"
    BY DEF EvidenceReason, AdmitReasons
  <2>2. QED
    BY <1>3, <2>1 DEF EvidenceCurrent, EvidencePending, EvidenceOf
<1>11. QED
  BY <1>6, <1>7, <1>8, <1>9, <1>10

LEMMA AdmitRefusedInv ==
  ASSUME IInv, NEW s \in Service, NEW reason, AdmitRefused(s, reason), txn' = txn
  PROVE  IInv'
<1> USE DEF IInv, TypeOK
<1>1. services' = services /\ slots' = slots
  BY DEF AdmitRefused
<1>2. TypeOK'
  BY RefusedType
<1>3. CursorInRange' /\ RecoveringIffInTxn' /\ Fenced' /\ PassedSlotsReclaimed'
  BY <1>1 DEF CursorInRange, RecoveringIffInTxn, Fenced, PassedSlotsReclaimed, Reclaiming
<1>4. PoolHeld' /\ FailedOnlyWhenSpent'
  BY <1>1 DEF PoolHeld, SlotHeld, FailedOnlyWhenSpent, Reclaiming
<1>5. EvidenceCurrent'
  BY <1>1 DEF EvidenceCurrent, EvidencePending, AdmitRefused, EvidenceOf, WorldType
<1>6. QED
  BY <1>2, <1>3, <1>4, <1>5

LEMMA AllocSlotInv ==
  ASSUME IInv, NEW s \in Service, AllocSlot(s), txn' = txn
  PROVE  IInv'
<1> USE DEF IInv, TypeOK
<1>1. services' = services /\ evidence' = evidence
  BY DEF AllocSlot
<1>2. PICK i \in Slot : slots' = [slots EXCEPT ![i] =
        [in_use |-> TRUE, owner |-> s, epoch |-> services[s].epoch]]
  BY DEF AllocSlot
<1>3. /\ slots'[i] = [in_use |-> TRUE, owner |-> s, epoch |-> services[s].epoch]
      /\ \A j \in Slot : j # i => slots'[j] = slots[j]
  BY <1>2 DEF WorldType
<1>4. TypeOK'
  BY AllocType
<1>5. CursorInRange' /\ RecoveringIffInTxn' /\ Fenced'
  BY <1>1 DEF CursorInRange, RecoveringIffInTxn, Fenced, Reclaiming
<1>6. PoolHeld'
  BY <1>1, <1>3 DEF PoolHeld, SlotHeld, AllocSlot, Live, Reclaiming
<1>7. PassedSlotsReclaimed'
  <2>1. ~Reclaiming(s)
    BY DEF RecoveringIffInTxn, AllocSlot, Live
  <2>2. QED
    BY <1>3, <2>1 DEF PassedSlotsReclaimed, Reclaiming
<1>8. FailedOnlyWhenSpent' /\ EvidenceCurrent'
  BY <1>1 DEF FailedOnlyWhenSpent, EvidenceCurrent, EvidencePending
<1>9. QED
  BY <1>4, <1>5, <1>6, <1>7, <1>8

LEMMA FreeSlotInv ==
  ASSUME IInv, NEW i \in Slot, FreeSlot(i), txn' = txn
  PROVE  IInv'
<1> USE DEF IInv, TypeOK
<1>1. services' = services /\ evidence' = evidence
  BY DEF FreeSlot
<1>2. ~slots'[i].in_use /\ \A j \in Slot : j # i => slots'[j] = slots[j]
  BY DEF FreeSlot, FreeSlotRecord, WorldType
<1>3. TypeOK'
  BY FreeType
<1>4. CursorInRange' /\ RecoveringIffInTxn' /\ Fenced'
  BY <1>1 DEF CursorInRange, RecoveringIffInTxn, Fenced, Reclaiming
<1>5. PoolHeld' /\ PassedSlotsReclaimed'
  BY <1>1, <1>2 DEF PoolHeld, PassedSlotsReclaimed, SlotHeld, Reclaiming
<1>6. FailedOnlyWhenSpent' /\ EvidenceCurrent'
  BY <1>1 DEF FailedOnlyWhenSpent, EvidenceCurrent, EvidencePending
<1>7. QED
  BY <1>3, <1>4, <1>5, <1>6

\* cap_grant and cap_revoke change a lease and nothing else.
LEMMA LeaseInv ==
  ASSUME IInv, NEW s \in Service, NEW lease \in SUBSET Caps,
         services[s].recovering => lease = {},
         services' = [services EXCEPT ![s].cap_lease = lease],
         slots' = slots, evidence' = evidence, txn' = txn
  PROVE  IInv'
<1> USE DEF IInv, TypeOK
<1>1. /\ services'[s] = [services[s] EXCEPT !.cap_lease = lease]
      /\ \A t \in Service : t # s => services'[t] = services[t]
  BY DEF WorldType
<1>2. \A t \in Service :
        /\ services'[t].bound = services[t].bound
        /\ services'[t].recovering = services[t].recovering
        /\ services'[t].health = services[t].health
        /\ services'[t].epoch = services[t].epoch
        /\ services'[t].state_generation = services[t].state_generation
        /\ services'[t].restart_used = services[t].restart_used
        /\ services'[t].restart_budget = services[t].restart_budget
  BY <1>1 DEF WorldType, ServiceRecord
<1>3. services'[s].cap_lease = lease
  BY <1>1 DEF WorldType, ServiceRecord
<1>4. TypeOK'
  BY DEF WorldType, ServiceRecord
<1>5. CursorInRange' /\ RecoveringIffInTxn' /\ Fenced'
  BY <1>1, <1>2, <1>3 DEF CursorInRange, RecoveringIffInTxn, Fenced, Reclaiming
<1>6. PoolHeld' /\ PassedSlotsReclaimed'
  BY <1>2 DEF PoolHeld, PassedSlotsReclaimed, SlotHeld, Reclaiming, WorldType, SlotRecord
<1>7. FailedOnlyWhenSpent' /\ EvidenceCurrent'
  BY <1>2 DEF FailedOnlyWhenSpent, EvidenceCurrent, EvidencePending
<1>8. QED
  BY <1>4, <1>5, <1>6, <1>7

LEMMA StutterInv == ASSUME IInv, UNCHANGED vars PROVE IInv'
BY DEF IInv, vars, TypeOK, WorldType, CursorInRange, RecoveringIffInTxn, Fenced, PoolHeld, SlotHeld,
       PassedSlotsReclaimed, Reclaiming, FailedOnlyWhenSpent, EvidenceCurrent, EvidencePending

-----------------------------------------------------------------------------
(* The theorems.                                                           *)

LEMMA NextInv == ASSUME IInv, [Next]_vars PROVE IInv'
<1>1. ASSUME NEW s \in Service, NEW reason \in AdmitReasons, AdmitBegin(s, reason) PROVE IInv'
  BY <1>1, AdmitBeginInv
<1>2. CASE AdmitStep
  BY <1>2, AdmitTestInv, AdmitClearInv, AdmitEndInv, AdmitEvidenceInv DEF AdmitStep
<1>3. CASE Call
  <2>1. txn' = txn
    BY <1>3 DEF Call
  <2>2. ASSUME NEW s \in Service, NEW budget \in 1 .. BudgetMax, NEW lease \in SUBSET Caps,
               Bind(s, budget, lease)
        PROVE  IInv'
    BY <2>1, <2>2, BindInv
  <2>3. ASSUME NEW s \in Service, NEW reason \in AdmitReasons, Admit(s, reason) PROVE IInv'
    BY <2>1, <2>3, AdmitInv
  <2>4. ASSUME NEW s \in Service, NEW reason, AdmitRefused(s, reason) PROVE IInv'
    BY <2>1, <2>4, AdmitRefusedInv
  <2>5. ASSUME NEW s \in Service, AllocSlot(s) PROVE IInv'
    BY <2>1, <2>5, AllocSlotInv
  <2>6. ASSUME NEW s \in Service, NEW lease \in SUBSET Caps, CapGrant(s, lease) PROVE IInv'
    BY <2>1, <2>6, LeaseInv DEF CapGrant, Live
  <2>7. ASSUME NEW s \in Service, CapRevoke(s) PROVE IInv'
    <3>1. {} \in SUBSET Caps
      OBVIOUS
    <3>2. QED
      BY <2>1, <2>7, <3>1, LeaseInv DEF CapRevoke
  <2>8. QED
    BY <1>3, <2>2, <2>3, <2>4, <2>5, <2>6, <2>7 DEF Call
<1>4. CASE Release
  BY <1>4, FreeSlotInv DEF Release
<1>5. CASE UNCHANGED vars
  BY <1>5, StutterInv
<1>6. QED
  BY <1>1, <1>2, <1>3, <1>4, <1>5 DEF Next

\* Every reachable state of Recovery satisfies the inductive invariant.
THEOREM InductiveInvariant == Spec => []IInv
<1>1. IInv /\ [Next]_vars => IInv'
  BY NextInv
<1>2. QED
  BY InitInv, <1>1, PTL DEF Spec

\* The world and the transaction keep the types recovery.h declares.
THEOREM TypeCorrect == Spec => []TypeOK
<1>1. IInv => TypeOK
  BY DEF IInv
<1>2. QED
  BY <1>1, InductiveInvariant, PTL

\* A service is recovering exactly while an admit of it is under way.
THEOREM RecoveringOnlyInTransaction == Spec => []RecoveringIffInTxn
<1>1. IInv => RecoveringIffInTxn
  BY DEF IInv
<1>2. QED
  BY <1>1, InductiveInvariant, PTL

\* Outside a recovery no service owns work of an epoch it has left, other than
\* work it was rebound under.
THEOREM NoStaleWork == Spec => []StaleOnlyAfterRebind
<1>1. IInv => StaleOnlyAfterRebind
  BY DEF IInv, StaleOnlyAfterRebind, HasStaleWork, Owns, PoolHeld, SlotHeld, RecoveringIffInTxn
<1>2. QED
  BY <1>1, InductiveInvariant, PTL

\* A failed service holds no slot of the pool.
THEOREM FailedHoldsNothing == Spec => []FailedOwnsNothing
<1>1. IInv => FailedOwnsNothing
  BY DEF IInv, FailedOwnsNothing, Owns, PoolHeld, SlotHeld
<1>2. QED
  BY <1>1, InductiveInvariant, PTL

\* A service fails only when its budget is spent, and never spends more.
THEOREM BudgetIsRespected == Spec => []FailedOnlyWhenSpent
<1>1. IInv => FailedOnlyWhenSpent
  BY DEF IInv
<1>2. QED
  BY <1>1, InductiveInvariant, PTL

\* Outside the transaction that writes it, evidence describes the service.
THEOREM EvidenceIsCurrent == Spec => []EvidenceCurrent
<1>1. IInv => EvidenceCurrent
  BY DEF IInv
<1>2. QED
  BY <1>1, InductiveInvariant, PTL

\* Only AdmitEnd ends a recovery, and it ends it with no lease and no slot.
LEMMA RecoveryEndsClean ==
  ASSUME IInv, [Next]_vars, NEW s \in Service, services[s].recovering, ~services'[s].recovering
  PROVE  /\ services'[s].cap_lease = {}
         /\ \A i \in Slot : ~(slots'[i].in_use /\ slots'[i].owner = s)
<1> USE DEF IInv, TypeOK
<1>1. Reclaiming(s) /\ services[s].cap_lease = {}
  BY DEF RecoveringIffInTxn, Fenced
<1>2. AdmitEnd
  <2>1. services' # services
    OBVIOUS
  <2>2. ~AdmitTest /\ ~AdmitClear /\ ~AdmitEvidence
    BY <2>1 DEF AdmitTest, AdmitClear, AdmitEvidence, worldVars
  <2>3. ~Release /\ ~UNCHANGED vars
    BY <2>1 DEF Release, FreeSlot, vars
  <2>4. \A t \in Service, reason \in AdmitReasons : ~AdmitBegin(t, reason)
    BY <1>1 DEF AdmitBegin, Reclaiming
  <2>5. ~Call
    <3>1. \A t \in Service, budget \in 1 .. BudgetMax, lease \in SUBSET Caps : ~Bind(t, budget, lease)
      BY DEF Bind, WorldType
    <3>2. \A t \in Service, reason \in AdmitReasons : ~Admit(t, reason)
      BY DEF Admit, WorldType
    <3>3. \A t \in Service : \A reason : ~AdmitRefused(t, reason)
      BY <2>1 DEF AdmitRefused
    <3>4. \A t \in Service : ~AllocSlot(t)
      BY <2>1 DEF AllocSlot
    <3>5. \A t \in Service, lease \in SUBSET Caps : ~CapGrant(t, lease)
      BY DEF CapGrant, WorldType, ServiceRecord
    <3>6. \A t \in Service : ~CapRevoke(t)
      BY DEF CapRevoke, WorldType, ServiceRecord
    <3>7. QED
      BY <3>1, <3>2, <3>3, <3>4, <3>5, <3>6 DEF Call
  <2>6. QED
    BY <2>2, <2>3, <2>4, <2>5 DEF Next, AdmitStep
<1>3. txn.phase = "test" /\ txn.cursor = SlotCount /\ txn.service = s
  BY <1>1, <1>2 DEF AdmitEnd, Reclaiming
<1>4. \A i \in Slot : ~Owns(s, i)
  BY <1>3, ReclaimedOwnsNothing
<1>5. services'[s].cap_lease = services[s].cap_lease
  BY <1>2, <1>3 DEF AdmitEnd, AdmitEnded, WorldType, ServiceRecord
<1>6. QED
  BY <1>1, <1>2, <1>4, <1>5 DEF AdmitEnd, Owns

\* A service leaves its recovery with no capability and no slot, whatever calls
\* handlers made while it was recovering.
THEOREM RecoveryLeavesClean == Spec => LeavesRecoveryClean
<1>1. IInv /\ [Next]_vars =>
        [\A s \in Service :
           services[s].recovering /\ ~services'[s].recovering =>
             /\ services'[s].cap_lease = {}
             /\ \A i \in Slot : ~(slots'[i].in_use /\ slots'[i].owner = s)]_vars
  BY RecoveryEndsClean
<1>2. QED
  BY <1>1, InductiveInvariant, PTL DEF Spec, LeavesRecoveryClean

-----------------------------------------------------------------------------
(* The length of a transaction.                                            *)

\* The steps an admit has still to take, at most: two for each slot ahead of the
\* loop, one to publish the outcome and one to write the evidence.
StepsLeft ==
  CASE txn.phase = "idle"  -> 0
    [] txn.phase = "test"  -> 2 * (SlotCount - txn.cursor) + 2
    [] txn.phase = "clear" -> 2 * (SlotCount - txn.cursor) + 1
    [] txn.phase = "ended" -> 1

\* Between two steps the number is one a loop can count down.
LEMMA StepsLeftBounded == IInv => StepsLeft \in 0 .. 2 * SlotCount + 2
<1> SUFFICES ASSUME IInv PROVE StepsLeft \in 0 .. 2 * SlotCount + 2
  OBVIOUS
<1>1. /\ txn.phase \in {"idle", "test", "clear", "ended"}
      /\ txn.cursor \in 0 .. SlotCount /\ SlotCount \in Nat
  BY DEF IInv, TypeOK, TxnRecord
<1>2. CASE txn.phase = "idle"
  BY <1>1, <1>2 DEF StepsLeft
<1>3. CASE txn.phase = "test"
  BY <1>1, <1>3 DEF StepsLeft
<1>4. CASE txn.phase = "clear"
  BY <1>1, <1>4 DEF StepsLeft
<1>5. CASE txn.phase = "ended"
  BY <1>1, <1>5 DEF StepsLeft
<1>6. QED
  BY <1>1, <1>2, <1>3, <1>4, <1>5

\* Each step of the admit counts it down, whatever the handlers did to the slots
\* and services in between.
LEMMA AdmitStepCountsDown == ASSUME IInv, AdmitStep PROVE StepsLeft' < StepsLeft
<1>1. /\ txn \in TxnRecord /\ txn.cursor \in 0 .. SlotCount /\ SlotCount \in Nat
      /\ txn.phase = "clear" => txn.cursor < SlotCount
  BY DEF IInv, TypeOK, TxnRecord, CursorInRange
<1>2. CASE AdmitTest
  <2>1. StepsLeft = 2 * (SlotCount - txn.cursor) + 2 /\ txn.cursor < SlotCount
    BY <1>2 DEF AdmitTest, StepsLeft
  <2>2. \/ txn'.phase = "clear" /\ txn'.cursor = txn.cursor
        \/ txn'.phase = "test" /\ txn'.cursor = txn.cursor + 1
    BY <1>1, <1>2 DEF AdmitTest, TxnRecord
  <2>3. \/ StepsLeft' = 2 * (SlotCount - txn.cursor) + 1
        \/ StepsLeft' = 2 * (SlotCount - (txn.cursor + 1)) + 2
    BY <2>2 DEF StepsLeft
  <2>4. QED
    BY <1>1, <2>1, <2>3
<1>3. CASE AdmitClear
  <2>1. StepsLeft = 2 * (SlotCount - txn.cursor) + 1
    BY <1>3 DEF AdmitClear, StepsLeft
  <2>2. txn'.phase = "test" /\ txn'.cursor = txn.cursor + 1
    BY <1>1, <1>3 DEF AdmitClear, TxnRecord
  <2>3. StepsLeft' = 2 * (SlotCount - (txn.cursor + 1)) + 2
    BY <2>2 DEF StepsLeft
  <2>4. QED
    BY <1>1, <2>1, <2>3
<1>4. CASE AdmitEnd
  <2>1. StepsLeft = 2 * (SlotCount - txn.cursor) + 2
    BY <1>4 DEF AdmitEnd, StepsLeft
  <2>2. txn'.phase = "ended"
    BY <1>1, <1>4 DEF AdmitEnd, TxnRecord
  <2>3. StepsLeft' = 1
    BY <2>2 DEF StepsLeft
  <2>4. QED
    BY <1>1, <2>1, <2>3
<1>5. CASE AdmitEvidence
  <2>1. StepsLeft = 1
    BY <1>5 DEF AdmitEvidence, StepsLeft
  <2>2. StepsLeft' = 0
    BY <1>5 DEF AdmitEvidence, IdleTxn, StepsLeft
  <2>3. QED
    BY <2>1, <2>2
<1>6. QED
  BY <1>2, <1>3, <1>4, <1>5 DEF AdmitStep

\* An admit under way is never begun again, put back or kept up by a call from a
\* handler: what changes its place counts its steps down, of which it has at most
\* two for each slot and three more.  With the fairness of AdmitStep this is why
\* RecoveryCompletes holds.
THEOREM AdmitsAreShort ==
  Spec => /\ [](StepsLeft \in 0 .. 2 * SlotCount + 2)
          /\ [][txn.phase # "idle" => txn' = txn \/ StepsLeft' < StepsLeft]_vars
<1>1. IInv /\ [Next]_vars => [txn.phase # "idle" => txn' = txn \/ StepsLeft' < StepsLeft]_vars
  BY AdmitStepCountsDown DEF Next, AdmitBegin, Call, Release
<1>2. QED
  BY <1>1, StepsLeftBounded, InductiveInvariant, PTL DEF Spec

-----------------------------------------------------------------------------
(* The refinement: what users see of an interrupted transaction.           *)

\* The invariant gives every step what the refinement lemmas ask for.
LEMMA InOrder == ASSUME IInv PROVE WorldInOrder
<1>1. HealthInOrder
  BY DEF IInv, Fenced, FailedOnlyWhenSpent, HealthInOrder
<1>2. PoolInOrder
  <2> SUFFICES ASSUME NEW i \in Slot, slots[i].in_use
               PROVE  LET owner == services[slots[i].owner]
                      IN  /\ owner.bound
                          /\ owner.health # "FAILED"
                          /\ slots[i].epoch = owner.epoch \/ owner.epoch = 1 \/ owner.recovering
    BY DEF PoolInOrder
  <2>1. SlotHeld(i) /\ slots[i].owner \in Service
    BY DEF IInv, PoolHeld, TypeOK, WorldType, SlotRecord
  <2>2. Reclaiming(slots[i].owner) => services[slots[i].owner].recovering
    BY <2>1 DEF IInv, RecoveringIffInTxn
  <2>3. QED
    BY <2>1, <2>2 DEF SlotHeld
<1>3. QED
  BY <1>1, <1>2 DEF IInv, TypeOK, WorldInOrder

\* The transaction: the fence, reclaimed slots returned, the settlement.
LEMMA AdmitStepRefines ==
  ASSUME IInv, AdmitStep
  PROVE  Contract!Next \/ UNCHANGED Contract!vars
<1>1. WorldInOrder
  BY InOrder
<1>2. CASE AdmitTest \/ AdmitEvidence
  BY <1>2, WorldUnseen DEF AdmitTest, AdmitEvidence, worldVars
<1>3. CASE AdmitClear
  <2>1. txn.cursor \in Slot
    BY <1>3 DEF AdmitClear, IInv, CursorInRange, TypeOK, TxnRecord, Slot
  <2>2. services' = services /\ slots' = [slots EXCEPT ![txn.cursor] = FreeSlotRecord]
    BY <1>3 DEF AdmitClear
  <2>3. UNCHANGED Contract!vars \/ \E s \in Service : Contract!Return(s, txn.cursor)
    BY <1>1, <2>1, <2>2, ReturnRefines
  <2>4. QED
    BY <2>1, <2>3 DEF Contract!Next
<1>4. CASE AdmitEnd
  <2>1. txn.service \in Service /\ txn.phase = "test" /\ txn.cursor = SlotCount
    BY <1>4 DEF AdmitEnd, IInv, TypeOK, TxnRecord
  <2>2. services[txn.service].recovering
    BY <2>1 DEF IInv, RecoveringIffInTxn, Reclaiming
  <2>3. \A i \in Slot : ~Owns(txn.service, i)
    BY <2>1, ReclaimedOwnsNothing
  <2>4. /\ services' = [services EXCEPT ![txn.service] =
             AdmitEnded(services[txn.service], AdmitOutcome(services[txn.service], txn.reason))]
        /\ slots' = slots
    BY <1>4 DEF AdmitEnd
  <2>5. Contract!Settle(txn.service)
    BY <1>1, <2>1, <2>2, <2>3, <2>4, SettleRefines
  <2>6. QED
    BY <2>1, <2>5 DEF Contract!Next
<1>5. QED
  BY <1>2, <1>3, <1>4 DEF AdmitStep

\* The calls, from the main loop or from a handler inside the transaction.
LEMMA CallRefines ==
  ASSUME IInv, Call
  PROVE  Contract!Next \/ UNCHANGED Contract!vars
<1>1. WorldInOrder
  BY InOrder
<1>2. ASSUME NEW s \in Service, NEW budget \in 1 .. BudgetMax, NEW lease \in SUBSET Caps,
             Bind(s, budget, lease)
      PROVE  Contract!Next
  BY <1>1, <1>2, BindRefines DEF Contract!Next
<1>3. ASSUME NEW s \in Service, NEW reason \in AdmitReasons, Admit(s, reason)
      PROVE  Contract!Next
  BY <1>1, <1>3, RecoverRefines DEF Contract!Next
<1>4. ASSUME NEW s \in Service, NEW reason, AdmitRefused(s, reason)
      PROVE  UNCHANGED Contract!vars
  BY <1>4, WorldUnseen DEF AdmitRefused
<1>5. ASSUME NEW s \in Service, AllocSlot(s) PROVE Contract!Next
  BY <1>1, <1>5, TakeRefines DEF Contract!Next
<1>6. ASSUME NEW s \in Service, NEW lease \in SUBSET Caps, CapGrant(s, lease)
      PROVE  Contract!Next
  <2>1. Contract!Grant(s)
    BY <1>1, <1>6, LeaseRefines DEF CapGrant
  <2>2. QED
    BY <2>1 DEF Contract!Next
<1>7. ASSUME NEW s \in Service, CapRevoke(s)
      PROVE  Contract!Next \/ UNCHANGED Contract!vars
  <2>1. {} \in SUBSET Caps
    OBVIOUS
  <2>2. Contract!Grant(s) \/ UNCHANGED Contract!vars
    BY <1>1, <1>7, <2>1, LeaseRefines DEF CapRevoke
  <2>3. QED
    BY <2>2 DEF Contract!Next
<1>8. QED
  BY <1>2, <1>3, <1>4, <1>5, <1>6, <1>7 DEF Call

\* Every step of Recovery is a step of the contract or shows nothing.
LEMMA NextRefines ==
  ASSUME IInv, [Next]_vars
  PROVE  Contract!Next \/ UNCHANGED Contract!vars
<1>1. ASSUME NEW s \in Service, NEW reason \in AdmitReasons, AdmitBegin(s, reason)
      PROVE  Contract!Next
  <2>1. Contract!Fence(s)
    BY <1>1, InOrder, FenceRefines DEF AdmitBegin
  <2>2. QED
    BY <2>1 DEF Contract!Next
<1>2. ASSUME NEW i \in Slot, FreeSlot(i)
      PROVE  Contract!Next \/ UNCHANGED Contract!vars
  <2>1. UNCHANGED Contract!vars \/ \E s \in Service : Contract!Return(s, i)
    BY <1>2, InOrder, ReturnRefines DEF FreeSlot
  <2>2. QED
    BY <2>1 DEF Contract!Next
<1>3. CASE UNCHANGED vars
  BY <1>3, WorldUnseen DEF vars
<1>4. QED
  BY <1>1, <1>2, <1>3, AdmitStepRefines, CallRefines DEF Next, Release

\* However handlers interrupt a transaction, its users see a recovery that takes
\* work and capabilities away at once, gives none back, and settles once.
THEOREM ContractIsKept == Spec => ImplementsContract
<1>1. IInv /\ [Next]_vars => [Contract!Next]_(Contract!vars)
  BY NextRefines
<1>2. Init => Contract!Init
  BY WorldInitRefines DEF Init
<1>3. QED
  BY <1>1, <1>2, InductiveInvariant, PTL DEF Spec, ImplementsContract, Contract!Spec

=============================================================================
