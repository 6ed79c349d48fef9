---------------------------- MODULE WorldProofs ----------------------------
(***************************************************************************)
(* Lemmas about the operations of RecoveryWorld, for the proofs about the  *)
(* modules that build on it.                                               *)
(***************************************************************************)
EXTENDS RecoveryWorld, TLAPS

USE ServiceCountAssumption, SlotCountAssumption, BudgetMaxAssumption, EpochSpanAssumption

-----------------------------------------------------------------------------
(* The operators of a transaction stay within their types.                 *)

LEMMA NextEpochType == ASSUME NEW e \in Epoch PROVE NextEpoch(e) \in Epoch
BY DEF NextEpoch, Epoch

LEMMA BegunType ==
  ASSUME NEW svc \in ServiceRecord PROVE AdmitBegun(svc) \in ServiceRecord
BY NextEpochType DEF AdmitBegun, ServiceRecord, Healths

LEMMA OutcomeType ==
  ASSUME NEW svc, NEW reason PROVE AdmitOutcome(svc, reason) \in {"FAILED", "BACKOFF", "RESTART"}
BY DEF AdmitOutcome

LEMMA EndedType ==
  ASSUME NEW svc \in ServiceRecord, NEW outcome \in {"FAILED", "BACKOFF", "RESTART"}
  PROVE  AdmitEnded(svc, outcome) \in ServiceRecord
<1>1. HealthAfter(outcome) \in Healths
  BY DEF HealthAfter, Healths
<1>2. (IF outcome = "FAILED" THEN svc.restart_used ELSE svc.restart_used + 1) \in Nat
  BY DEF ServiceRecord
<1>3. QED
  BY <1>1, <1>2 DEF AdmitEnded, ServiceRecord

LEMMA EvidenceType ==
  ASSUME NEW svc \in ServiceRecord, NEW outcome \in Outcomes, NEW reason \in Reasons
  PROVE  EvidenceOf(svc, outcome, reason) \in EvidenceRecord
BY DEF EvidenceOf, ServiceRecord, EvidenceRecord

-----------------------------------------------------------------------------
(* Every operation of the world keeps it well typed.                       *)

LEMMA WorldInitType == WorldInit => WorldType
BY DEF WorldInit, WorldType, UnboundService, FreeSlotRecord, NoEvidence, ServiceRecord,
       SlotRecord, EvidenceRecord, Healths, Outcomes, Reasons, AdmitReasons, Service, Slot, Epoch

LEMMA BindType ==
  ASSUME WorldType, NEW s \in Service, NEW budget \in 1 .. BudgetMax, NEW lease \in SUBSET Caps,
         Bind(s, budget, lease)
  PROVE  WorldType'
<1>1. services' \in [Service -> ServiceRecord]
  BY DEF WorldType, Bind, ServiceRecord, Healths, Epoch
<1>2. evidence' \in [Service -> EvidenceRecord]
  BY DEF WorldType, Bind, NoEvidence, EvidenceRecord, Epoch, Outcomes, Reasons, AdmitReasons, Healths
<1>3. QED
  BY <1>1, <1>2 DEF WorldType, Bind

LEMMA AdmitType ==
  ASSUME WorldType, NEW s \in Service, NEW reason \in AdmitReasons, Admit(s, reason)
  PROVE  WorldType'
<1> DEFINE begun   == AdmitBegun(services[s])
           outcome == AdmitOutcome(begun, reason)
           ended   == AdmitEnded(begun, outcome)
<1>1. ended \in ServiceRecord
  BY BegunType, OutcomeType, EndedType DEF WorldType
<1>2. EvidenceOf(ended, outcome, EvidenceReason(outcome, reason)) \in EvidenceRecord
  <2>1. outcome \in Outcomes
    BY OutcomeType DEF Outcomes
  <2>2. EvidenceReason(outcome, reason) \in Reasons
    BY DEF EvidenceReason, Reasons
  <2>3. QED
    BY <1>1, <2>1, <2>2, EvidenceType
<1>3. services' \in [Service -> ServiceRecord]
  BY <1>1 DEF Admit, WorldType
<1>4. slots' \in [Slot -> SlotRecord]
  BY DEF Admit, WorldType, SlotsReclaimed, FreeSlotRecord, SlotRecord, Service, Epoch
<1>5. evidence' \in [Service -> EvidenceRecord]
  BY <1>2 DEF Admit, WorldType
<1>6. QED
  BY <1>3, <1>4, <1>5 DEF WorldType

LEMMA RefusedType ==
  ASSUME WorldType, NEW s \in Service, NEW reason, AdmitRefused(s, reason)
  PROVE  WorldType'
<1>1. EvidenceOf(services[s], "REFUSED",
        IF reason \in AdmitReasons /\ services[s].bound THEN "NESTED" ELSE "MALFORMED")
      \in EvidenceRecord
  BY EvidenceType DEF WorldType, Outcomes, Reasons
<1>2. QED
  BY <1>1 DEF AdmitRefused, WorldType

LEMMA AllocType ==
  ASSUME WorldType, NEW s \in Service, AllocSlot(s)
  PROVE  WorldType'
BY DEF AllocSlot, WorldType, SlotRecord, ServiceRecord

LEMMA FreeType ==
  ASSUME WorldType, NEW i \in Slot, FreeSlot(i)
  PROVE  WorldType'
BY DEF FreeSlot, WorldType, SlotRecord, FreeSlotRecord, Service, Epoch

LEMMA GrantType ==
  ASSUME WorldType, NEW s \in Service, NEW lease \in SUBSET Caps, CapGrant(s, lease)
  PROVE  WorldType'
BY DEF CapGrant, WorldType, ServiceRecord

LEMMA RevokeType ==
  ASSUME WorldType, NEW s \in Service, CapRevoke(s)
  PROVE  WorldType'
BY DEF CapRevoke, WorldType, ServiceRecord

-----------------------------------------------------------------------------
(* Every operation of the world is a step of RecoveryContract, or none.    *)

\* What the two modules' invariants have in common, and the mapping needs: the
\* flag, the health and the lease of a service agree, no restart is owed, and a
\* slot in use is of its owner's epoch, unless the owner was rebound or is in
\* recovery.
HealthInOrder ==
  \A s \in Service :
    /\ services[s].recovering =>
         services[s].bound /\ services[s].health = "RECOVERING" /\ services[s].cap_lease = {}
    /\ services[s].health = "RECOVERING" => services[s].recovering
    /\ services[s].restart_used <= services[s].restart_budget

PoolInOrder ==
  \A i \in Slot : slots[i].in_use =>
    LET owner == services[slots[i].owner]
    IN  /\ owner.bound
        /\ owner.health # "FAILED"
        /\ slots[i].epoch = owner.epoch \/ owner.epoch = 1 \/ owner.recovering

WorldInOrder == WorldType /\ HealthInOrder /\ PoolInOrder

\* Two functions that differ at one argument.
LEMMA ChangedAtOne ==
  ASSUME NEW S, NEW f, NEW g, f = [x \in S |-> f[x]], g = [x \in S |-> g[x]],
         NEW s \in S, \A t \in S \ {s} : g[t] = f[t]
  PROVE  g = [f EXCEPT ![s] = g[s]]
OBVIOUS

\* A function written over with its own value.
LEMMA UnchangedAtOne ==
  ASSUME NEW S, NEW f, f = [x \in S |-> f[x]], NEW s \in S
  PROVE  [f EXCEPT ![s] = f[s]] = f
OBVIOUS

\* A step that changes the record of s alone and takes slots from nobody but s
\* changes what is seen of s alone.
LEMMA OthersUnseen ==
  ASSUME WorldType, NEW s \in Service,
         \A t \in Service \ {s} : services'[t] = services[t],
         \A i \in Slot : slots'[i] = slots[i] \/ (Owns(s, i) /\ ~slots'[i].in_use)
  PROVE  /\ Reported' = [Reported EXCEPT ![s] = Reported'[s]]
         /\ Incarnation' = [Incarnation EXCEPT ![s] = Incarnation'[s]]
         /\ Left' = [Left EXCEPT ![s] = Left'[s]]
         /\ Work' = [Work EXCEPT ![s] = Work'[s]]
         /\ Rights' = [Rights EXCEPT ![s] = Rights'[s]]
<1>1. \A t \in Service \ {s} : Reported'[t] = Reported[t]
  BY DEF Reported, Health
<1>2. \A t \in Service \ {s} : Incarnation'[t] = Incarnation[t] /\ Left'[t] = Left[t]
  BY DEF Incarnation, Left
<1>3. \A t \in Service \ {s} : Work'[t] = Work[t]
  <2> SUFFICES ASSUME NEW t \in Service \ {s}, NEW i \in Slot
               PROVE  (Owns(t, i) /\ Deliverable(i))' <=> Owns(t, i) /\ Deliverable(i)
    BY DEF Work
  <2>1. CASE slots'[i] = slots[i]
    BY <2>1 DEF Owns, Deliverable
  <2>2. CASE Owns(s, i) /\ ~slots'[i].in_use
    BY <2>2 DEF Owns, Deliverable
  <2>3. QED
    BY <2>1, <2>2
<1>4. \A t \in Service \ {s} : Rights'[t] = Rights[t]
  BY DEF Rights, CapCheck, Live
<1>5. Reported' = [Reported EXCEPT ![s] = Reported'[s]]
  BY <1>1, ChangedAtOne DEF Reported
<1>6. Incarnation' = [Incarnation EXCEPT ![s] = Incarnation'[s]]
  BY <1>2, ChangedAtOne DEF Incarnation
<1>7. Left' = [Left EXCEPT ![s] = Left'[s]]
  BY <1>2, ChangedAtOne DEF Left
<1>8. Work' = [Work EXCEPT ![s] = Work'[s]]
  <2>1. Work = [t \in Service |-> Work[t]] /\ Work' = [t \in Service |-> Work'[t]]
    BY DEF Work
  <2>2. QED
    BY <1>3, <2>1, ChangedAtOne
<1>9. Rights' = [Rights EXCEPT ![s] = Rights'[s]]
  <2>1. Rights = [t \in Service |-> Rights[t]] /\ Rights' = [t \in Service |-> Rights'[t]]
    BY DEF Rights
  <2>2. QED
    BY <1>4, <2>1, ChangedAtOne
<1>10. QED
  BY <1>5, <1>6, <1>7, <1>8, <1>9

\* Unbound services show FAILED and nothing else.
LEMMA WorldInitRefines == ASSUME WorldInit PROVE Contract!Init
<1>1. \A s \in Service : services[s] = UnboundService
  BY DEF WorldInit
<1>2. \A i \in Slot : ~slots[i].in_use
  BY DEF WorldInit, FreeSlotRecord
<1>3. Reported = [s \in Service |-> "FAILED"]
  BY <1>1 DEF Reported, Health, UnboundService
<1>4. Incarnation = [s \in Service |-> 0] /\ Left = [s \in Service |-> 0]
  BY <1>1 DEF Incarnation, Left, UnboundService
<1>5. Work = [s \in Service |-> {}]
  BY <1>2 DEF Work, Owns
<1>6. Rights = [s \in Service |-> {}]
  BY <1>1 DEF Rights, CapCheck, Live, UnboundService
<1>7. QED
  BY <1>3, <1>4, <1>5, <1>6 DEF Contract!Init

\* A step that changes neither services nor slots shows nothing.
LEMMA WorldUnseen ==
  ASSUME services' = services, slots' = slots
  PROVE  UNCHANGED Contract!vars
BY DEF Contract!vars, Reported, Incarnation, Left, Work, Rights, Health, Owns, Deliverable, CapCheck, Live

\* What a service shows outside recovery, and what it shows in it.
LEMMA SeenOfOne ==
  ASSUME WorldInOrder, NEW s \in Service
  PROVE  /\ Reported[s] = "RECOVERING" <=> services[s].recovering
         /\ services[s].recovering => Work[s] = {} /\ Rights[s] = {}
         /\ Live(s) <=> Reported[s] \in {"OK", "DEGRADED"}
         /\ Rights[s] = IF Live(s) THEN services[s].cap_lease ELSE {}
<1> USE DEF WorldInOrder, HealthInOrder
<1>1. /\ services[s].health \in {"OK", "DEGRADED", "FAILED", "RECOVERING"}
      /\ services[s].cap_lease \subseteq Caps
  BY DEF WorldType, ServiceRecord, Healths
<1>2. Reported[s] = "RECOVERING" <=> services[s].recovering
  BY DEF Reported, Health
<1>3. services[s].recovering => Work[s] = {}
  BY DEF Work, Owns, Deliverable
<1>4. Live(s) <=> Reported[s] \in {"OK", "DEGRADED"}
  BY <1>1 DEF Reported, Health, Live
<1>5. Rights[s] = IF Live(s) THEN services[s].cap_lease ELSE {}
  BY <1>1 DEF Rights, CapCheck
<1>6. QED
  BY <1>2, <1>3, <1>4, <1>5 DEF Live

\* cirvane_rtx_bind is a binding: of the work a rebound service keeps its slots
\* that are of epoch 1.
LEMMA BindRefines ==
  ASSUME WorldInOrder, NEW s \in Service, NEW budget \in 1 .. BudgetMax,
         NEW lease \in SUBSET Caps, Bind(s, budget, lease)
  PROVE  Contract!Rebind(s)
<1> DEFINE bound ==
      [bound |-> TRUE, recovering |-> FALSE, health |-> "OK",
       restart_budget |-> budget, restart_used |-> 0, cap_lease |-> lease,
       epoch |-> 1, state_generation |-> 1]
<1>1. /\ ~services[s].recovering /\ slots' = slots
      /\ services'[s] = bound
      /\ \A t \in Service \ {s} : services'[t] = services[t]
  BY DEF Bind, WorldInOrder, WorldType
<1>2. /\ Reported' = [Reported EXCEPT ![s] = Reported'[s]]
      /\ Incarnation' = [Incarnation EXCEPT ![s] = Incarnation'[s]]
      /\ Left' = [Left EXCEPT ![s] = Left'[s]]
      /\ Work' = [Work EXCEPT ![s] = Work'[s]]
      /\ Rights' = [Rights EXCEPT ![s] = Rights'[s]]
  BY <1>1, OthersUnseen DEF WorldInOrder
<1>3. Reported[s] # "RECOVERING"
  BY <1>1, SeenOfOne
<1>4. Reported'[s] = "OK" /\ Incarnation'[s] = 1
  BY <1>1 DEF Reported, Health, Incarnation
<1>5. Left'[s] = budget
  BY <1>1 DEF Left
<1>6. Rights'[s] = lease
  BY <1>1 DEF Rights, CapCheck, Live
<1>7. Work'[s] \in SUBSET Work[s]
  <2> SUFFICES ASSUME NEW i \in Slot, slots[i].in_use, slots[i].owner = s, slots[i].epoch = 1
               PROVE  i \in Work[s]
    BY <1>1 DEF Work, Owns, Deliverable
  <2>1. /\ services[s].bound
        /\ slots[i].epoch = services[s].epoch \/ services[s].epoch = 1
    BY <1>1 DEF WorldInOrder, PoolInOrder
  <2>2. QED
    BY <1>1, <2>1 DEF Work, Owns, Deliverable
<1>8. QED
  BY <1>2, <1>3, <1>4, <1>5, <1>6, <1>7 DEF Contract!Rebind

\* The first step of an admit is the fence.
LEMMA FenceRefines ==
  ASSUME WorldInOrder, NEW s \in Service, services[s].bound, ~services[s].recovering,
         services' = [services EXCEPT ![s] = AdmitBegun(@)], slots' = slots
  PROVE  Contract!Fence(s)
<1> DEFINE begun == AdmitBegun(services[s])
<1>1. services'[s] = begun /\ \A t \in Service \ {s} : services'[t] = services[t]
  BY DEF WorldInOrder, WorldType
<1>2. begun.bound /\ begun.recovering /\ begun.epoch = NextEpoch(services[s].epoch)
      /\ begun.restart_used = services[s].restart_used
      /\ begun.restart_budget = services[s].restart_budget
  BY DEF AdmitBegun, WorldInOrder, WorldType, ServiceRecord
<1>3. /\ Reported' = [Reported EXCEPT ![s] = Reported'[s]]
      /\ Incarnation' = [Incarnation EXCEPT ![s] = Incarnation'[s]]
      /\ Left' = [Left EXCEPT ![s] = Left'[s]]
      /\ Work' = [Work EXCEPT ![s] = Work'[s]]
      /\ Rights' = [Rights EXCEPT ![s] = Rights'[s]]
  BY <1>1, OthersUnseen DEF WorldInOrder
<1>4. Reported[s] # "RECOVERING"
  BY SeenOfOne
<1>5. Reported'[s] = "RECOVERING"
  BY <1>1, <1>2 DEF Reported, Health
<1>6. Incarnation'[s] = NextEpoch(Incarnation[s])
  BY <1>1, <1>2 DEF Incarnation
<1>7. Left' = Left
  BY <1>1, <1>2 DEF Left
<1>8. Work'[s] = {} /\ Rights'[s] = {}
  BY <1>1, <1>2 DEF Work, Owns, Deliverable, Rights, CapCheck, Live
<1>9. QED
  BY <1>3, <1>4, <1>5, <1>6, <1>7, <1>8 DEF Contract!Fence

\* The outcome of an admit spends a restart, or fails the service that has none.
LEMMA OutcomeSettles ==
  ASSUME NEW svc \in ServiceRecord, svc.restart_used <= svc.restart_budget, NEW reason
  PROVE  LET ended == AdmitEnded(svc, AdmitOutcome(svc, reason))
             spare == svc.restart_budget - svc.restart_used
         IN  /\ ended.bound = svc.bound /\ ~ended.recovering /\ ended.epoch = svc.epoch
             /\ ended.cap_lease = svc.cap_lease
             /\ \/ /\ spare > 0 /\ ended.health \in {"OK", "DEGRADED"}
                   /\ ended.restart_budget - ended.restart_used = spare - 1
                \/ /\ spare = 0 /\ ended.health = "FAILED"
                   /\ ended.restart_budget - ended.restart_used = spare
<1> DEFINE outcome == AdmitOutcome(svc, reason)
           ended   == AdmitEnded(svc, outcome)
<1>1. svc.restart_used \in Nat /\ svc.restart_budget \in Nat
  BY DEF ServiceRecord
<1>2. /\ ended.bound = svc.bound /\ ~ended.recovering /\ ended.epoch = svc.epoch
      /\ ended.cap_lease = svc.cap_lease
      /\ ended.restart_budget = svc.restart_budget
      /\ ended.restart_used = IF outcome = "FAILED" THEN svc.restart_used ELSE svc.restart_used + 1
      /\ ended.health = HealthAfter(outcome)
  BY DEF AdmitEnded, ServiceRecord
<1>3. CASE svc.restart_used >= svc.restart_budget
  <2>1. outcome = "FAILED"
    BY <1>3 DEF AdmitOutcome
  <2>2. ended.health = "FAILED" /\ ended.restart_used = svc.restart_used
    BY <1>2, <2>1 DEF HealthAfter
  <2> HIDE DEF ended
  <2>3. QED
    BY <1>1, <1>2, <1>3, <2>2 DEF ended
<1>4. CASE svc.restart_used < svc.restart_budget
  <2>1. outcome \in {"BACKOFF", "RESTART"}
    BY <1>1, <1>4 DEF AdmitOutcome
  <2>2. ended.health \in {"OK", "DEGRADED"} /\ ended.restart_used = svc.restart_used + 1
    BY <1>2, <2>1 DEF HealthAfter
  <2> HIDE DEF ended
  <2>3. QED
    BY <1>1, <1>2, <1>4, <2>2 DEF ended
<1>5. QED
  BY <1>1, <1>3, <1>4

\* The last step of an admit, once the service owns nothing, is the settlement.
LEMMA SettleRefines ==
  ASSUME WorldInOrder, NEW s \in Service, NEW reason, services[s].recovering,
         services' = [services EXCEPT ![s] =
           AdmitEnded(services[s], AdmitOutcome(services[s], reason))],
         slots' = slots, \A i \in Slot : ~Owns(s, i)
  PROVE  Contract!Settle(s)
<1> DEFINE ended == AdmitEnded(services[s], AdmitOutcome(services[s], reason))
           spare == services[s].restart_budget - services[s].restart_used
<1>1. services'[s] = ended /\ \A t \in Service \ {s} : services'[t] = services[t]
  BY DEF WorldInOrder, WorldType
<1>2. /\ services[s].bound /\ services[s].cap_lease = {} /\ services[s] \in ServiceRecord
      /\ services[s].restart_used <= services[s].restart_budget
  BY DEF WorldInOrder, WorldType, HealthInOrder
<1>3. /\ ended.bound /\ ~ended.recovering /\ ended.epoch = services[s].epoch
      /\ ended.cap_lease = {}
      /\ \/ /\ spare > 0 /\ ended.health \in {"OK", "DEGRADED"}
            /\ ended.restart_budget - ended.restart_used = spare - 1
         \/ /\ spare = 0 /\ ended.health = "FAILED"
            /\ ended.restart_budget - ended.restart_used = spare
  BY <1>2, OutcomeSettles
<1> HIDE DEF ended
<1>4. /\ Reported' = [Reported EXCEPT ![s] = Reported'[s]]
      /\ Incarnation' = [Incarnation EXCEPT ![s] = Incarnation'[s]]
      /\ Left' = [Left EXCEPT ![s] = Left'[s]]
      /\ Work' = [Work EXCEPT ![s] = Work'[s]]
      /\ Rights' = [Rights EXCEPT ![s] = Rights'[s]]
  BY <1>1, OthersUnseen DEF WorldInOrder
<1>5. Reported[s] = "RECOVERING" /\ Work[s] = {} /\ Rights[s] = {}
  BY SeenOfOne
<1>6. Reported'[s] = ended.health
  BY <1>1, <1>3 DEF Reported, Health
<1>7. Incarnation'[s] = Incarnation[s]
  BY <1>1, <1>3 DEF Incarnation
<1>8. Left[s] = spare /\ Left'[s] = ended.restart_budget - ended.restart_used
  BY <1>1 DEF Left
<1>9. Work'[s] = {} /\ Rights'[s] = {}
  BY <1>1, <1>3 DEF Work, Owns, Rights, CapCheck
<1>10. Work' = Work /\ Rights' = Rights /\ Incarnation' = Incarnation
  <2>1. /\ Work = [t \in Service |-> Work[t]] /\ Rights = [t \in Service |-> Rights[t]]
        /\ Incarnation = [t \in Service |-> Incarnation[t]]
    BY DEF Work, Rights, Incarnation
  <2>2. /\ [Work EXCEPT ![s] = Work[s]] = Work /\ [Rights EXCEPT ![s] = Rights[s]] = Rights
        /\ [Incarnation EXCEPT ![s] = Incarnation[s]] = Incarnation
    BY <2>1, UnchangedAtOne
  <2>3. Work' = Work
    BY <1>4, <1>5, <1>9, <2>2
  <2>4. Rights' = Rights
    BY <1>4, <1>5, <1>9, <2>2
  <2>5. Incarnation' = Incarnation
    BY <1>4, <1>7, <2>2
  <2>6. QED
    BY <2>3, <2>4, <2>5
<1>11. Contract!Settled(s)
  <2>1. CASE spare > 0
    BY <1>3, <1>4, <1>6, <1>8, <2>1 DEF Contract!Settled
  <2>2. CASE spare = 0
    <3>1. Left = [t \in Service |-> Left[t]]
      BY DEF Left
    <3>2. Left' = Left
      BY <1>3, <1>4, <1>8, <2>2, <3>1, UnchangedAtOne
    <3>3. QED
      BY <1>3, <1>4, <1>6, <1>8, <2>2, <3>2 DEF Contract!Settled
  <2>3. QED
    BY <1>3, <2>1, <2>2
<1>12. QED
  BY <1>5, <1>10, <1>11 DEF Contract!Settle

\* An admit that is not interrupted is a recovery in one step.
LEMMA RecoverRefines ==
  ASSUME WorldInOrder, NEW s \in Service, NEW reason, Admit(s, reason)
  PROVE  Contract!Recover(s)
<1> DEFINE begun == AdmitBegun(services[s])
           ended == AdmitEnded(begun, AdmitOutcome(begun, reason))
           spare == services[s].restart_budget - services[s].restart_used
<1>1. /\ services[s].bound /\ ~services[s].recovering
      /\ services'[s] = ended /\ slots' = SlotsReclaimed(s)
      /\ \A t \in Service \ {s} : services'[t] = services[t]
  BY DEF Admit, WorldInOrder, WorldType
<1>2. /\ begun \in ServiceRecord /\ begun.bound /\ begun.cap_lease = {}
      /\ begun.epoch = NextEpoch(services[s].epoch)
      /\ begun.restart_used = services[s].restart_used
      /\ begun.restart_budget = services[s].restart_budget
      /\ begun.restart_used <= begun.restart_budget
  <2>1. begun \in ServiceRecord
    BY BegunType DEF WorldInOrder, WorldType
  <2>2. QED
    BY <1>1, <2>1 DEF AdmitBegun, WorldInOrder, WorldType, HealthInOrder, ServiceRecord
<1> HIDE DEF begun
<1>3. /\ ended.bound /\ ~ended.recovering /\ ended.epoch = begun.epoch
      /\ ended.cap_lease = {}
      /\ \/ /\ spare > 0 /\ ended.health \in {"OK", "DEGRADED"}
            /\ ended.restart_budget - ended.restart_used = spare - 1
         \/ /\ spare = 0 /\ ended.health = "FAILED"
            /\ ended.restart_budget - ended.restart_used = spare
  BY <1>2, OutcomeSettles
<1> HIDE DEF ended
<1>4. /\ \A i \in Slot : slots'[i] = slots[i] \/ (Owns(s, i) /\ ~slots'[i].in_use)
      /\ \A i \in Slot : ~Owns(s, i)'
  BY <1>1 DEF SlotsReclaimed, FreeSlotRecord, Owns
<1>5. /\ Reported' = [Reported EXCEPT ![s] = Reported'[s]]
      /\ Incarnation' = [Incarnation EXCEPT ![s] = Incarnation'[s]]
      /\ Left' = [Left EXCEPT ![s] = Left'[s]]
      /\ Work' = [Work EXCEPT ![s] = Work'[s]]
      /\ Rights' = [Rights EXCEPT ![s] = Rights'[s]]
  BY <1>1, <1>4, OthersUnseen DEF WorldInOrder
<1>6. Reported[s] # "RECOVERING"
  BY <1>1, SeenOfOne
<1>7. Reported'[s] = ended.health
  BY <1>1, <1>3 DEF Reported, Health
<1>8. Incarnation'[s] = NextEpoch(Incarnation[s])
  BY <1>1, <1>2, <1>3 DEF Incarnation
<1>9. Left[s] = spare /\ Left'[s] = ended.restart_budget - ended.restart_used
  BY <1>1 DEF Left
<1>10. Work'[s] = {} /\ Rights'[s] = {}
  <2>1. Work'[s] = {}
    BY <1>4 DEF Work
  <2>2. Rights'[s] = {}
    BY <1>1, <1>3 DEF Rights, CapCheck
  <2>3. QED
    BY <2>1, <2>2
<1>11. Contract!Settled(s)
  <2>1. CASE spare > 0
    BY <1>3, <1>5, <1>7, <1>9, <2>1 DEF Contract!Settled
  <2>2. CASE spare = 0
    <3>1. Left = [t \in Service |-> Left[t]]
      BY DEF Left
    <3>2. Left' = Left
      BY <1>3, <1>5, <1>9, <2>2, <3>1, UnchangedAtOne
    <3>3. QED
      BY <1>3, <1>5, <1>7, <1>9, <2>2, <3>2 DEF Contract!Settled
  <2>3. QED
    BY <1>3, <2>1, <2>2
<1>12. QED
  BY <1>5, <1>6, <1>8, <1>10, <1>11 DEF Contract!Recover

\* An allocation is work taken: a slot that is free is nobody's work.
LEMMA TakeRefines ==
  ASSUME WorldInOrder, NEW s \in Service, AllocSlot(s)
  PROVE  \E i \in Slot : Contract!Take(s, i)
<1>1. PICK i \in Slot :
        /\ FirstFree(i)
        /\ slots' = [slots EXCEPT ![i] =
             [in_use |-> TRUE, owner |-> s, epoch |-> services[s].epoch]]
  BY DEF AllocSlot
<1>2. /\ services' = services /\ Live(s)
      /\ slots'[i].in_use /\ slots'[i].owner = s /\ slots'[i].epoch = services[s].epoch
      /\ \A j \in Slot \ {i} : slots'[j] = slots[j]
  BY <1>1 DEF AllocSlot, WorldInOrder, WorldType
<1>3. \A t \in Service : i \notin Work[t]
  BY <1>1 DEF FirstFree, Work, Owns
<1>4. Contract!Usable(s)
  BY <1>2, SeenOfOne DEF Contract!Usable
<1>5. i \in Slot \ Contract!Held
  BY <1>3 DEF Contract!Held
<1>6. \A t \in Service : Work'[t] = IF t = s THEN Work[t] \cup {i} ELSE Work[t]
  <2> SUFFICES ASSUME NEW t \in Service, NEW j \in Slot
               PROVE  j \in Work'[t] <=> j \in Work[t] \/ (t = s /\ j = i)
    BY DEF Work
  <2>1. CASE j = i
    BY <1>2, <1>3, <2>1 DEF Work, Owns, Deliverable, Live
  <2>2. CASE j # i
    BY <1>2, <2>2 DEF Work, Owns, Deliverable
  <2>3. QED
    BY <2>1, <2>2
<1>7. Work' = [Work EXCEPT ![s] = @ \cup {i}]
  <2>1. Work = [t \in Service |-> Work[t]] /\ Work' = [t \in Service |-> Work'[t]]
    BY DEF Work
  <2>2. QED
    BY <1>6, <2>1
<1>8. Reported' = Reported /\ Incarnation' = Incarnation /\ Left' = Left /\ Rights' = Rights
  BY <1>2 DEF Reported, Health, Incarnation, Left, Rights, CapCheck, Live
<1>9. QED
  BY <1>4, <1>5, <1>7, <1>8 DEF Contract!Take

\* A slot cleared is work returned, if it was anybody's work.
LEMMA ReturnRefines ==
  ASSUME WorldInOrder, NEW i \in Slot, services' = services,
         slots' = [slots EXCEPT ![i] = FreeSlotRecord]
  PROVE  UNCHANGED Contract!vars \/ \E s \in Service : Contract!Return(s, i)
<1> DEFINE s == slots[i].owner
<1>1. /\ s \in Service
      /\ ~slots'[i].in_use
      /\ \A j \in Slot \ {i} : slots'[j] = slots[j]
  BY DEF WorldInOrder, WorldType, SlotRecord, FreeSlotRecord
<1>2. Reported' = Reported /\ Incarnation' = Incarnation /\ Left' = Left /\ Rights' = Rights
  BY DEF Reported, Health, Incarnation, Left, Rights, CapCheck, Live
<1>3. \A t \in Service : Work'[t] = IF t = s THEN Work[t] \ {i} ELSE Work[t]
  <2> SUFFICES ASSUME NEW t \in Service, NEW j \in Slot
               PROVE  j \in Work'[t] <=> j \in Work[t] /\ ~(t = s /\ j = i)
    BY DEF Work
  <2>1. CASE j = i
    BY <1>1, <2>1 DEF Work, Owns, Deliverable
  <2>2. CASE j # i
    BY <1>1, <2>2 DEF Work, Owns, Deliverable
  <2>3. QED
    BY <2>1, <2>2
<1>4. Work = [t \in Service |-> Work[t]] /\ Work' = [t \in Service |-> Work'[t]]
  BY DEF Work
<1>5. CASE i \in Work[s]
  <2>1. Work' = [Work EXCEPT ![s] = @ \ {i}]
    BY <1>1, <1>3, <1>4
  <2>2. QED
    BY <1>1, <1>2, <1>5, <2>1 DEF Contract!Return
<1>6. CASE i \notin Work[s]
  <2>1. \A t \in Service : Work'[t] = Work[t]
    BY <1>3, <1>6
  <2>2. Work' = Work
    BY <1>4, <2>1
  <2>3. QED
    BY <1>2, <2>2 DEF Contract!vars
<1>7. QED
  BY <1>5, <1>6

\* A lease granted to a live service is what it may use; one taken from another
\* service takes nothing.
LEMMA LeaseRefines ==
  ASSUME WorldInOrder, NEW s \in Service, NEW lease \in SUBSET Caps,
         services' = [services EXCEPT ![s].cap_lease = lease], slots' = slots
  PROVE  IF Live(s) THEN Contract!Grant(s) ELSE UNCHANGED Contract!vars
<1>1. /\ services'[s] = [services[s] EXCEPT !.cap_lease = lease]
      /\ \A t \in Service \ {s} : services'[t] = services[t]
  BY DEF WorldInOrder, WorldType
<1>2. services'[s].cap_lease = lease
  BY <1>1 DEF WorldInOrder, WorldType, ServiceRecord
<1>3. \A t \in Service :
        /\ services'[t].bound = services[t].bound
        /\ services'[t].recovering = services[t].recovering
        /\ services'[t].health = services[t].health
        /\ services'[t].epoch = services[t].epoch
        /\ services'[t].restart_used = services[t].restart_used
        /\ services'[t].restart_budget = services[t].restart_budget
  BY <1>1 DEF WorldInOrder, WorldType, ServiceRecord
<1>4. Reported' = Reported /\ Incarnation' = Incarnation /\ Left' = Left
  BY <1>3 DEF Reported, Health, Incarnation, Left
<1>5. Work' = Work
  BY <1>3 DEF Work, Owns, Deliverable, WorldInOrder, WorldType, SlotRecord
<1>6. Rights' = [Rights EXCEPT ![s] = Rights'[s]]
  BY <1>1, OthersUnseen DEF WorldInOrder
<1>7. CASE Live(s)
  <2>1. Rights'[s] = lease
    BY <1>2, <1>3, <1>7 DEF Rights, CapCheck, Live
  <2>2. Contract!Usable(s)
    BY <1>7, SeenOfOne DEF Contract!Usable
  <2>3. Rights' = [Rights EXCEPT ![s] = lease]
    BY <1>6, <2>1
  <2>4. QED
    BY <1>4, <1>5, <1>7, <2>2, <2>3 DEF Contract!Grant
<1>8. CASE ~Live(s)
  <2>1. Rights'[s] = Rights[s]
    BY <1>3, <1>8 DEF Rights, CapCheck, Live
  <2>2. Rights = [t \in Service |-> Rights[t]]
    BY DEF Rights
  <2>3. Rights' = Rights
    BY <1>6, <2>1, <2>2, UnchangedAtOne
  <2>4. QED
    BY <1>4, <1>5, <1>8, <2>3 DEF Contract!vars
<1>9. QED
  BY <1>7, <1>8

\* A slot passed on is work handed over, whole and in the receiver's epoch.
LEMMA HandOverRefines ==
  ASSUME WorldInOrder, NEW i \in Slot, NEW dest \in Service, NEW right \in Caps,
         Deliverable(i), CapCheck(slots[i].owner, {right}), CapCheck(dest, {right}),
         slots' = [slots EXCEPT ![i].owner = dest, ![i].epoch = services[dest].epoch],
         services' = services
  PROVE  \E s \in Service : Contract!HandOver(s, dest, i)
<1> DEFINE s == slots[i].owner
<1>1. /\ s \in Service /\ slots[i].in_use
      /\ slots'[i] = [slots[i] EXCEPT !.owner = dest, !.epoch = services[dest].epoch]
      /\ \A j \in Slot \ {i} : slots'[j] = slots[j]
  BY DEF WorldInOrder, WorldType, SlotRecord, Deliverable
<1>2. slots'[i].in_use /\ slots'[i].owner = dest /\ slots'[i].epoch = services[dest].epoch
  BY <1>1 DEF WorldInOrder, WorldType, SlotRecord
<1>3. Reported' = Reported /\ Incarnation' = Incarnation /\ Left' = Left /\ Rights' = Rights
  BY DEF Reported, Health, Incarnation, Left, Rights, CapCheck, Live
<1>4. i \in Work[s] /\ Rights[s] # {} /\ Rights[dest] # {}
  <2>1. i \in Work[s]
    BY <1>1 DEF Work, Owns
  <2>2. right \in Rights[s] /\ right \in Rights[dest]
    BY <1>1 DEF Rights
  <2>3. QED
    BY <2>1, <2>2
<1>5. \A t \in Service :
        Work'[t] = CASE t = dest -> Work[t] \cup {i}
                     [] t # dest -> Work[t] \ {i}
  <2> SUFFICES ASSUME NEW t \in Service, NEW j \in Slot
               PROVE  j \in Work'[t] <=> IF j = i THEN t = dest ELSE j \in Work[t]
    BY DEF Work
  <2>1. CASE j = i
    <3>1. services[dest].bound /\ ~services[dest].recovering
      BY DEF CapCheck, Live
    <3>2. QED
      BY <1>2, <2>1, <3>1 DEF Work, Owns, Deliverable
  <2>2. CASE j # i
    BY <1>1, <2>2 DEF Work, Owns, Deliverable
  <2>3. QED
    BY <2>1, <2>2
<1>6. \A t \in Service : t # s => i \notin Work[t]
  BY DEF Work, Owns
<1>7. Work' = [Work EXCEPT ![s] = @ \ {i}, ![dest] = @ \cup {i}]
  <2>1. Work = [t \in Service |-> Work[t]] /\ Work' = [t \in Service |-> Work'[t]]
    BY DEF Work
  <2>2. \A t \in Service : t # s /\ t # dest => Work'[t] = Work[t]
    BY <1>5, <1>6
  <2>3. s # dest => Work'[s] = Work[s] \ {i} /\ Work'[dest] = Work[dest] \cup {i}
    BY <1>1, <1>5
  <2>4. s = dest => Work'[s] = (Work[s] \ {i}) \cup {i}
    BY <1>1, <1>5
  <2>5. CASE s = dest
    BY <1>1, <2>1, <2>2, <2>4, <2>5
  <2>6. CASE s # dest
    BY <1>1, <2>1, <2>2, <2>3, <2>6
  <2>7. QED
    BY <2>5, <2>6
<1>8. QED
  BY <1>1, <1>3, <1>4, <1>7 DEF Contract!HandOver

=============================================================================
