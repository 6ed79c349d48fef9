---------------------------- MODULE KernelProofs ----------------------------
(***************************************************************************)
(* Theorems about Kernel, for every number of services and slots.          *)
(***************************************************************************)
EXTENDS Kernel, WorldProofs

USE ServiceCountAssumption, SlotCountAssumption, BudgetMaxAssumption, EpochSpanAssumption

-----------------------------------------------------------------------------
(* The inductive invariant.                                                *)

\* Between two calls no admit is under way: sys_admit runs to its end, and has
\* spent no more than the budget.
NoneRecovering ==
  \A s \in Service :
    /\ ~services[s].recovering
    /\ services[s].health # "RECOVERING"
    /\ services[s].restart_used <= services[s].restart_budget

\* A slot in use belongs to a service that is bound, has not failed, and is in
\* the epoch of the slot unless it was rebound.
SlotHeld(i) ==
  LET owner == services[slots[i].owner]
  IN  owner.bound /\ owner.health # "FAILED" /\ (slots[i].epoch = owner.epoch \/ owner.epoch = 1)

PoolHeld == \A i \in Slot : slots[i].in_use => SlotHeld(i)

\* The scan has yet to go over Distance(next_service, s) services before it
\* reaches s, and each of them can pass s by once.
BypassIsPaidFor ==
  \A s \in Service : bypassed[s] + Distance(next_service, s) <= ServiceCount - 1

IInv ==
  /\ TypeOK
  /\ NoneRecovering
  /\ PoolHeld
  /\ FreeSlotIsClear
  /\ BypassIsPaidFor

-----------------------------------------------------------------------------
(* The scheduler.                                                          *)

\* A scan from start looks at each service after fewer than ServiceCount others.
LEMMA DistanceType ==
  ASSUME NEW start \in Service, NEW s \in Service
  PROVE  Distance(start, s) \in 0 .. ServiceCount - 1
BY DEF Distance, Service

\* Moving the start of the scan behind a service it has reached shortens its way
\* to every service that comes later.
LEMMA DistanceShrinks ==
  ASSUME NEW start \in Service, NEW s \in Service, NEW t \in Service,
         Distance(start, s) < Distance(start, t)
  PROVE  Distance(After(s), t) + 1 <= Distance(start, t)
BY DEF Distance, After, Service

\* Two services are never at the same distance.
LEMMA DistanceInjective ==
  ASSUME NEW start \in Service, NEW s \in Service, NEW t \in Service,
         Distance(start, s) = Distance(start, t)
  PROVE  s = t
BY DEF Distance, Service

LEMMA DispatchInv ==
  ASSUME IInv, NEW s \in Service, SchedDispatch(s)
  PROVE  IInv'
<1> USE DEF IInv
<1>1. /\ services' = services /\ slots' = slots /\ evidence' = evidence
      /\ msgs' = msgs /\ ticks' = ticks /\ panic_reason' = panic_reason
      /\ next_service' = After(s)
      /\ bypassed' = [t \in Service |->
           IF t = s \/ ~Runnable(t) THEN 0 ELSE OneMore(bypassed[t])]
  BY DEF SchedDispatch, worldVars
<1>2. After(s) \in Service
  BY DEF After, Service
<1>3. TypeOK'
  <2>1. \A t \in Service : OneMore(bypassed[t]) \in 0 .. ServiceCount
    BY DEF OneMore, TypeOK
  <2>2. 0 \in 0 .. ServiceCount
    OBVIOUS
  <2>3. bypassed' \in [Service -> 0 .. ServiceCount]
    BY <1>1, <2>1, <2>2
  <2>4. QED
    BY <1>1, <1>2, <2>3 DEF TypeOK, WorldType
<1>4. NoneRecovering' /\ PoolHeld' /\ FreeSlotIsClear'
  BY <1>1 DEF NoneRecovering, PoolHeld, SlotHeld, FreeSlotIsClear
<1>5. BypassIsPaidFor'
  <2> SUFFICES ASSUME NEW t \in Service
               PROVE  bypassed'[t] + Distance(next_service', t) <= ServiceCount - 1
    BY DEF BypassIsPaidFor
  <2>1. Distance(After(s), t) \in 0 .. ServiceCount - 1
    BY <1>2, DistanceType
  <2>2. CASE t = s \/ ~Runnable(t)
    <3>1. bypassed'[t] = 0
      BY <1>1, <2>2
    <3>2. QED
      BY <1>1, <2>1, <3>1
  <2>3. CASE t # s /\ Runnable(t)
    <3>1. /\ next_service \in Service
          /\ Distance(next_service, s) \in Nat
          /\ Distance(next_service, t) \in Nat
      BY DistanceType DEF TypeOK
    <3>2. ~(Distance(next_service, t) < Distance(next_service, s))
      BY <2>3 DEF SchedDispatch, FirstRunnable
    <3>3. Distance(next_service, s) < Distance(next_service, t)
      BY <2>3, <3>1, <3>2, DistanceInjective
    <3>4. Distance(After(s), t) + 1 <= Distance(next_service, t)
      BY <3>1, <3>3, DistanceShrinks
    <3>5. bypassed'[t] <= bypassed[t] + 1 /\ bypassed'[t] \in Nat
      BY <1>1, <2>3 DEF OneMore, TypeOK
    <3>6. bypassed[t] \in Nat /\ bypassed[t] + Distance(next_service, t) <= ServiceCount - 1
      BY DEF BypassIsPaidFor, TypeOK
    <3>7. QED
      BY <1>1, <2>1, <3>1, <3>4, <3>5, <3>6
  <2>4. QED
    BY <2>2, <2>3
<1>6. QED
  BY <1>3, <1>4, <1>5

-----------------------------------------------------------------------------
(* The system calls.                                                       *)

\* A call that leaves the scheduler's variables alone keeps what is about them.
LEMMA SchedulerUntouched ==
  ASSUME IInv, ticks' = ticks, next_service' = next_service, panic_reason' = panic_reason,
         bypassed' = bypassed, WorldType', msgs' \in [Slot -> MsgRecord]
  PROVE  TypeOK' /\ BypassIsPaidFor'
BY DEF IInv, TypeOK, BypassIsPaidFor

LEMMA SysBindInv ==
  ASSUME IInv, NEW s \in Service, NEW budget \in 1 .. BudgetMax, NEW lease \in SUBSET Caps,
         SysBind(s, budget, lease)
  PROVE  IInv'
<1> USE DEF IInv
<1>1. /\ slots' = slots /\ msgs' = msgs /\ ticks' = ticks /\ next_service' = next_service
      /\ panic_reason' = panic_reason /\ bypassed' = bypassed
      /\ Bind(s, budget, lease)
  BY DEF SysBind, Bind, kernelVars
<1>2. WorldType'
  BY <1>1, BindType DEF TypeOK
<1>3. TypeOK' /\ BypassIsPaidFor'
  BY <1>1, <1>2, SchedulerUntouched DEF TypeOK
<1>4. /\ services'[s].bound /\ ~services'[s].recovering /\ services'[s].health = "OK"
      /\ services'[s].epoch = 1
      /\ \A t \in Service : t # s => services'[t] = services[t]
  BY <1>1 DEF Bind, TypeOK, WorldType
<1>5. NoneRecovering' /\ FreeSlotIsClear'
  <2>1. services'[s].restart_used = 0 /\ services'[s].restart_budget = budget
    BY <1>1 DEF Bind, TypeOK, WorldType
  <2>2. QED
    BY <1>1, <1>4, <2>1 DEF NoneRecovering, FreeSlotIsClear
<1>6. PoolHeld'
  BY <1>1, <1>4 DEF PoolHeld, SlotHeld, TypeOK, WorldType, SlotRecord
<1>7. QED
  BY <1>3, <1>5, <1>6

LEMMA ClearedMsgsType ==
  ASSUME msgs \in [Slot -> MsgRecord] PROVE ClearMsg \in MsgRecord
BY DEF ClearMsg, MsgRecord, Service

LEMMA SysAdmitInv ==
  ASSUME IInv, NEW s \in Service, NEW reason, SysAdmit(s, reason)
  PROVE  IInv'
<1> USE DEF IInv
<1>1. /\ ticks' = ticks /\ next_service' = next_service
      /\ panic_reason' = panic_reason /\ bypassed' = bypassed
      /\ msgs' = [i \in Slot |-> IF slots'[i].in_use THEN msgs[i] ELSE ClearMsg]
  BY DEF SysAdmit, schedVars, ClearUnusedMsgs
<1>2. msgs' \in [Slot -> MsgRecord]
  BY <1>1, ClearedMsgsType DEF TypeOK
<1>3. FreeSlotIsClear'
  BY <1>1 DEF FreeSlotIsClear
<1>4. CASE Admit(s, reason)
  <2>1. reason \in AdmitReasons
    BY <1>4 DEF Admit
  <2>2. WorldType'
    BY <1>4, <2>1, AdmitType DEF TypeOK
  <2>3. TypeOK' /\ BypassIsPaidFor'
    BY <1>1, <1>2, <2>2, SchedulerUntouched
  <2>4. /\ \A t \in Service : t # s => services'[t] = services[t]
        /\ slots' = SlotsReclaimed(s)
    BY <1>4 DEF Admit, TypeOK, WorldType
  <2>5. /\ ~services'[s].recovering /\ services'[s].health # "RECOVERING"
        /\ services'[s].restart_used <= services'[s].restart_budget
    <3> DEFINE begun   == AdmitBegun(services[s])
               outcome == AdmitOutcome(begun, reason)
    <3>1. begun \in ServiceRecord
      BY BegunType DEF TypeOK, WorldType
    <3>2. /\ begun.restart_used = services[s].restart_used
          /\ begun.restart_budget = services[s].restart_budget
      BY DEF AdmitBegun, TypeOK, WorldType, ServiceRecord
    <3>3. begun.restart_used <= begun.restart_budget
      BY <3>2 DEF NoneRecovering
    <3>4. services'[s] = AdmitEnded(begun, outcome)
      BY <1>4 DEF Admit, TypeOK, WorldType
    <3>5. outcome \in {"FAILED", "BACKOFF", "RESTART"}
      BY <3>1, OutcomeType
    <3> HIDE DEF begun
    <3>6. ~services'[s].recovering /\ services'[s].health # "RECOVERING"
      BY <3>1, <3>4, <3>5 DEF AdmitEnded, HealthAfter, ServiceRecord
    <3>7. services'[s].restart_used <= services'[s].restart_budget
      <4>1. services'[s].restart_budget = begun.restart_budget
        BY <3>1, <3>4 DEF AdmitEnded, ServiceRecord
      <4>2. begun.restart_used \in Nat /\ begun.restart_budget \in Nat
        BY <3>1 DEF ServiceRecord
      <4>3. outcome # "FAILED" => begun.restart_used < begun.restart_budget
        BY <4>2 DEF AdmitOutcome
      <4>4. services'[s].restart_used =
              IF outcome = "FAILED" THEN begun.restart_used ELSE begun.restart_used + 1
        BY <3>1, <3>4 DEF AdmitEnded, ServiceRecord
      <4>5. QED
        BY <3>3, <4>1, <4>2, <4>3, <4>4
    <3>8. QED
      BY <3>6, <3>7
  <2>6. NoneRecovering'
    BY <2>4, <2>5 DEF NoneRecovering
  <2>7. \A i \in Slot : slots'[i].in_use => slots'[i] = slots[i] /\ slots[i].owner # s
    BY <2>4 DEF SlotsReclaimed, FreeSlotRecord, Owns
  <2>8. PoolHeld'
    BY <2>4, <2>7 DEF PoolHeld, SlotHeld, TypeOK, WorldType, SlotRecord
  <2>9. QED
    BY <1>3, <2>3, <2>6, <2>8
<1>5. CASE AdmitRefused(s, reason)
  <2>1. WorldType'
    BY <1>5, RefusedType DEF TypeOK
  <2>2. TypeOK' /\ BypassIsPaidFor'
    BY <1>1, <1>2, <2>1, SchedulerUntouched
  <2>3. services' = services /\ slots' = slots
    BY <1>5 DEF AdmitRefused
  <2>4. NoneRecovering' /\ PoolHeld'
    BY <2>3 DEF NoneRecovering, PoolHeld, SlotHeld
  <2>5. QED
    BY <1>3, <2>2, <2>4
<1>6. QED
  BY <1>4, <1>5 DEF SysAdmit

LEMMA SysAllocInv ==
  ASSUME IInv, NEW s \in Service, SysAlloc(s)
  PROVE  IInv'
<1> USE DEF IInv
<1>1. /\ ticks' = ticks /\ next_service' = next_service
      /\ panic_reason' = panic_reason /\ bypassed' = bypassed
      /\ msgs' = [i \in Slot |-> IF slots'[i] = slots[i] THEN msgs[i] ELSE ClearMsg]
      /\ services' = services
      /\ AllocSlot(s)
  BY DEF SysAlloc, schedVars, AllocSlot
<1>2. PICK i \in Slot :
        slots' = [slots EXCEPT ![i] = [in_use |-> TRUE, owner |-> s, epoch |-> services[s].epoch]]
  BY <1>1 DEF AllocSlot
<1>3. /\ slots'[i] = [in_use |-> TRUE, owner |-> s, epoch |-> services[s].epoch]
      /\ \A j \in Slot : j # i => slots'[j] = slots[j]
  BY <1>2 DEF TypeOK, WorldType
<1>4. TypeOK' /\ BypassIsPaidFor'
  <2>1. WorldType'
    BY <1>1, AllocType DEF TypeOK
  <2>2. msgs' \in [Slot -> MsgRecord]
    BY <1>1, ClearedMsgsType DEF TypeOK
  <2>3. QED
    BY <1>1, <2>1, <2>2, SchedulerUntouched
<1>5. NoneRecovering' /\ FreeSlotIsClear'
  BY <1>1, <1>3 DEF NoneRecovering, FreeSlotIsClear
<1>6. PoolHeld'
  BY <1>1, <1>3 DEF PoolHeld, SlotHeld, AllocSlot, Live
<1>7. QED
  BY <1>4, <1>5, <1>6

LEMMA SysSendInv ==
  ASSUME IInv, NEW i \in Slot, NEW dest \in Service, SysSend(i, dest)
  PROVE  IInv'
<1> USE DEF IInv
<1>1. /\ ticks' = ticks /\ next_service' = next_service
      /\ panic_reason' = panic_reason /\ bypassed' = bypassed
      /\ services' = services /\ evidence' = evidence
      /\ msgs' = [msgs EXCEPT ![i] =
           [queued |-> TRUE, sender |-> slots[i].owner, written |-> TRUE]]
      /\ slots' = [slots EXCEPT ![i].owner = dest, ![i].epoch = services[dest].epoch]
      /\ slots[i].in_use /\ Live(dest)
  BY DEF SysSend, Sent, schedVars, Deliverable
<1>2. slots[i] \in SlotRecord /\ services[dest] \in ServiceRecord
  BY DEF TypeOK, WorldType
<1>3. /\ slots'[i] = [slots[i] EXCEPT !.owner = dest, !.epoch = services[dest].epoch]
      /\ \A j \in Slot : j # i => slots'[j] = slots[j] /\ msgs'[j] = msgs[j]
  BY <1>1 DEF TypeOK, WorldType
<1>4. slots'[i].in_use /\ slots'[i].owner = dest /\ slots'[i].epoch = services[dest].epoch
  <2>1. slots'[i].in_use = slots[i].in_use
    BY <1>2, <1>3 DEF SlotRecord
  <2>2. slots'[i].owner = dest
    BY <1>2, <1>3 DEF SlotRecord
  <2>3. slots'[i].epoch = services[dest].epoch
    BY <1>2, <1>3 DEF SlotRecord
  <2>4. QED
    BY <1>1, <2>1, <2>2, <2>3
<1>5. TypeOK' /\ BypassIsPaidFor'
  <2>1. slots'[i] \in SlotRecord
    BY <1>2, <1>3 DEF SlotRecord, ServiceRecord
  <2>2. slots' \in [Slot -> SlotRecord]
    BY <1>1, <1>3, <2>1 DEF TypeOK, WorldType
  <2>3. WorldType'
    BY <1>1, <2>2 DEF TypeOK, WorldType
  <2>4. msgs' \in [Slot -> MsgRecord]
    BY <1>1, <1>2 DEF TypeOK, MsgRecord, SlotRecord
  <2>5. QED
    BY <1>1, <2>3, <2>4, SchedulerUntouched
<1>6. NoneRecovering' /\ FreeSlotIsClear'
  BY <1>1, <1>3, <1>4 DEF NoneRecovering, FreeSlotIsClear
<1>7. PoolHeld'
  <2>1. SlotHeld(i)'
    BY <1>1, <1>4 DEF SlotHeld, Live
  <2>2. ASSUME NEW j \in Slot, j # i, slots'[j].in_use PROVE SlotHeld(j)'
    <3>1. slots'[j] = slots[j]
      BY <1>3, <2>2
    <3>2. SlotHeld(j)
      BY <2>2, <3>1 DEF PoolHeld
    <3>3. services' = services
      BY <1>1
    <3>4. QED
      BY <3>1, <3>2, <3>3 DEF SlotHeld
  <2>3. QED
    BY <2>1, <2>2 DEF PoolHeld
<1>8. QED
  BY <1>5, <1>6, <1>7

LEMMA SysRecvInv ==
  ASSUME IInv, NEW s \in Service, SysRecv(s)
  PROVE  IInv'
<1> USE DEF IInv
<1>1. /\ ticks' = ticks /\ next_service' = next_service
      /\ panic_reason' = panic_reason /\ bypassed' = bypassed
      /\ services' = services /\ evidence' = evidence /\ slots' = slots
  BY DEF SysRecv, schedVars, worldVars
<1>2. PICK i \in Slot : Receivable(s, i) /\ msgs' = [msgs EXCEPT ![i].queued = FALSE]
  BY DEF SysRecv
<1>3. slots[i].in_use
  BY <1>2 DEF Receivable, Deliverable
<1>4. TypeOK' /\ BypassIsPaidFor'
  <2>1. msgs' \in [Slot -> MsgRecord]
    BY <1>2 DEF TypeOK, MsgRecord
  <2>2. QED
    BY <1>1, <2>1, SchedulerUntouched DEF TypeOK, WorldType
<1>5. FreeSlotIsClear'
  BY <1>1, <1>2, <1>3 DEF FreeSlotIsClear, TypeOK
<1>6. NoneRecovering' /\ PoolHeld'
  BY <1>1 DEF NoneRecovering, PoolHeld, SlotHeld
<1>7. QED
  BY <1>4, <1>5, <1>6

LEMMA SysFreeInv ==
  ASSUME IInv, NEW i \in Slot, SysFree(i)
  PROVE  IInv'
<1> USE DEF IInv
<1>1. /\ ticks' = ticks /\ next_service' = next_service
      /\ panic_reason' = panic_reason /\ bypassed' = bypassed
      /\ services' = services /\ FreeSlot(i)
      /\ msgs' = [msgs EXCEPT ![i] = ClearMsg]
  BY DEF SysFree, schedVars, FreeSlot
<1>2. ~slots'[i].in_use /\ \A j \in Slot : j # i => slots'[j] = slots[j]
  BY <1>1 DEF FreeSlot, FreeSlotRecord, TypeOK, WorldType
<1>3. TypeOK' /\ BypassIsPaidFor'
  <2>1. WorldType'
    BY <1>1, FreeType DEF TypeOK
  <2>2. msgs' \in [Slot -> MsgRecord]
    BY <1>1, ClearedMsgsType DEF TypeOK
  <2>3. QED
    BY <1>1, <2>1, <2>2, SchedulerUntouched
<1>4. FreeSlotIsClear'
  BY <1>1, <1>2 DEF FreeSlotIsClear, TypeOK
<1>5. NoneRecovering' /\ PoolHeld'
  BY <1>1, <1>2 DEF NoneRecovering, PoolHeld, SlotHeld
<1>6. QED
  BY <1>3, <1>4, <1>5

\* sys_grant and sys_revoke.
LEMMA LeaseInv ==
  ASSUME IInv, NEW s \in Service, NEW lease \in SUBSET Caps,
         services' = [services EXCEPT ![s].cap_lease = lease],
         slots' = slots, evidence' = evidence, UNCHANGED kernelVars
  PROVE  IInv'
<1> USE DEF IInv, kernelVars
<1>1. \A t \in Service :
        /\ services'[t].bound = services[t].bound
        /\ services'[t].recovering = services[t].recovering
        /\ services'[t].health = services[t].health
        /\ services'[t].epoch = services[t].epoch
        /\ services'[t].restart_used = services[t].restart_used
        /\ services'[t].restart_budget = services[t].restart_budget
  BY DEF TypeOK, WorldType, ServiceRecord
<1>2. TypeOK' /\ BypassIsPaidFor'
  <2>1. WorldType'
    BY DEF TypeOK, WorldType, ServiceRecord
  <2>2. QED
    BY <2>1, SchedulerUntouched DEF TypeOK
<1>3. NoneRecovering' /\ FreeSlotIsClear'
  BY <1>1 DEF NoneRecovering, FreeSlotIsClear
<1>4. PoolHeld'
  BY <1>1 DEF PoolHeld, SlotHeld, TypeOK, WorldType, SlotRecord
<1>5. QED
  BY <1>2, <1>3, <1>4

-----------------------------------------------------------------------------
(* The remaining actions.                                                  *)

LEMMA WritePayloadInv ==
  ASSUME IInv, NEW i \in Slot, WritePayload(i)
  PROVE  IInv'
<1> USE DEF IInv
<1>1. /\ ticks' = ticks /\ next_service' = next_service
      /\ panic_reason' = panic_reason /\ bypassed' = bypassed
      /\ services' = services /\ evidence' = evidence /\ slots' = slots
      /\ slots[i].in_use /\ msgs' = [msgs EXCEPT ![i].written = TRUE]
  BY DEF WritePayload, schedVars, worldVars
<1>2. TypeOK' /\ BypassIsPaidFor'
  <2>1. msgs' \in [Slot -> MsgRecord]
    BY <1>1 DEF TypeOK, MsgRecord
  <2>2. QED
    BY <1>1, <2>1, SchedulerUntouched DEF TypeOK, WorldType
<1>3. FreeSlotIsClear'
  BY <1>1 DEF FreeSlotIsClear, TypeOK
<1>4. NoneRecovering' /\ PoolHeld'
  BY <1>1 DEF NoneRecovering, PoolHeld, SlotHeld
<1>5. QED
  BY <1>2, <1>3, <1>4

LEMMA SetTickInv ==
  ASSUME IInv, NEW s \in Service, NEW set \in BOOLEAN, SetTick(s, set)
  PROVE  IInv'
BY DEF IInv, SetTick, worldVars, TypeOK, WorldType, NoneRecovering, PoolHeld, SlotHeld,
       FreeSlotIsClear, BypassIsPaidFor

LEMMA PanicInv ==
  ASSUME IInv, NEW reason \in PanicReasons \ {"NONE"}, Panic(reason)
  PROVE  IInv'
BY DEF IInv, Panic, worldVars, TypeOK, WorldType, NoneRecovering, PoolHeld, SlotHeld,
       FreeSlotIsClear, BypassIsPaidFor

LEMMA StutterInv == ASSUME IInv, UNCHANGED vars PROVE IInv'
BY DEF IInv, vars, TypeOK, WorldType, NoneRecovering, PoolHeld, SlotHeld,
       FreeSlotIsClear, BypassIsPaidFor

-----------------------------------------------------------------------------
(* The theorems.                                                           *)

LEMMA InitInv == Init => IInv
<1> SUFFICES ASSUME Init PROVE IInv
  OBVIOUS
<1>1. 0 \in Service /\ 0 \in 0 .. ServiceCount
  BY DEF Service
<1>2. TypeOK
  <2>1. WorldType
    BY WorldInitType DEF Init
  <2>2. msgs \in [Slot -> MsgRecord]
    BY <1>1 DEF Init, ClearMsg, MsgRecord
  <2>3. QED
    BY <1>1, <2>1, <2>2 DEF Init, TypeOK, PanicReasons
<1>3. NoneRecovering /\ PoolHeld /\ FreeSlotIsClear
  BY DEF Init, WorldInit, UnboundService, FreeSlotRecord, NoneRecovering, PoolHeld, FreeSlotIsClear
<1>4. BypassIsPaidFor
  BY <1>1, DistanceType DEF Init, BypassIsPaidFor
<1>5. QED
  BY <1>2, <1>3, <1>4 DEF IInv

LEMMA SysCallInv == ASSUME IInv, SysCall PROVE IInv'
<1>1. ASSUME NEW s \in Service, NEW lease \in SUBSET Caps, SysGrant(s, lease) PROVE IInv'
  BY <1>1, LeaseInv DEF SysGrant, CapGrant
<1>2. ASSUME NEW s \in Service, SysRevoke(s) PROVE IInv'
  <2>1. {} \in SUBSET Caps
    OBVIOUS
  <2>2. QED
    BY <1>2, <2>1, LeaseInv DEF SysRevoke, CapRevoke
<1>3. ASSUME NEW s \in Service, NEW reason, SysAdmit(s, reason) PROVE IInv'
  BY <1>3, SysAdmitInv
<1>4. QED
  BY <1>1, <1>2, <1>3, SysBindInv, SysAllocInv, SysSendInv, SysRecvInv, SysFreeInv DEF SysCall

\* Every reachable state of Kernel satisfies the inductive invariant.
THEOREM InductiveInvariant == Spec => []IInv
<1>1. ASSUME IInv, [Next]_vars PROVE IInv'
  BY <1>1, SysCallInv, DispatchInv, WritePayloadInv, SetTickInv, PanicInv, StutterInv
     DEF Next, SchedStep
<1>2. IInv /\ [Next]_vars => IInv'
  BY <1>1
<1>3. QED
  BY InitInv, <1>2, PTL DEF Spec

\* The kernel's fields keep the types kernel.h declares.
THEOREM TypeCorrect == Spec => []TypeOK
<1>1. IInv => TypeOK
  BY DEF IInv
<1>2. QED
  BY <1>1, InductiveInvariant, PTL

\* No slot of the pool holds anything of a message it carried before.
THEOREM PoolIsClean == Spec => []FreeSlotIsClear
<1>1. IInv => FreeSlotIsClear
  BY DEF IInv
<1>2. QED
  BY <1>1, InductiveInvariant, PTL

\* A queued message always has a live receiver that can still take it, unless the
\* receiver was rebound under it.
THEOREM QueuedMessagesHaveReceivers == Spec => []QueuedHasReceiver
<1>1. IInv => QueuedHasReceiver
  <2> SUFFICES ASSUME IInv, NEW i \in Slot, msgs[i].queued
               PROVE  /\ slots[i].in_use
                      /\ services[slots[i].owner].bound
                      /\ services[slots[i].owner].health # "FAILED"
                      /\ Deliverable(i) \/ services[slots[i].owner].epoch = 1
    BY DEF QueuedHasReceiver
  <2>1. slots[i].in_use
    BY DEF IInv, FreeSlotIsClear, ClearMsg
  <2>2. SlotHeld(i) /\ slots[i].owner \in Service
    BY <2>1 DEF IInv, PoolHeld, TypeOK, WorldType, SlotRecord
  <2>3. QED
    BY <2>1, <2>2 DEF IInv, SlotHeld, Deliverable, NoneRecovering
<1>2. QED
  BY <1>1, InductiveInvariant, PTL

\* For any number of services, the round-robin scan passes a runnable service by
\* at most once for every other service before it dispatches it.
THEOREM BoundedBypass == Spec => []RoundRobinBound
<1>1. IInv => RoundRobinBound
  <2> SUFFICES ASSUME IInv, NEW s \in Service PROVE bypassed[s] <= ServiceCount - 1
    BY DEF RoundRobinBound
  <2>1. Distance(next_service, s) \in 0 .. ServiceCount - 1
    BY DistanceType DEF IInv, TypeOK
  <2>2. bypassed[s] \in Nat /\ bypassed[s] + Distance(next_service, s) <= ServiceCount - 1
    BY DEF IInv, TypeOK, BypassIsPaidFor
  <2>3. QED
    BY <2>1, <2>2
<1>2. QED
  BY <1>1, InductiveInvariant, PTL

-----------------------------------------------------------------------------
(* The refinement: what users see of the system calls.                     *)

\* The invariant gives every step what the refinement lemmas ask for.
LEMMA InOrder == ASSUME IInv PROVE WorldInOrder
<1>1. HealthInOrder
  BY DEF IInv, NoneRecovering, HealthInOrder
<1>2. PoolInOrder
  BY DEF IInv, PoolHeld, SlotHeld, PoolInOrder
<1>3. QED
  BY <1>1, <1>2 DEF IInv, TypeOK, WorldInOrder

\* The system calls: an admit is a whole recovery, a send hands work over.
LEMMA SysCallRefines ==
  ASSUME IInv, SysCall
  PROVE  Contract!Next \/ UNCHANGED Contract!vars
<1>1. WorldInOrder
  BY InOrder
<1>2. ASSUME NEW s \in Service, NEW budget \in 1 .. BudgetMax, NEW lease \in SUBSET Caps,
             SysBind(s, budget, lease)
      PROVE  Contract!Next
  BY <1>1, <1>2, BindRefines DEF SysBind, Contract!Next
<1>3. ASSUME NEW s \in Service, NEW reason, SysAdmit(s, reason)
      PROVE  Contract!Next \/ UNCHANGED Contract!vars
  <2>1. CASE Admit(s, reason)
    BY <1>1, <2>1, RecoverRefines DEF Contract!Next
  <2>2. CASE AdmitRefused(s, reason)
    BY <2>2, WorldUnseen DEF AdmitRefused
  <2>3. QED
    BY <1>3, <2>1, <2>2 DEF SysAdmit
<1>4. ASSUME NEW s \in Service, SysAlloc(s) PROVE Contract!Next
  BY <1>1, <1>4, TakeRefines DEF SysAlloc, Contract!Next
<1>5. ASSUME NEW dest \in Service, NEW i \in Slot, SysSend(i, dest) PROVE Contract!Next
  <2>1. /\ Deliverable(i) /\ CapCheck(slots[i].owner, {MsgCap}) /\ CapCheck(dest, {MsgCap})
        /\ slots' = [slots EXCEPT ![i].owner = dest, ![i].epoch = services[dest].epoch]
        /\ services' = services
    BY <1>5 DEF SysSend, Sent
  <2>2. \E s \in Service : Contract!HandOver(s, dest, i)
    BY <1>1, <2>1, HandOverRefines, MsgCapAssumption
  <2>3. QED
    BY <2>2 DEF Contract!Next
<1>6. ASSUME NEW s \in Service, SysRecv(s) PROVE UNCHANGED Contract!vars
  BY <1>6, WorldUnseen DEF SysRecv, worldVars
<1>7. ASSUME NEW s \in Service, NEW lease \in SUBSET Caps, SysGrant(s, lease)
      PROVE  Contract!Next
  <2>1. Contract!Grant(s)
    BY <1>1, <1>7, LeaseRefines DEF SysGrant, CapGrant
  <2>2. QED
    BY <2>1 DEF Contract!Next
<1>8. ASSUME NEW s \in Service, SysRevoke(s)
      PROVE  Contract!Next \/ UNCHANGED Contract!vars
  <2>1. {} \in SUBSET Caps
    OBVIOUS
  <2>2. Contract!Grant(s) \/ UNCHANGED Contract!vars
    BY <1>1, <1>8, <2>1, LeaseRefines DEF SysRevoke, CapRevoke
  <2>3. QED
    BY <2>2 DEF Contract!Next
<1>9. ASSUME NEW i \in Slot, SysFree(i)
      PROVE  Contract!Next \/ UNCHANGED Contract!vars
  <2>1. UNCHANGED Contract!vars \/ \E s \in Service : Contract!Return(s, i)
    BY <1>1, <1>9, ReturnRefines DEF SysFree, FreeSlot
  <2>2. QED
    BY <2>1 DEF Contract!Next
<1>10. QED
  BY <1>2, <1>3, <1>4, <1>5, <1>6, <1>7, <1>8, <1>9 DEF SysCall

\* The scheduler, the panics and the payloads show nothing.
LEMMA NextRefines ==
  ASSUME IInv, [Next]_vars
  PROVE  Contract!Next \/ UNCHANGED Contract!vars
<1>1. CASE SchedStep
  BY <1>1, WorldUnseen DEF SchedStep, SchedDispatch, worldVars
<1>2. ASSUME NEW i \in Slot, WritePayload(i) PROVE UNCHANGED Contract!vars
  BY <1>2, WorldUnseen DEF WritePayload, worldVars
<1>3. ASSUME NEW s \in Service, NEW set \in BOOLEAN, SetTick(s, set) PROVE UNCHANGED Contract!vars
  BY <1>3, WorldUnseen DEF SetTick, worldVars
<1>4. ASSUME NEW reason, Panic(reason) PROVE UNCHANGED Contract!vars
  BY <1>4, WorldUnseen DEF Panic, worldVars
<1>5. CASE UNCHANGED vars
  BY <1>5, WorldUnseen DEF vars
<1>6. QED
  BY <1>1, <1>2, <1>3, <1>4, <1>5, SysCallRefines DEF Next

\* The system calls keep the recovery world's promise: messages move work only
\* between two live services that hold the message capability, and a recovery
\* takes back what was sent to the service as well as what it allocated.
THEOREM ContractIsKept == Spec => ImplementsContract
<1>1. IInv /\ [Next]_vars => [Contract!Next]_(Contract!vars)
  BY NextRefines
<1>2. Init => Contract!Init
  BY WorldInitRefines DEF Init
<1>3. QED
  BY <1>1, <1>2, InductiveInvariant, PTL DEF Spec, ImplementsContract, Contract!Spec

=============================================================================
