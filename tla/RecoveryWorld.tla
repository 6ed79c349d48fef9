--------------------------- MODULE RecoveryWorld ---------------------------
(***************************************************************************)
(* The recovery world of kernel/recovery/recovery.c: a static table of     *)
(* services, a static pool of epoch-tagged message slots and one evidence  *)
(* record per service.  Each public operation is one action here; module   *)
(* Recovery takes cirvane_rtx_admit apart into its steps, and module       *)
(* Kernel wraps these actions into system calls.                           *)
(*                                                                         *)
(* Enumerations keep the source's names as strings; the value the source   *)
(* numbers 0 is what memzero leaves: health "OK", outcome "RESTART",       *)
(* reason "FAULT".  A capability lease (a bit mask) is the set of its bits.*)
(* Left out: evidence.reclaimed (a count nothing reads back) and           *)
(* world.last_outcome (written, never read).                               *)
(*                                                                         *)
(* An operator that no specification uses and that stands before one of    *)
(* almost the same name is a variant with a plausible bug: the properties  *)
(* are tested against it (README, "Mutants").                              *)
(***************************************************************************)
EXTENDS Integers

CONSTANTS
  ServiceCount,  \* CIRVANE_RTX_SERVICE_COUNT
  SlotCount,     \* CIRVANE_RTX_SLOT_COUNT
  BudgetMax,     \* CIRVANE_RTX_BUDGET_MAX
  EpochSpan,     \* 2^32: epochs and generations are uint32_t and wrap
  Caps           \* the bits of a capability lease

ASSUME ServiceCountAssumption == ServiceCount \in Nat \ {0}
ASSUME SlotCountAssumption == SlotCount \in Nat
ASSUME BudgetMaxAssumption == BudgetMax \in Nat \ {0}
ASSUME EpochSpanAssumption == EpochSpan \in Nat \ {0, 1}

VARIABLES
  services,  \* world.services
  slots,     \* world.slots
  evidence   \* world.evidence

worldVars == <<services, slots, evidence>>

Service == 0 .. ServiceCount - 1
Slot    == 0 .. SlotCount - 1
Epoch   == 0 .. EpochSpan - 1

Healths  == {"OK", "DEGRADED", "FAILED", "RECOVERING"}
Outcomes == {"RESTART", "BACKOFF", "FAILED", "REFUSED"}

\* The reasons admit accepts, and those it writes itself.
AdmitReasons == {"FAULT", "DEADLINE"}
Reasons      == AdmitReasons \cup {"NESTED", "MALFORMED", "BUDGET"}

ServiceRecord ==
  [bound : BOOLEAN, recovering : BOOLEAN, health : Healths,
   restart_budget : 0 .. BudgetMax, restart_used : Nat,
   cap_lease : SUBSET Caps, epoch : Epoch, state_generation : Epoch]

SlotRecord == [in_use : BOOLEAN, owner : Service, epoch : Epoch]

EvidenceRecord ==
  [epoch : Epoch, generation : Epoch, outcome : Outcomes,
   reason : Reasons, health_after : Healths]

UnboundService ==
  [bound |-> FALSE, recovering |-> FALSE, health |-> "OK",
   restart_budget |-> 0, restart_used |-> 0, cap_lease |-> {},
   epoch |-> 0, state_generation |-> 0]

FreeSlotRecord == [in_use |-> FALSE, owner |-> 0, epoch |-> 0]

NoEvidence ==
  [epoch |-> 0, generation |-> 0, outcome |-> "RESTART",
   reason |-> "FAULT", health_after |-> "OK"]

WorldType ==
  /\ services \in [Service -> ServiceRecord]
  /\ slots \in [Slot -> SlotRecord]
  /\ evidence \in [Service -> EvidenceRecord]

WorldInit ==
  /\ services = [s \in Service |-> UnboundService]
  /\ slots = [i \in Slot |-> FreeSlotRecord]
  /\ evidence = [s \in Service |-> NoEvidence]

-----------------------------------------------------------------------------
(* The read-only interface.                                                *)

NextEpochUnwrapped(e) == e + 1

\* uint32_t increment.
NextEpoch(e) == IF e = EpochSpan - 1 THEN 0 ELSE e + 1

\* The guard cirvane_rtx_alloc_slot, cap_grant, cap_check and the scheduler share.
Live(s) ==
  /\ services[s].bound
  /\ ~services[s].recovering
  /\ services[s].health # "FAILED"

Owns(s, i) == slots[i].in_use /\ slots[i].owner = s

DeliverableIgnoringRecovery(i) ==
  /\ slots[i].in_use
  /\ LET svc == services[slots[i].owner]
     IN  svc.bound /\ slots[i].epoch = svc.epoch

\* cirvane_rtx_slot_deliverable: health is not consulted.
Deliverable(i) ==
  /\ slots[i].in_use
  /\ LET svc == services[slots[i].owner]
     IN  /\ svc.bound
         /\ ~svc.recovering
         /\ slots[i].epoch = svc.epoch

HasStaleWork(s) ==
  \E i \in Slot : Owns(s, i) /\ slots[i].epoch # services[s].epoch

\* cirvane_rtx_health: an unbound service reports FAILED.
Health(s) ==
  IF ~services[s].bound THEN "FAILED"
  ELSE IF services[s].recovering THEN "RECOVERING"
  ELSE services[s].health

CapCheck(s, need) == need # {} /\ Live(s) /\ need \subseteq services[s].cap_lease

-----------------------------------------------------------------------------
(* The operations.                                                         *)

\* cirvane_rtx_bind, which also accepts a service that is bound already: its
\* slots stay in the pool, whatever their epoch.
Bind(s, budget, lease) ==
  /\ budget \in 1 .. BudgetMax
  /\ ~services[s].recovering
  /\ services' = [services EXCEPT ![s] =
       [bound |-> TRUE, recovering |-> FALSE, health |-> "OK",
        restart_budget |-> budget, restart_used |-> 0, cap_lease |-> lease,
        epoch |-> 1, state_generation |-> 1]]
  /\ evidence' = [evidence EXCEPT ![s] = NoEvidence]
  /\ UNCHANGED slots

\* The slot the scan of cirvane_rtx_alloc_slot stops at.
FirstFree(i) == ~slots[i].in_use /\ \A j \in 0 .. i - 1 : slots[j].in_use

AllocSlot(s) ==
  /\ Live(s)
  /\ \E i \in Slot :
       /\ FirstFree(i)
       /\ slots' = [slots EXCEPT ![i] =
            [in_use |-> TRUE, owner |-> s, epoch |-> services[s].epoch]]
  /\ UNCHANGED <<services, evidence>>

\* cirvane_rtx_free_slot takes any slot in use: it does not know its caller.
FreeSlot(i) ==
  /\ slots[i].in_use
  /\ slots' = [slots EXCEPT ![i] = FreeSlotRecord]
  /\ UNCHANGED <<services, evidence>>

CapGrantUnfenced(s, lease) ==
  /\ services[s].bound
  /\ services' = [services EXCEPT ![s].cap_lease = lease]
  /\ UNCHANGED <<slots, evidence>>

CapGrant(s, lease) ==
  /\ Live(s)
  /\ services' = [services EXCEPT ![s].cap_lease = lease]
  /\ UNCHANGED <<slots, evidence>>

CapRevoke(s) ==
  /\ services[s].bound
  /\ services' = [services EXCEPT ![s].cap_lease = {}]
  /\ UNCHANGED <<slots, evidence>>

-----------------------------------------------------------------------------
(* The recovery transaction, as functions of one service record.           *)

EvidenceOf(svc, outcome, reason) ==
  [epoch |-> svc.epoch, generation |-> svc.state_generation,
   outcome |-> outcome, reason |-> reason, health_after |-> svc.health]

\* recovery.c:169-173, before the slots are reclaimed.
AdmitBegun(svc) ==
  [svc EXCEPT !.recovering = TRUE, !.health = "RECOVERING",
              !.epoch = NextEpoch(svc.epoch),
              !.state_generation = NextEpoch(svc.state_generation),
              !.cap_lease = {}]

SlotsReclaimed(s) ==
  [i \in Slot |-> IF Owns(s, i) THEN FreeSlotRecord ELSE slots[i]]

AdmitOutcome(svc, reason) ==
  IF svc.restart_used >= svc.restart_budget THEN "FAILED"
  ELSE IF reason = "DEADLINE" THEN "BACKOFF" ELSE "RESTART"

EvidenceReason(outcome, reason) == IF outcome = "FAILED" THEN "BUDGET" ELSE reason

HealthAfter(outcome) ==
  CASE outcome = "FAILED"  -> "FAILED"
    [] outcome = "BACKOFF" -> "DEGRADED"
    [] OTHER               -> "OK"

AdmitEndedKeepingFailed(svc, outcome) ==
  [svc EXCEPT !.recovering = outcome = "FAILED", !.health = HealthAfter(outcome),
              !.restart_used = IF outcome = "FAILED" THEN @ ELSE @ + 1]

\* recovery.c:184-200, after the slots are reclaimed.
AdmitEnded(svc, outcome) ==
  [svc EXCEPT !.recovering = FALSE, !.health = HealthAfter(outcome),
              !.restart_used = IF outcome = "FAILED" THEN @ ELSE @ + 1]

\* cirvane_rtx_admit run to its end without interruption.
Admit(s, reason) ==
  /\ reason \in AdmitReasons
  /\ services[s].bound
  /\ ~services[s].recovering
  /\ LET begun   == AdmitBegun(services[s])
         outcome == AdmitOutcome(begun, reason)
         ended   == AdmitEnded(begun, outcome)
     IN  /\ services' = [services EXCEPT ![s] = ended]
         /\ slots' = SlotsReclaimed(s)
         /\ evidence' = [evidence EXCEPT ![s] =
              EvidenceOf(ended, outcome, EvidenceReason(outcome, reason))]

\* An admit refused: a reason of its own or an unbound service is malformed, a
\* service in recovery is nested.  Only the evidence changes.
AdmitRefused(s, reason) ==
  /\ \/ reason \notin AdmitReasons
     \/ ~services[s].bound
     \/ services[s].recovering
  /\ evidence' = [evidence EXCEPT ![s] =
       EvidenceOf(services[s], "REFUSED",
                  IF reason \in AdmitReasons /\ services[s].bound
                  THEN "NESTED" ELSE "MALFORMED")]
  /\ UNCHANGED <<services, slots>>

-----------------------------------------------------------------------------
(* What the users of a world see of it.                                    *)

Reported    == [s \in Service |-> Health(s)]
Incarnation == [s \in Service |-> services[s].epoch]
Left        == [s \in Service |-> services[s].restart_budget - services[s].restart_used]
Work        == [s \in Service |-> {i \in Slot : Owns(s, i) /\ Deliverable(i)}]
Rights      == [s \in Service |-> {c \in Caps : CapCheck(s, {c})}]

Contract ==
  INSTANCE RecoveryContract WITH
    Services <- Service, Handles <- Slot, Rights <- Caps, MaxRestarts <- BudgetMax,
    Next_ <- NextEpoch, health <- Reported, incarnation <- Incarnation, left <- Left,
    work <- Work, rights <- Rights

\* Whether interrupts call the world inside the transaction or system calls pass
\* its slots on, users see one atomic fence and one atomic settlement per
\* recovery, no work or right in between, and no work with a service that may
\* not have it.
ImplementsContract == Contract!Spec

=============================================================================
