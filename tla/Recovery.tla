------------------------------ MODULE Recovery ------------------------------
(***************************************************************************)
(* cirvane_rtx_admit one step at a time.  Between two steps, code running  *)
(* in interrupt context (cirvane_trap dispatches the handler attached with *)
(* cirvane_irq_attach) may call any operation of the world and runs to its *)
(* end before the transaction goes on; the recovering flag and the NESTED  *)
(* refusal exist for these calls.  Only one transaction is interrupted at  *)
(* a time: handlers run with interrupts disabled.  The other operations    *)
(* are not interruptible here (README, "What is not modelled").            *)
(***************************************************************************)
EXTENDS RecoveryWorld

VARIABLE
  txn  \* where the interrupted admit is: its locals and its position

vars == <<services, slots, evidence, txn>>

\* cursor is the loop variable i of the reclaim loop; outcome is set at its end.
IdleTxn ==
  [phase |-> "idle", service |-> 0, reason |-> "FAULT", cursor |-> 0,
   outcome |-> "RESTART"]

TxnRecord ==
  [phase : {"idle", "test", "clear", "ended"}, service : Service,
   reason : AdmitReasons, cursor : 0 .. SlotCount, outcome : Outcomes]

Reclaiming(s) == txn.phase \in {"test", "clear"} /\ txn.service = s

Init == WorldInit /\ txn = IdleTxn

-----------------------------------------------------------------------------
(* The transaction.                                                        *)

\* recovery.c:157-175.
AdmitBegin(s, reason) ==
  /\ txn.phase = "idle"
  /\ services[s].bound
  /\ ~services[s].recovering
  /\ services' = [services EXCEPT ![s] = AdmitBegun(@)]
  /\ txn' = [IdleTxn EXCEPT !.phase = "test", !.service = s, !.reason = reason]
  /\ UNCHANGED <<slots, evidence>>

\* The condition at recovery.c:176.
AdmitTest ==
  /\ txn.phase = "test"
  /\ txn.cursor < SlotCount
  /\ txn' = IF Owns(txn.service, txn.cursor)
            THEN [txn EXCEPT !.phase = "clear"]
            ELSE [txn EXCEPT !.cursor = @ + 1]
  /\ UNCHANGED worldVars

AdmitClearSkipping ==
  /\ txn.phase = "clear"
  /\ txn' = [txn EXCEPT !.phase = "test", !.cursor = @ + 1]
  /\ UNCHANGED worldVars

\* recovery.c:177-180: the slot may have changed hands since it was tested.
AdmitClear ==
  /\ txn.phase = "clear"
  /\ slots' = [slots EXCEPT ![txn.cursor] = FreeSlotRecord]
  /\ txn' = [txn EXCEPT !.phase = "test", !.cursor = @ + 1]
  /\ UNCHANGED <<services, evidence>>

AdmitEndOneSlotEarly ==
  /\ txn.phase = "test"
  /\ txn.cursor >= SlotCount - 1
  /\ LET svc     == services[txn.service]
         outcome == AdmitOutcome(svc, txn.reason)
     IN  /\ services' = [services EXCEPT ![txn.service] = AdmitEnded(svc, outcome)]
         /\ txn' = [txn EXCEPT !.phase = "ended", !.outcome = outcome]
  /\ UNCHANGED <<slots, evidence>>

\* recovery.c:184-186 and 192-200: the service leaves recovery here, and its
\* evidence is written only in the next step.
AdmitEnd ==
  /\ txn.phase = "test"
  /\ txn.cursor = SlotCount
  /\ LET svc     == services[txn.service]
         outcome == AdmitOutcome(svc, txn.reason)
     IN  /\ services' = [services EXCEPT ![txn.service] = AdmitEnded(svc, outcome)]
         /\ txn' = [txn EXCEPT !.phase = "ended", !.outcome = outcome]
  /\ UNCHANGED <<slots, evidence>>

AdmitNoEvidence ==
  /\ txn.phase = "ended"
  /\ txn' = IdleTxn
  /\ UNCHANGED <<services, slots, evidence>>

\* write_evidence reads the service record as it is now.
AdmitEvidence ==
  /\ txn.phase = "ended"
  /\ evidence' = [evidence EXCEPT ![txn.service] =
       EvidenceOf(services[txn.service], txn.outcome,
                  EvidenceReason(txn.outcome, txn.reason))]
  /\ txn' = IdleTxn
  /\ UNCHANGED <<services, slots>>

AdmitStep == AdmitTest \/ AdmitClear \/ AdmitEnd \/ AdmitEvidence

-----------------------------------------------------------------------------
(* A call that runs to its end: from the main loop, or from a handler      *)
(* inside the transaction.                                                 *)

Call ==
  /\ \E s \in Service :
       \/ \E budget \in 1 .. BudgetMax, lease \in SUBSET Caps : Bind(s, budget, lease)
       \/ \E reason \in AdmitReasons : Admit(s, reason)
       \/ \E reason \in AdmitReasons \cup {"MALFORMED"} : AdmitRefused(s, reason)
       \/ AllocSlot(s)
       \/ \E lease \in SUBSET Caps : CapGrant(s, lease)
       \/ CapRevoke(s)
  /\ UNCHANGED txn

Release == (\E i \in Slot : FreeSlot(i)) /\ UNCHANGED txn

Next ==
  \/ \E s \in Service, reason \in AdmitReasons : AdmitBegin(s, reason)
  \/ AdmitStep
  \/ Call
  \/ Release

\* admit is straight-line code with a bounded loop, and handlers return.
Spec == Init /\ [][Next]_vars /\ WF_vars(AdmitStep)

-----------------------------------------------------------------------------
(* Properties.                                                             *)

\* The variables hold the records of recovery.h and the locals of admit.
TypeOK == WorldType /\ txn \in TxnRecord

\* The transaction's hold on a service: recovering from admit's first step to
\* the one that publishes its outcome, and nowhere else.
RecoveringIffInTxn ==
  \A s \in Service :
    services[s].recovering <=> Reclaiming(s)

\* KERNEL_SPIKE.md invariant 5: outside a transaction a service owns work of
\* another epoch only if it was rebound (epoch 1 again) and not recovered since.
\* No sequence of allocations, frees and interrupted recoveries leaves any.
StaleOnlyAfterRebind ==
  \A s \in Service :
    ~services[s].recovering /\ HasStaleWork(s) => services[s].epoch = 1

\* A service that failed holds no slot: the pool a failed service used is
\* available to the others, whoever interrupted its last recovery.
FailedOwnsNothing ==
  \A s \in Service :
    services[s].health = "FAILED" => \A i \in Slot : ~Owns(s, i)

\* KERNEL_SPIKE.md invariant 7: FAILED is reached only with the budget spent,
\* and no interleaving of admits spends more than the budget.
FailedOnlyWhenSpent ==
  \A s \in Service :
    /\ services[s].restart_used <= services[s].restart_budget
    /\ services[s].health = "FAILED" =>
         services[s].restart_used = services[s].restart_budget

\* The evidence is being written: the window between AdmitEnd and AdmitEvidence.
EvidencePending(s) == txn.phase = "ended" /\ txn.service = s

\* Evidence of a bound service at rest describes the service as it is, and the
\* refusal of a nested admit never outlives the transaction that refused it.
EvidenceCurrent ==
  \A s \in Service :
    /\ services[s].bound
    /\ ~services[s].recovering
    /\ ~EvidencePending(s)
    /\ evidence[s] # NoEvidence
    => /\ evidence[s].epoch = services[s].epoch
       /\ evidence[s].generation = services[s].state_generation
       /\ evidence[s].health_after = services[s].health
       /\ evidence[s].reason # "NESTED"

\* KERNEL_SPIKE.md invariants 5 and 6: in the step in which a service stops
\* recovering its lease is empty and it owns no slot, whatever handlers did
\* while it was recovering.
LeavesRecoveryClean ==
  [][\A s \in Service :
       services[s].recovering /\ ~services'[s].recovering =>
         /\ services'[s].cap_lease = {}
         /\ \A i \in Slot : ~(slots'[i].in_use /\ slots'[i].owner = s)]_vars

\* A transaction that begins ends: a service does not stay RECOVERING.
RecoveryCompletes ==
  \A s \in Service : services[s].recovering ~> ~services[s].recovering

\* KERNEL_SPIKE.md invariant 2: "A recovery transaction is the only path from
\* admitted fault or deadline breach to a new service epoch."  A service that
\* FAILED, the last stop of an admitted fault, gets another epoch only from admit,
\* which increments it.
EpochOnlyByTransaction ==
  [][\A s \in Service :
       /\ services[s].health = "FAILED"
       /\ services'[s].epoch # services[s].epoch
       => services'[s].epoch = NextEpoch(services[s].epoch)]_vars

=============================================================================
