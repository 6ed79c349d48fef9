------------------------------- MODULE Kernel -------------------------------
(***************************************************************************)
(* The system calls, the scheduler and the panic state of kernel/kernel.c, *)
(* over the recovery world.  The kernel is cooperative and its C interface *)
(* runs to completion, so each call is one action, taken by whoever runs:  *)
(* the main loop, or the tick a scheduler step has started.  A refused     *)
(* call changes nothing and is no action, admit excepted (it leaves        *)
(* evidence).                                                              *)
(*                                                                         *)
(* Left out: isrs (a handler is a C function the kernel only calls), the   *)
(* panic's mcause and mepc, and the range checks that narrow a uint32_t    *)
(* argument to a service, slot or lease.                                   *)
(***************************************************************************)
EXTENDS RecoveryWorld

CONSTANT MsgCap  \* CIRVANE_CAP_MSG, the lease bit for messages

ASSUME MsgCapAssumption == MsgCap \in Caps

VARIABLES
  msgs,          \* k->msgs
  ticks,         \* the services with a tick function: k->ticks[s] != 0
  next_service,  \* k->next_service
  panic_reason,  \* k->panic_reason; k->panicked is "it is not NONE"
  bypassed       \* history: steps that ran another service while s could run,
                 \* since s last ran or could not

kernelVars == <<msgs, ticks, next_service, panic_reason, bypassed>>
vars == <<services, slots, evidence, msgs, ticks, next_service, panic_reason, bypassed>>

\* written stands for type, payload_len and payload: any byte of them non-zero.
MsgRecord == [queued : BOOLEAN, sender : Service, written : BOOLEAN]
ClearMsg  == [queued |-> FALSE, sender |-> 0, written |-> FALSE]

PanicReasons == {"NONE", "UNKNOWN_TRAP", "BAD_IRQ"}
Panicked == panic_reason # "NONE"

Init ==
  /\ WorldInit
  /\ msgs = [i \in Slot |-> ClearMsg]
  /\ ticks = {}
  /\ next_service = 0
  /\ panic_reason = "NONE"
  /\ bypassed = [s \in Service |-> 0]

-----------------------------------------------------------------------------
(* System calls.                                                           *)

schedVars == <<ticks, next_service, panic_reason, bypassed>>

SysBind(s, budget, lease) ==
  /\ ~Panicked
  /\ Bind(s, budget, lease)
  /\ UNCHANGED kernelVars

\* clear_unused_msgs runs after every admit, refused ones too.
ClearUnusedMsgs == msgs' = [i \in Slot |-> IF slots'[i].in_use THEN msgs[i] ELSE ClearMsg]

SysAdmitKeepingMsgs(s, reason) ==
  /\ ~Panicked
  /\ Admit(s, reason) \/ AdmitRefused(s, reason)
  /\ UNCHANGED <<msgs, ticks, next_service, panic_reason, bypassed>>

SysAdmit(s, reason) ==
  /\ ~Panicked
  /\ Admit(s, reason) \/ AdmitRefused(s, reason)
  /\ ClearUnusedMsgs
  /\ UNCHANGED schedVars

\* clear_msg on the slot just allocated.
SysAlloc(s) ==
  /\ ~Panicked
  /\ AllocSlot(s)
  /\ msgs' = [i \in Slot |-> IF slots'[i] = slots[i] THEN msgs[i] ELSE ClearMsg]
  /\ UNCHANGED schedVars

\* The message goes to dest with the slot; the slot takes dest's epoch.
Sent(i, dest) ==
  /\ msgs' = [msgs EXCEPT ![i] =
       [queued |-> TRUE, sender |-> slots[i].owner, written |-> TRUE]]
  /\ slots' = [slots EXCEPT ![i].owner = dest, ![i].epoch = services[dest].epoch]
  /\ UNCHANGED <<services, evidence>>
  /\ UNCHANGED schedVars

SysSendToAnyBound(i, dest) ==
  /\ ~Panicked
  /\ Deliverable(i)
  /\ CapCheck(slots[i].owner, {MsgCap})
  /\ services[dest].bound
  /\ Sent(i, dest)

\* The owner of the slot is taken for the sender; that the message may be
\* queued already is not checked.
SysSend(i, dest) ==
  /\ ~Panicked
  /\ Deliverable(i)
  /\ CapCheck(slots[i].owner, {MsgCap})
  /\ Live(dest)
  /\ CapCheck(dest, {MsgCap})
  /\ Sent(i, dest)

Receivable(s, i) == msgs[i].queued /\ slots[i].owner = s /\ Deliverable(i)

\* The first receivable slot in index order, whatever order they were sent in.
SysRecv(s) ==
  /\ ~Panicked
  /\ CapCheck(s, {MsgCap})
  /\ \E i \in Slot :
       /\ Receivable(s, i)
       /\ \A j \in 0 .. i - 1 : ~Receivable(s, j)
       /\ msgs' = [msgs EXCEPT ![i].queued = FALSE]
  /\ UNCHANGED worldVars
  /\ UNCHANGED schedVars

SysFree(i) ==
  /\ ~Panicked
  /\ FreeSlot(i)
  /\ msgs' = [msgs EXCEPT ![i] = ClearMsg]
  /\ UNCHANGED schedVars

SysGrant(s, lease) ==
  /\ ~Panicked
  /\ CapGrant(s, lease)
  /\ UNCHANGED kernelVars

SysRevoke(s) ==
  /\ ~Panicked
  /\ CapRevoke(s)
  /\ UNCHANGED kernelVars

\* A write through the pointer cirvane_msg_payload returns.
WritePayload(i) ==
  /\ slots[i].in_use
  /\ msgs' = [msgs EXCEPT ![i].written = TRUE]
  /\ UNCHANGED worldVars
  /\ UNCHANGED schedVars

-----------------------------------------------------------------------------
(* The scheduler.                                                          *)

SetTick(s, set) ==
  /\ ticks' = IF set THEN ticks \cup {s} ELSE ticks \ {s}
  /\ UNCHANGED worldVars
  /\ UNCHANGED <<msgs, next_service, panic_reason, bypassed>>

Runnable(s) == Live(s) /\ s \in ticks

After(s) == IF s = ServiceCount - 1 THEN 0 ELSE s + 1

\* How far the scan that starts at start goes before it looks at s.
Distance(start, s) == IF s >= start THEN s - start ELSE s + ServiceCount - start

FirstRunnable(s) ==
  /\ Runnable(s)
  /\ \A t \in Service :
       Distance(next_service, t) < Distance(next_service, s) => ~Runnable(t)

\* The history counter saturates one above the bound it is there to break.
OneMore(n) == IF n < ServiceCount THEN n + 1 ELSE n

\* The step restarts its scan at service 0 each time.
SchedDispatchFromZero(s) ==
  /\ ~Panicked
  /\ Runnable(s)
  /\ \A t \in 0 .. s - 1 : ~Runnable(t)
  /\ next_service' = After(s)
  /\ bypassed' = [t \in Service |->
       IF t = s \/ ~Runnable(t) THEN 0 ELSE OneMore(bypassed[t])]
  /\ UNCHANGED worldVars
  /\ UNCHANGED <<msgs, ticks, panic_reason>>

\* cirvane_sched_step up to the call of the tick; the calls the tick makes are
\* the actions that follow.
SchedDispatch(s) ==
  /\ ~Panicked
  /\ FirstRunnable(s)
  /\ next_service' = After(s)
  /\ bypassed' = [t \in Service |->
       IF t = s \/ ~Runnable(t) THEN 0 ELSE OneMore(bypassed[t])]
  /\ UNCHANGED worldVars
  /\ UNCHANGED <<msgs, ticks, panic_reason>>

SchedStep == \E s \in Service : SchedDispatch(s)

\* cirvane_panic_fault from the trap handler, cirvane_panic from irq_dispatch:
\* a later panic overwrites the reason of an earlier one.
Panic(reason) ==
  /\ panic_reason' = reason
  /\ UNCHANGED worldVars
  /\ UNCHANGED <<msgs, ticks, next_service, bypassed>>

-----------------------------------------------------------------------------
SysCall ==
  \/ \E s \in Service :
       \/ \E budget \in 1 .. BudgetMax, lease \in SUBSET Caps : SysBind(s, budget, lease)
       \/ \E reason \in AdmitReasons \cup {"MALFORMED"} : SysAdmit(s, reason)
       \/ SysAlloc(s)
       \/ \E i \in Slot : SysSend(i, s)
       \/ SysRecv(s)
       \/ \E lease \in SUBSET Caps : SysGrant(s, lease)
       \/ SysRevoke(s)
  \/ \E i \in Slot : SysFree(i)

Next ==
  \/ SysCall
  \/ SchedStep
  \/ \E i \in Slot : WritePayload(i)
  \/ \E s \in Service, set \in BOOLEAN : SetTick(s, set)
  \/ \E reason \in PanicReasons \ {"NONE"} : Panic(reason)

\* The main loop steps the scheduler again whenever a tick has returned.
Spec == Init /\ [][Next]_vars /\ WF_vars(SchedStep)

-----------------------------------------------------------------------------
(* Properties.                                                             *)

\* The kernel's fields hold what kernel.h declares.
TypeOK ==
  /\ WorldType
  /\ msgs \in [Slot -> MsgRecord]
  /\ ticks \subseteq Service
  /\ next_service \in Service
  /\ panic_reason \in PanicReasons
  /\ bypassed \in [Service -> 0 .. ServiceCount]

\* KERNEL.md "Admit reclaims owned slots and clears their payloads": on every
\* path that returns a slot to the pool (free, an admit of its owner, whoever
\* that is after resends) the message goes with it, so that no allocation and no
\* receiver ever meets another message's bytes, queued flag or sender.
FreeSlotIsClear ==
  \A i \in Slot : ~slots[i].in_use => msgs[i] = ClearMsg

\* A queued message always has a receiver: a service that is bound, has not
\* failed and, unless it was rebound under the message, is in the epoch the
\* message was sent to: no sequence of sends, admits and frees strands one.
QueuedHasReceiver ==
  \A i \in Slot : msgs[i].queued =>
    /\ slots[i].in_use
    /\ services[slots[i].owner].bound
    /\ services[slots[i].owner].health # "FAILED"
    /\ Deliverable(i) \/ services[slots[i].owner].epoch = 1

\* KERNEL.md "Cooperative round-robin": a service that can run is passed over at
\* most once for every other service, however services fail, are rebound and
\* get or lose their ticks in between.
RoundRobinBound == \A s \in Service : bypassed[s] <= ServiceCount - 1

\* A service that from some moment on can always run is dispatched again and
\* again, unless the kernel panics.
RunnableIsDispatched ==
  \A s \in Service :
    <>[](Runnable(s) /\ ~Panicked) => []<>(bypassed[s] = 0)

=============================================================================
