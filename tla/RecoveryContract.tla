-------------------------- MODULE RecoveryContract --------------------------
(***************************************************************************)
(* What the recovery world promises its users, without slots to reclaim or *)
(* evidence to write: every service shows a health, an incarnation number, *)
(* the restarts it has left, the work that can be delivered to it and the  *)
(* capabilities it may use.  A recovery takes its work and capabilities    *)
(* away in the same step that makes it RECOVERING, and it leaves           *)
(* RECOVERING with neither.  Recovery, with its transaction taken apart    *)
(* and interrupted, and Kernel, with messages, scheduler and panics, both  *)
(* keep this promise.                                                      *)
(***************************************************************************)
EXTENDS Integers

CONSTANTS
  Services,
  Handles,         \* the handles of work items
  Rights,          \* the capabilities a service may hold
  MaxRestarts,     \* the largest restart budget of a binding
  Next_(_)         \* the incarnation after an incarnation

VARIABLES
  health,       \* what cirvane_rtx_health reports
  incarnation,
  left,         \* restarts the service may still make
  work,         \* the handles that can be delivered to the service
  rights        \* the capabilities a check accepts

vars == <<health, incarnation, left, work, rights>>

Held == UNION {work[s] : s \in Services}

Init ==
  /\ health = [s \in Services |-> "FAILED"]
  /\ incarnation = [s \in Services |-> 0]
  /\ left = [s \in Services |-> 0]
  /\ work = [s \in Services |-> {}]
  /\ rights = [s \in Services |-> {}]

\* A binding, or a rebinding, which may drop work but never adds any.
Rebind(s) ==
  /\ health[s] # "RECOVERING"
  /\ health' = [health EXCEPT ![s] = "OK"]
  /\ incarnation' = [incarnation EXCEPT ![s] = 1]
  /\ \E budget \in 1 .. MaxRestarts : left' = [left EXCEPT ![s] = budget]
  /\ \E kept \in SUBSET work[s] : work' = [work EXCEPT ![s] = kept]
  /\ \E granted \in SUBSET Rights : rights' = [rights EXCEPT ![s] = granted]

\* The fault is admitted: from here on nothing of the old incarnation is usable.
Fence(s) ==
  /\ health[s] # "RECOVERING"
  /\ health' = [health EXCEPT ![s] = "RECOVERING"]
  /\ incarnation' = [incarnation EXCEPT ![s] = Next_(@)]
  /\ work' = [work EXCEPT ![s] = {}]
  /\ rights' = [rights EXCEPT ![s] = {}]
  /\ UNCHANGED left

\* The restart is spent, or there is none left and the service has failed.
Settled(s) ==
  \/ /\ left[s] > 0
     /\ left' = [left EXCEPT ![s] = @ - 1]
     /\ \E h \in {"OK", "DEGRADED"} : health' = [health EXCEPT ![s] = h]
  \/ /\ left[s] = 0
     /\ health' = [health EXCEPT ![s] = "FAILED"]
     /\ UNCHANGED left

Settle(s) ==
  /\ health[s] = "RECOVERING"
  /\ Settled(s)
  /\ UNCHANGED <<incarnation, work, rights>>

\* A recovery nobody can see the middle of.
Recover(s) ==
  /\ health[s] # "RECOVERING"
  /\ incarnation' = [incarnation EXCEPT ![s] = Next_(@)]
  /\ Settled(s)
  /\ work' = [work EXCEPT ![s] = {}]
  /\ rights' = [rights EXCEPT ![s] = {}]

Usable(s) == health[s] \in {"OK", "DEGRADED"}

Take(s, h) ==
  /\ Usable(s)
  /\ h \in Handles \ Held
  /\ work' = [work EXCEPT ![s] = @ \cup {h}]
  /\ UNCHANGED <<health, incarnation, left, rights>>

Return(s, h) ==
  /\ h \in work[s]
  /\ work' = [work EXCEPT ![s] = @ \ {h}]
  /\ UNCHANGED <<health, incarnation, left, rights>>

\* Work goes from one service to another only between two that hold a capability.
HandOver(s, t, h) ==
  /\ h \in work[s]
  /\ rights[s] # {}
  /\ rights[t] # {}
  /\ work' = [work EXCEPT ![s] = @ \ {h}, ![t] = @ \cup {h}]
  /\ UNCHANGED <<health, incarnation, left, rights>>

Grant(s) ==
  /\ Usable(s)
  /\ \E granted \in SUBSET Rights : rights' = [rights EXCEPT ![s] = granted]
  /\ UNCHANGED <<health, incarnation, left, work>>

Next ==
  \E s \in Services :
    \/ Rebind(s)
    \/ Fence(s)
    \/ Settle(s)
    \/ Recover(s)
    \/ Grant(s)
    \/ \E h \in Handles :
         Take(s, h) \/ Return(s, h) \/ \E t \in Services : HandOver(s, t, h)

Spec == Init /\ [][Next]_vars

=============================================================================
