--------------------------- MODULE DurableConfig ---------------------------
(***************************************************************************)
(* What the configuration journal promises its caller, crashes and flash   *)
(* failures included: a load returns the value acknowledged last, or one   *)
(* whose commit was tried since and reported no success.  A commit that    *)
(* succeeds settles the question for every value before it.                *)
(***************************************************************************)
CONSTANTS Configs, Default

VARIABLES
  live,   \* the configuration in force, Default before a load
  acked,  \* the configuration of the last load or commit that succeeded
  tried   \* configurations tried since, without success

vars == <<live, acked, tried>>

Init == live = Default /\ acked = Default /\ tried = {}

Try(v) == tried' = tried \cup {v} /\ UNCHANGED <<live, acked>>

Commit(v) == v \in tried /\ live' = v /\ acked' = v /\ tried' = {}

Load == \E v \in {acked} \cup tried : live' = v /\ acked' = v /\ tried' = {}

Crash == live' = Default /\ UNCHANGED <<acked, tried>>

Next == Load \/ Crash \/ \E v \in Configs : Try(v) \/ Commit(v)

Spec == Init /\ [][Next]_vars

=============================================================================
