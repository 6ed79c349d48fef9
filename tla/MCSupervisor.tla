---------------------------- MODULE MCSupervisor ----------------------------
(* Supervisor with two services, for TLC.                                  *)
EXTENDS Supervisor

\* A required service that is restarted, and one that is restarted once.
Policies == [s \in Service |-> IF s = 0 THEN "AUTO" ELSE "ONETIME"]

=============================================================================
