------------------------------ MODULE MCKernel ------------------------------
(* Kernel on a small world, for TLC.                                       *)
EXTENDS Kernel

\* No system call and no property but those of the scheduler reads the ticks or what
\* the scheduler keeps, and nothing in Kernel reads the evidence, so that two states
\* that differ in these only are one state of the search.
WorldAndMessages == <<services, slots, msgs, panic_reason>>

\* With no slots in the world, nor do epochs and leases decide anything.
ForScheduling ==
  <<[s \in Service |->
       <<services[s].bound, services[s].health, services[s].restart_used,
         services[s].restart_budget>>],
    ticks, next_service, panic_reason, bypassed>>

=============================================================================
