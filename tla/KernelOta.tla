------------------------------ MODULE KernelOta ------------------------------
(***************************************************************************)
(* The rollback policy and the otadata adapter as their caller runs them   *)
(* (demo_otadata in kernel/spike/kernel.c): on power-up the policy is      *)
(* reset to the slot the adapter finds active; after that the calls of     *)
(* both come in any order, each running to its end unless power goes away. *)
(* Nothing in the kernel ties a select of the adapter to one of the        *)
(* policy: that is left to the caller.                                     *)
(***************************************************************************)
EXTENDS Rollback, OtaData

vars ==
  <<boot_slot, running_slot, target_slot, staging, verify_ok, states,
    expected_len, written, verified,
    entries, todo, step, backup, goal, chosen, tried>>

Init == OtaDataInit /\ PolicyInit(Active(entries))

PowerUp == PowerLoss /\ PolicyReset(Active(entries))

Next ==
  \/ Idle /\ PolicyStep /\ UNCHANGED otaDataVars
  \/ OtaDataStep /\ UNCHANGED policyVars
  \/ PowerUp

Spec == Init /\ [][Next]_vars

\* The fields of cirvane_ota_t and the entries of otadata hold what they may.
TypeOK == PolicyType /\ OtaDataType

=============================================================================
