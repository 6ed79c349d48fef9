------------------------------ MODULE Rollback ------------------------------
(***************************************************************************)
(* The dual-slot rollback policy of kernel/rollback.c.  An image is staged *)
(* block by block into a slot that is not running, checked by a verifier   *)
(* the caller supplies, selected for the next boot, tried, and then        *)
(* confirmed or rolled back.  A refused call changes nothing and is no     *)
(* action, except for the call of cirvane_ota_end whose image is not good. *)
(*                                                                         *)
(* Lengths count blocks of one size.  They stay below 2^32, where the sum  *)
(* of cirvane_ota_write does not wrap: an image is no larger than a slot.  *)
(***************************************************************************)
EXTENDS Integers

CONSTANT MaxBlocks  \* bound of the model on the length of an image

ASSUME MaxBlocksAssumption == MaxBlocks \in Nat \ {0}

VARIABLES
  boot_slot, running_slot, target_slot, staging, verify_ok,
  states, expected_len, written,  \* the fields of cirvane_ota_t
  verified                        \* history: the slots whose content passed
                                  \* the verifier and was not touched since

policyVars ==
  <<boot_slot, running_slot, target_slot, staging, verify_ok, states,
    expected_len, written, verified>>

Slot   == {0, 1}
States == {"EMPTY", "STAGING", "PENDING", "VALID", "INVALID", "ABORTED"}
Blocks == 0 .. MaxBlocks

ResetStates(running) == [s \in Slot |-> IF s = running THEN "VALID" ELSE "EMPTY"]

\* The image the processor runs was verified before it was started.
PolicyInit(running) ==
  /\ boot_slot = running
  /\ running_slot = running
  /\ target_slot = 1 - running
  /\ staging = FALSE
  /\ verify_ok = FALSE
  /\ states = ResetStates(running)
  /\ expected_len = 0
  /\ written = 0
  /\ verified = {running}

\* cirvane_ota_reset.
PolicyReset(running) ==
  /\ boot_slot' = running
  /\ running_slot' = running
  /\ target_slot' = 1 - running
  /\ staging' = FALSE
  /\ verify_ok' = FALSE
  /\ states' = ResetStates(running)
  /\ expected_len' = 0
  /\ written' = 0
  /\ verified' = {running}

-----------------------------------------------------------------------------
(* Staging.                                                                *)

\* cirvane_ota_begin looks at the running slot only: the target may be the boot
\* slot, or the slot a rollback would return to.
Begin(target, image_len) ==
  /\ target # running_slot
  /\ image_len > 0
  /\ ~staging
  /\ target_slot' = target
  /\ expected_len' = image_len
  /\ written' = 0
  /\ verify_ok' = FALSE
  /\ staging' = TRUE
  /\ states' = [states EXCEPT ![target] = "STAGING"]
  /\ verified' = verified \ {target}
  /\ UNCHANGED <<boot_slot, running_slot>>

\* One block or more, up to the declared length.
Write(length) ==
  /\ staging
  /\ length > 0
  /\ written + length <= expected_len
  /\ written' = written + length
  /\ UNCHANGED <<boot_slot, running_slot, target_slot, staging, verify_ok, states,
                 expected_len, verified>>

Abort ==
  /\ staging
  /\ staging' = FALSE
  /\ verify_ok' = FALSE
  /\ written' = 0
  /\ expected_len' = 0
  /\ states' = [states EXCEPT ![target_slot] = "ABORTED"]
  /\ UNCHANGED <<boot_slot, running_slot, target_slot, verified>>

EndGoodAnyLength ==
  /\ staging
  /\ staging' = FALSE
  /\ verify_ok' = TRUE
  /\ states' = [states EXCEPT ![target_slot] = "PENDING"]
  /\ verified' = IF written = expected_len THEN verified \cup {target_slot} ELSE verified
  /\ UNCHANGED <<boot_slot, running_slot, target_slot, expected_len, written>>

\* cirvane_ota_end of a complete image that verifies.
EndGood ==
  /\ staging
  /\ written = expected_len
  /\ staging' = FALSE
  /\ verify_ok' = TRUE
  /\ states' = [states EXCEPT ![target_slot] = "PENDING"]
  /\ verified' = verified \cup {target_slot}
  /\ UNCHANGED <<boot_slot, running_slot, target_slot, expected_len, written>>

\* cirvane_ota_end of an image that is short or does not verify.
EndBad ==
  /\ staging
  /\ staging' = FALSE
  /\ verify_ok' = FALSE
  /\ states' = [states EXCEPT ![target_slot] = "INVALID"]
  /\ UNCHANGED <<boot_slot, running_slot, target_slot, expected_len, written, verified>>

-----------------------------------------------------------------------------
(* Selection and trial.                                                    *)

SelectStale ==
  /\ states[target_slot] # "EMPTY"
  /\ boot_slot' = target_slot
  /\ UNCHANGED <<running_slot, target_slot, staging, verify_ok, states,
                 expected_len, written, verified>>

Select ==
  /\ verify_ok
  /\ states[target_slot] = "PENDING"
  /\ boot_slot' = target_slot
  /\ UNCHANGED <<running_slot, target_slot, staging, verify_ok, states,
                 expected_len, written, verified>>

RebootWhileStaging ==
  /\ running_slot' = boot_slot
  /\ verify_ok' = FALSE
  /\ UNCHANGED <<boot_slot, target_slot, staging, states, expected_len, written, verified>>

RebootKeepingVerdict ==
  /\ ~staging
  /\ running_slot' = boot_slot
  /\ UNCHANGED <<boot_slot, target_slot, staging, verify_ok, states, expected_len,
                 written, verified>>

\* cirvane_ota_reboot, which starts whatever the boot slot holds.
Reboot ==
  /\ ~staging
  /\ running_slot' = boot_slot
  /\ verify_ok' = FALSE
  /\ UNCHANGED <<boot_slot, target_slot, staging, states, expected_len, written, verified>>

Confirm ==
  /\ states[running_slot] = "PENDING"
  /\ states' = [states EXCEPT ![running_slot] = "VALID"]
  /\ UNCHANGED <<boot_slot, running_slot, target_slot, staging, verify_ok,
                 expected_len, written, verified>>

Rollback ==
  LET previous == 1 - running_slot
  IN  /\ states[running_slot] = "PENDING"
      /\ states[previous] = "VALID"
      /\ states' = [states EXCEPT ![running_slot] = "INVALID"]
      /\ boot_slot' = previous
      /\ running_slot' = previous
      /\ verify_ok' = FALSE
      /\ UNCHANGED <<target_slot, staging, expected_len, written, verified>>

PolicyStep ==
  \/ \E target \in Slot, image_len \in Blocks : Begin(target, image_len)
  \/ \E length \in Blocks : Write(length)
  \/ Abort
  \/ EndGood
  \/ EndBad
  \/ Select
  \/ Reboot
  \/ Confirm
  \/ Rollback

-----------------------------------------------------------------------------
(* Properties.                                                             *)

PolicyType ==
  /\ boot_slot \in Slot /\ running_slot \in Slot /\ target_slot \in Slot
  /\ staging \in BOOLEAN /\ verify_ok \in BOOLEAN
  /\ states \in [Slot -> States]
  /\ expected_len \in Blocks /\ written \in Blocks
  /\ verified \subseteq Slot

\* KERNEL.md "end requires the declared length and a successful injected
\* verifier": a slot counts as bootable only while it holds a complete image that
\* verified, whatever was aborted, restaged or rolled back before.
BootableIsVerified == \A s \in Slot : states[s] \in {"PENDING", "VALID"} => s \in verified

\* An image is never written over the one that runs, across reboots and rollbacks
\* with a slot half staged.
StagingSparesRunning ==
  staging => target_slot # running_slot /\ states[target_slot] = "STAGING"

\* A verdict of the verifier is about the image that awaits selection: it does not
\* outlive a reboot, a rollback or a new image in the slot.
VerdictIsCurrent ==
  verify_ok => ~staging /\ target_slot # running_slot /\ states[target_slot] = "PENDING"

\* rollback.h "Never select a boot slot until the injected image verifier
\* succeeds": the boot slot only ever changes to a slot that verified.
BootMovesToVerified ==
  [][boot_slot' # boot_slot =>
       boot_slot' \in verified' /\ states'[boot_slot'] \in {"PENDING", "VALID"}]_policyVars

\* The same sentence about the slot that is selected: what a reboot starts has
\* verified.
BootIsVerified == ~staging => boot_slot \in verified

=============================================================================
