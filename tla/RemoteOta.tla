----------------------------- MODULE RemoteOta -----------------------------
(***************************************************************************)
(* Updates of the firmware: cirvane_ota_remote_update                      *)
(* (main/cirvane_ota_remote.c) from the manifest on, the copies that the   *)
(* HIL build makes of the running image (main/cirvane_os.c), the operator's*)
(* confirmation, and what ESP-IDF's OTA functions and bootloader make of   *)
(* them with rollback enabled.  An action ends with a write to flash or    *)
(* NVS: power may go away between any two.                                 *)
(*                                                                         *)
(* An image is named by its release sequence number, which is compiled in. *)
(* The release key signs, for a sequence number, the digest of that image  *)
(* alone.  Left out: the update lock (the console has one task), the       *)
(* download itself (Download), failures before anything is written.        *)
(***************************************************************************)
EXTENDS OtaPolicy

CONSTANTS
  MaxRelease,  \* bound of the model on sequence numbers; the code's is uint32_t
  Broken       \* the content of a partition that holds no whole image

VARIABLES
  image,     \* what each OTA partition holds
  otastate,  \* the state of each partition in otadata
  boot,      \* the partition otadata selects
  running,   \* the partition the firmware runs from
  highest,   \* highest_seq in NVS, 0 when it is not there
  job,       \* the update under way: next step, kind, manifest
  chosen,    \* history: the image each partition held when it was last selected
  seen,      \* history: the highest release an update selected since NVS was erased
  spoilt     \* history: the partitions that an update began to overwrite while selected

otaVars == <<image, otastate, boot, running, highest, job, chosen, seen, spoilt>>

Part == {0, 1}
ReleaseNo == 0 .. MaxRelease
Manifest ==
  {m \in [sequence : ReleaseNo \ {0}, digest : ReleaseNo, flaw : Flaws, signed : BOOLEAN] :
     m.signed => m.digest = m.sequence}

ASSUME RemoteOtaAssumption == MaxRelease \in Nat \ {0} /\ Broken \notin ReleaseNo

OtaStates == {"UNDEFINED", "NEW", "PENDING", "VALID", "ABORTED"}
NoJob     == [at |-> "idle"]
Steps     == [at : {"write", "persist", "select"}, kind : {"update"}, manifest : Manifest]
               \cup [at : {"write", "select"}, kind : {"self", "corrupt"}]

OtaType ==
  /\ image \in [Part -> ReleaseNo \cup {Broken}]
  /\ otastate \in [Part -> OtaStates]
  /\ boot \in Part /\ running \in Part
  /\ highest \in ReleaseNo
  /\ job \in {NoJob} \cup Steps
  /\ chosen \in [Part -> ReleaseNo \cup {Broken}]
  /\ seen \in ReleaseNo
  /\ spoilt \subseteq Part

\* A device as flashed at the factory with some release.
OtaInit ==
  /\ image \in {[p \in Part |-> IF p = 0 THEN r ELSE Broken] : r \in ReleaseNo}
  /\ otastate = [p \in Part |-> "UNDEFINED"]
  /\ boot = 0 /\ running = 0
  /\ highest = 0
  /\ job = NoJob
  /\ chosen = image
  /\ seen = 0
  /\ spoilt = {}

-----------------------------------------------------------------------------

TargetNotBoot == 1 - boot

\* esp_ota_get_next_update_partition
Target == 1 - running

\* read_highest_sequence
HighestSequence == Max({highest, image[running]})

AcceptedUnsigned(manifest) ==
  ManifestValidate(manifest, HighestSequence) = "OK"

\* manifest_validate and verify_manifest_signature
Accepted(manifest) ==
  ManifestValidate(manifest, HighestSequence) = "OK" /\ manifest.signed

OtaBeginDuringTrial ==
  /\ image' = [image EXCEPT ![Target] = Broken]
  /\ spoilt' = spoilt \cup ({boot} \cap {Target})
  /\ UNCHANGED <<otastate, boot, running, highest, chosen, seen>>

\* esp_ota_begin: refused until the running image is confirmed; erases.
OtaBegin ==
  /\ otastate[running] # "PENDING"
  /\ image' = [image EXCEPT ![Target] = Broken]
  /\ spoilt' = spoilt \cup ({boot} \cap {Target})
  /\ UNCHANGED <<otastate, boot, running, highest, chosen, seen>>

Update ==
  /\ job.at = "idle"
  /\ \E m \in Manifest :
       Accepted(m) /\ job' = [at |-> "write", kind |-> "update", manifest |-> m]
  /\ OtaBegin

\* ota-stage-self and ota-reject-corrupt of the HIL build
CopyRunning ==
  /\ job.at = "idle"
  /\ \E kind \in {"self", "corrupt"} : job' = [at |-> "write", kind |-> kind]
  /\ OtaBegin

\* A download or copy that stops half-way, or one that ends with an image other
\* than the one it should be.  esp_ota_end would refuse a broken one only.
WriteFails ==
  /\ job.at = "write"
  /\ \E content \in ReleaseNo \cup {Broken} :
       /\ image' = [image EXCEPT ![Target] = content]
       /\ content # Broken => job.kind = "update" /\ content # job.manifest.digest
  /\ job' = NoJob
  /\ UNCHANGED <<otastate, boot, running, highest, chosen, seen, spoilt>>

\* The digest and esp_ota_end agree to what was written.
Write ==
  /\ job.at = "write"
  /\ \/ /\ job.kind = "update"
        /\ image' = [image EXCEPT ![Target] = job.manifest.digest]
        /\ job' = [job EXCEPT !.at = "persist"]
     \/ /\ job.kind = "self"
        /\ image' = [image EXCEPT ![Target] = image[running]]
        /\ job' = [job EXCEPT !.at = "select"]
  /\ UNCHANGED <<otastate, boot, running, highest, chosen, seen, spoilt>>

PersistNothing ==
  /\ job.at = "persist"
  /\ job' = [job EXCEPT !.at = "select"]
  /\ UNCHANGED <<image, otastate, boot, running, highest, chosen, seen, spoilt>>

\* persist_highest_sequence; when it fails, the number may have been stored.
Persist ==
  /\ job.at = "persist"
  /\ \/ highest' = job.manifest.sequence /\ job' = [job EXCEPT !.at = "select"]
     \/ highest' \in {highest, job.manifest.sequence} /\ job' = NoJob
  /\ UNCHANGED <<image, otastate, boot, running, chosen, seen, spoilt>>

\* esp_ota_set_boot_partition
Select ==
  /\ job.at = "select"
  /\ \/ /\ boot' = Target
        /\ otastate' = [otastate EXCEPT ![Target] = "NEW"]
        /\ chosen' = [chosen EXCEPT ![Target] =
                        IF job.kind = "update" THEN job.manifest.sequence ELSE image[running]]
        /\ seen' = IF job.kind = "update" THEN Max({seen, job.manifest.sequence}) ELSE seen
        /\ spoilt' = spoilt \ {Target}
     \/ UNCHANGED <<boot, otastate, chosen, seen, spoilt>>
  /\ job' = NoJob
  /\ UNCHANGED <<image, running, highest>>

\* cirvane_ota_confirm; the write to otadata may fail.
Confirm ==
  /\ job.at = "idle"
  /\ otastate[running] = "PENDING"
  /\ otastate' = [otastate EXCEPT ![running] = "VALID"]
  /\ UNCHANGED <<image, boot, running, highest, job, chosen, seen, spoilt>>

\* A reset and the bootloader: the image on trial that was not confirmed is
\* given up, a new one goes on trial, one that is not whole is passed over.
\* app_main may then have to erase NVS.
Restart ==
  LET aborted  == [p \in Part |-> IF otastate[p] = "PENDING" THEN "ABORTED" ELSE otastate[p]]
      selected == IF aborted[boot] = "ABORTED" THEN 1 - boot ELSE boot
      booted   == IF image[selected] = Broken THEN 1 - selected ELSE selected
  IN  /\ image[booted] # Broken
      /\ boot' = selected
      /\ running' = booted
      /\ otastate' = [p \in Part |-> IF p = booted /\ aborted[p] = "NEW" THEN "PENDING"
                                     ELSE aborted[p]]
      /\ job' = NoJob
      /\ \/ UNCHANGED <<highest, seen>>
         \/ highest' = 0 /\ seen' = 0
      /\ UNCHANGED <<image, chosen, spoilt>>

OtaNext ==
  Update \/ CopyRunning \/ Write \/ WriteFails \/ Persist \/ Select \/ Confirm \/ Restart

OtaSpec == OtaInit /\ [][OtaNext]_otaVars

-----------------------------------------------------------------------------
(* Properties.                                                             *)

\* What otadata selects for booting is the very image that was signed for the
\* release the update was to (or the running one, by stage-self), through every
\* failure and loss of power; except when a later update has begun to overwrite
\* it, which the code allows and reports as "current boot target preserved".
SelectedIsVerified == boot \notin spoilt => image[boot] = chosen[boot]

\* The device can boot: the running partition holds a whole image that was not
\* given up, and when it is on trial, so does the other one to fall back to.
AlwaysBootable ==
  /\ image[running] # Broken
  /\ otastate[running] # "ABORTED"
  /\ otastate[running] = "PENDING" => image[1 - running] # Broken

\* An image on trial that was not confirmed is given up at the next reset, and the
\* device is back on the other partition, which still holds a whole image: no
\* update has begun to overwrite it since.
UnconfirmedRollsBack ==
  [][Restart /\ otastate[running] = "PENDING" =>
       image[Target] # Broken /\ running' = Target /\ boot' = Target]_otaVars

\* An update selects a release above every one selected by an update since NVS
\* was last erased, and above the running one: replay protection holds across
\* power failures and rollbacks.
ReplayRefused ==
  [][Select /\ job.kind = "update" /\ boot' = Target /\ otastate'[Target] = "NEW" =>
       job.manifest.sequence > Max({seen, image[running]})]_otaVars

=============================================================================
