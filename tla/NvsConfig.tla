----------------------------- MODULE NvsConfig -----------------------------
(***************************************************************************)
(* The configuration of the firmware (main/cirvane_os.c): two NVS blobs,   *)
(* written in turn by generation, of which a boot takes the newest valid   *)
(* one.  The console changes it with the config command; the tick of the   *)
(* LED service refreshes the structure that this command edits.            *)
(*                                                                         *)
(* NVS replaces a blob as a whole: a write cut short leaves the old one or *)
(* the new one, and a stored blob can be read back (assumed of ESP-IDF).   *)
(* A blob that fails config_valid counts as none.  Generations wrap at     *)
(* 2^32; here they wrap at Span.  Left out: values out of range, which are *)
(* refused before anything is written.                                     *)
(***************************************************************************)
EXTENDS Integers

CONSTANTS
  Configs,   \* the values config_valid accepts
  Default,   \* config_defaults
  NoRecord,  \* no blob, or one that config_valid rejects
  Span       \* number of generations; the code's is 2^32

VARIABLES
  records,     \* the blobs cfg0 and cfg1
  live,        \* s_config
  generation,  \* s_config_generation
  edit,        \* s_os_config, of the console and the LED service
  commit,      \* where boot, command or test are, and the record they write
  acked,       \* history: as in DurableConfig
  tried        \* history: as in DurableConfig

nvsVars == <<records, live, generation, edit, commit, acked, tried>>

Blob       == {0, 1}
Generation == 0 .. Span - 1
Record     == [generation : Generation, config : Configs]

ASSUME NvsAssumption ==
  /\ Default \in Configs
  /\ NoRecord \notin Record
  /\ Span \in Nat /\ Span >= 4 /\ Span % 2 = 0

NvsType ==
  /\ records \in [Blob -> Record \cup {NoRecord}]
  /\ live \in Configs /\ edit \in Configs /\ acked \in Configs
  /\ generation \in Generation
  /\ commit \in [at : {"boot", "idle", "asked", "write", "verify", "reload", "again"},
                 record : Record]
  /\ tried \subseteq Configs

Idle == [at |-> "idle", record |-> [generation |-> 0, config |-> Default]]
Boot == [Idle EXCEPT !.at = "boot"]

NvsInit ==
  /\ records = [b \in Blob |-> NoRecord]
  /\ live = Default /\ generation = 0 /\ edit = Default
  /\ commit = Boot
  /\ acked = Default /\ tried = {}

-----------------------------------------------------------------------------
(* cirvane_config_load, at boot and in the corruption test.                *)

NewerUnwrapped(candidate, reference) == candidate > reference

\* cirvane_serial_u32_newer
Newer(candidate, reference) ==
  LET distance == (candidate - reference) % Span
  IN  distance # 0 /\ distance < Span \div 2

Valid(b) == records[b] # NoRecord

Selected ==
  IF Valid(1) /\ (Valid(0) => Newer(records[1].generation, records[0].generation))
  THEN records[1]
  ELSE IF Valid(0) THEN records[0] ELSE Idle.record

Load ==
  /\ live' = Selected.config
  /\ generation' = Selected.generation
  /\ acked' = Selected.config
  /\ tried' = {}

\* app_main; a load that fails restarts the processor.
BootLoad ==
  /\ commit.at = "boot"
  /\ Load
  /\ edit' = Selected.config
  /\ commit' = Idle
  /\ UNCHANGED records

\* app_main has NVS erased when it is full or of a newer format.
EraseNvs ==
  /\ commit.at = "boot"
  /\ records' = [b \in Blob |-> NoRecord]
  /\ acked' = Default /\ tried' = {}
  /\ UNCHANGED <<live, generation, edit, commit>>

\* Loss of power or a restart, at any point.
ResetConfig ==
  /\ commit' = Boot
  /\ live' = Default /\ generation' = 0 /\ edit' = Default
  /\ UNCHANGED <<records, acked, tried>>

-----------------------------------------------------------------------------
(* cmd_config and cirvane_config_commit.                                   *)

\* cmd_config puts the operator's value into the shared structure.
Ask ==
  /\ commit.at = "idle"
  /\ edit' \in Configs
  /\ commit' = [commit EXCEPT !.at = "asked"]
  /\ UNCHANGED <<records, live, generation, acked, tried>>

\* led_service_tick, of a higher priority: also between Ask and Commit.
LedTick ==
  /\ commit.at # "boot"
  /\ edit' = live
  /\ UNCHANGED <<records, live, generation, commit, acked, tried>>

\* The record of the next generation, or an nvs_open that fails.
CommitConfig ==
  /\ commit.at \in {"asked", "again"}
  /\ LET config == IF commit.at = "asked" THEN edit ELSE live IN
       \/ /\ commit' = [at |-> "write", record |->
                          [generation |-> (generation + 1) % Span, config |-> config]]
          /\ tried' = tried \cup {config}
       \/ commit' = Idle /\ UNCHANGED tried
  /\ UNCHANGED <<records, live, generation, edit, acked>>

SlotOf(gen) == gen % 2

\* nvs_set_blob and nvs_commit
WriteRecord ==
  /\ commit.at = "write"
  /\ LET slot == SlotOf(commit.record.generation) IN
       \/ /\ records' = [records EXCEPT ![slot] = commit.record]
          /\ commit' \in {[commit EXCEPT !.at = "verify"], Idle}
       \/ UNCHANGED records /\ commit' = Idle
  /\ UNCHANGED <<live, generation, edit, acked, tried>>

\* The record read back is valid and of this generation, or cannot be read.
VerifyRecord ==
  /\ commit.at = "verify"
  /\ \/ /\ live' = commit.record.config
        /\ generation' = commit.record.generation
        /\ acked' = commit.record.config
        /\ tried' = {}
     \/ UNCHANGED <<live, generation, acked, tried>>
  /\ commit' = Idle
  /\ UNCHANGED <<records, edit>>

-----------------------------------------------------------------------------
(* cirvane_config_corruption_test.                                         *)

\* A record with a wrong CRC is written where the next one would go.
CorruptNext ==
  /\ commit.at = "idle"
  /\ LET slot == SlotOf((generation + 1) % Span) IN
       \/ /\ records' = [records EXCEPT ![slot] = NoRecord]
          /\ commit' \in {[commit EXCEPT !.at = "reload"], Idle}
       \/ UNCHANGED <<records, commit>>
  /\ UNCHANGED <<live, generation, edit, acked, tried>>

\* The load must fall back to what was in force, which is then committed again.
ReloadConfig ==
  /\ commit.at = "reload"
  /\ \/ /\ Load
        /\ commit' = IF generation' = generation /\ live' = live
                     THEN [commit EXCEPT !.at = "again"] ELSE Idle
     \/ commit' = Idle /\ UNCHANGED <<live, generation, acked, tried>>
  /\ UNCHANGED <<records, edit>>

-----------------------------------------------------------------------------

NvsNext ==
  \/ BootLoad \/ EraseNvs \/ ResetConfig
  \/ Ask \/ LedTick \/ CommitConfig \/ WriteRecord \/ VerifyRecord
  \/ CorruptNext \/ ReloadConfig

NvsSpec == NvsInit /\ [][NvsNext]_nvsVars

-----------------------------------------------------------------------------
(* Properties.                                                             *)

Durable == INSTANCE DurableConfig

Erased == records' = [b \in Blob |-> NoRecord] /\ acked' = Default /\ tried' = {} /\ live' = live

\* The firmware keeps the promise of the kernel's journal, DurableConfig: what a
\* boot loads is the configuration acknowledged last or one tried since, through
\* failed writes, resets, corruption and the wrap of the generation.  The only
\* other thing that can happen to it is the erasure of NVS.
DurableUnlessErased ==
  Durable!Init /\ [][Durable!Next \/ Erased]_<<live, acked, tried>>

=============================================================================
