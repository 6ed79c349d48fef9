----------------------------- MODULE Supervisor -----------------------------
(***************************************************************************)
(* The service manager of main/cirvane_os.c: service tasks, the supervisor *)
(* task and the operator's svcctl and svcfail, on one core under FreeRTOS. *)
(* The supervisor has the highest priority and does not block inside a     *)
(* sweep, so a sweep is one step, and it may come between any two steps of *)
(* the console, whose task runs only while every service task is blocked.  *)
(*                                                                         *)
(* Time is abstract: a restart timer runs out at some moment after it is   *)
(* set.  To create a task on a control block in use, or to delete a task   *)
(* twice, leaves the lists of the scheduler corrupt, and from then on the  *)
(* model makes no statement.                                               *)
(***************************************************************************)
EXTENDS Naturals

CONSTANTS
  ServiceCount,  \* s_service_count
  Policy,        \* desc.policy of each service
  Required,      \* the services with desc.required
  RestartLimit,  \* CIRVANE_RESTART_LIMIT
  MaxRestarts    \* bound of the model on svcctl restarts; info.restarts is uint16_t

Service == 0 .. ServiceCount - 1

ASSUME ServicesAssumption == ServiceCount \in Nat \ {0}
ASSUME PolicyAssumption == Policy \in [Service -> {"AUTO", "ONETIME", "NEVER"}]
ASSUME RestartLimitAssumption == RestartLimit \in Nat
ASSUME MaxRestartsAssumption == MaxRestarts \in Nat

VARIABLES
  phase,       \* info.phase
  handle,      \* slot->task # NULL
  task,        \* the task on the slot's control block
  reported,    \* slot->reported_health
  restarts,    \* info.restarts
  due,         \* restart_at_ms has passed
  state,       \* s_system_state
  supervisor,  \* "deleted" if the supervisor has deleted its own task
  kicked,      \* the supervisor has been notified: it is the next to run
  console,     \* the command under way: its next step, and its service
  corrupt,     \* FreeRTOS's lists are not what they were
  calm,        \* the run is without svcctl, and a new task is past its init
               \* by the next sweep (os.h: "must not block long")
  supervised   \* history: the restarts the supervisor has scheduled

taskVars == <<phase, handle, task, reported, restarts, due, supervised>>
vars == <<phase, handle, task, reported, restarts, due, state, supervisor, kicked,
          console, corrupt, calm, supervised>>

Phases  == {"INIT", "RUNNING", "STOPPED", "BACKOFF", "FAILED"}
Healths == {"OK", "DEGRADED", "FAILED"}

\* A task is new until service_task has called init.  It is ready inside a tick,
\* unless the tick waits for something, and blocked between two ticks.
Tasks == {"none", "new", "ready", "blocked"}

Steps ==
  {"prompt", "kick", "stop delete", "stop clear", "stop phase",
   "restart delete", "restart clear", "restart count", "start", "create", "assign",
   "gone"}

AtPrompt == [step |-> "prompt", service |-> 0]

\* What cirvane_manager_start leaves.
Init ==
  /\ phase = [s \in Service |-> "INIT"]
  /\ handle = [s \in Service |-> TRUE]
  /\ task = [s \in Service |-> "new"]
  /\ reported = [s \in Service |-> "OK"]
  /\ restarts = [s \in Service |-> 0]
  /\ due = [s \in Service |-> FALSE]
  /\ state = "NOMINAL"
  /\ supervisor = "running"
  /\ kicked = FALSE
  /\ console = AtPrompt
  /\ corrupt = FALSE
  /\ calm \in BOOLEAN
  /\ supervised = [s \in Service |-> 0]

\* Nobody else runs between the notification of the supervisor and its sweep.
Runs == ~corrupt /\ ~kicked

-----------------------------------------------------------------------------
(* A service task.                                                         *)

TaskInitKeepingPhase(s) ==
  /\ Runs
  /\ task[s] = "new"
  /\ task' = [task EXCEPT ![s] = "ready"]
  /\ reported' = [reported EXCEPT ![s] = "OK"]
  /\ UNCHANGED <<phase, handle, restarts, due, state, supervisor, kicked, console,
                 corrupt, calm, supervised>>

\* service_task up to its loop.
TaskInit(s) ==
  /\ Runs
  /\ task[s] = "new"
  /\ task' = [task EXCEPT ![s] = "ready"]
  /\ phase' = [phase EXCEPT ![s] = "RUNNING"]
  /\ reported' = [reported EXCEPT ![s] = "OK"]
  /\ UNCHANGED <<handle, restarts, due, state, supervisor, kicked, console,
                 corrupt, calm, supervised>>

\* cirvane_service_report_health from the service's tick.
TaskReport(s) ==
  /\ Runs
  /\ task[s] = "ready"
  /\ \E health \in Healths : reported' = [reported EXCEPT ![s] = health]
  /\ UNCHANGED <<phase, handle, task, restarts, due, state, supervisor, kicked,
                 console, corrupt, calm, supervised>>

TaskBlock(s) ==
  /\ Runs
  /\ task[s] = "ready"
  /\ task' = [task EXCEPT ![s] = "blocked"]
  /\ UNCHANGED <<phase, handle, reported, restarts, due, state, supervisor, kicked,
                 console, corrupt, calm, supervised>>

TaskWake(s) ==
  /\ Runs
  /\ task[s] = "blocked"
  /\ task' = [task EXCEPT ![s] = "ready"]
  /\ UNCHANGED <<phase, handle, reported, restarts, due, state, supervisor, kicked,
                 console, corrupt, calm, supervised>>

-----------------------------------------------------------------------------
(* The supervisor.                                                         *)

Failing(s) == reported[s] = "FAILED" /\ phase[s] = "RUNNING"

MayRestartOneTooMany(s) ==
  \/ Policy[s] = "AUTO" /\ restarts[s] <= RestartLimit
  \/ Policy[s] = "ONETIME" /\ restarts[s] = 0

MayRestartOnce(s) == Policy[s] # "NEVER" /\ restarts[s] = 0

MayRestart(s) ==
  \/ Policy[s] = "AUTO" /\ restarts[s] < RestartLimit
  \/ Policy[s] = "ONETIME" /\ restarts[s] = 0

StartsAgainIfHealthy(s) == phase[s] = "BACKOFF" /\ due[s] /\ reported[s] # "FAILED"

StartsAgain(s) == phase[s] = "BACKOFF" /\ due[s]

\* The slots the sweep gets to: all, or those before the first whose task it
\* would delete through a NULL handle, which deletes the supervisor.
SelfDeletes(s) == Failing(s) /\ ~handle[s]
Swept == {s \in Service : \A t \in 0 .. s : ~SelfDeletes(t)}

\* A second deletion, or a second task on a control block in use.
Misused(s) ==
  \/ Failing(s) /\ task[s] = "none"
  \/ StartsAgain(s) /\ task[s] # "none"

SlotsSwept ==
  /\ phase' = [s \in Service |->
       IF s \in Swept /\ Failing(s)
       THEN IF MayRestart(s) THEN "BACKOFF" ELSE "FAILED"
       ELSE phase[s]]
  /\ LET again == {s \in Swept : Failing(s) /\ MayRestart(s)}
     IN  /\ restarts' = [s \in Service |-> IF s \in again THEN restarts[s] + 1 ELSE restarts[s]]
         /\ supervised' = [s \in Service |->
              IF s \in again THEN supervised[s] + 1 ELSE supervised[s]]
         /\ due' = [s \in Service |-> due[s] /\ s \notin again]
  /\ handle' = [s \in Service |->
       IF s \in Swept THEN (handle[s] /\ ~Failing(s)) \/ StartsAgain(s) ELSE handle[s]]
  /\ task' = [s \in Service |->
       IF s \in Swept /\ Failing(s) THEN "none"
       ELSE IF s \in Swept /\ StartsAgain(s) THEN "new"
       ELSE task[s]]
  /\ reported' = [s \in Service |->
       IF s \in Swept /\ StartsAgain(s) THEN "OK" ELSE reported[s]]
  /\ corrupt' = \E s \in Swept : Misused(s)

\* s_system_state, which the sweep sets to NOMINAL first.
StateFromPhases ==
  state' = IF \E s \in Swept \cap Required : phase'[s] = "BACKOFF"
           THEN "DEGRADED" ELSE "NOMINAL"

StateSwept ==
  state' = IF \E s \in Swept \cap Required : phase'[s] # "RUNNING" \/ reported'[s] # "OK"
           THEN "DEGRADED" ELSE "NOMINAL"

\* One turn of the loop of supervisor_task, at its period or when kicked.
Sweep ==
  /\ ~corrupt
  /\ supervisor = "running"
  /\ calm => \A s \in Service : task[s] # "new"
  /\ SlotsSwept
  /\ StateSwept
  /\ supervisor' = IF Swept = Service THEN "running" ELSE "deleted"
  /\ kicked' = FALSE
  /\ UNCHANGED <<console, calm>>

TimerRunsOut(s) ==
  /\ ~corrupt
  /\ phase[s] = "BACKOFF"
  /\ ~due[s]
  /\ due' = [due EXCEPT ![s] = TRUE]
  /\ UNCHANGED <<phase, handle, task, reported, restarts, state, supervisor, kicked,
                 console, corrupt, calm, supervised>>

-----------------------------------------------------------------------------
(* The console.                                                            *)

Interactive == Runs /\ \A s \in Service : task[s] \in {"none", "blocked"}

At(step) == Interactive /\ console.step = step

GoTo(step) == console' = [console EXCEPT !.step = step]

\* svcfail: the report, then the kick.
SvcFail(s) ==
  /\ At("prompt")
  /\ reported' = [reported EXCEPT ![s] = "FAILED"]
  /\ console' = [step |-> "kick", service |-> s]
  /\ UNCHANGED <<phase, handle, task, restarts, due, state, supervisor, kicked,
                 corrupt, calm, supervised>>

Kick ==
  /\ At("kick")
  /\ kicked' = (supervisor = "running")
  /\ console' = AtPrompt
  /\ UNCHANGED taskVars
  /\ UNCHANGED <<state, supervisor, corrupt, calm>>

\* svcctl, up to the first test of the slot.
SvcCtl(s, action) ==
  /\ At("prompt")
  /\ ~calm
  /\ \/ /\ action = "stop"
        /\ console' = [step |-> IF handle[s] THEN "stop delete" ELSE "stop phase", service |-> s]
     \/ /\ action = "restart"
        /\ restarts[s] < MaxRestarts
        /\ console' = [step |-> IF handle[s] THEN "restart delete" ELSE "restart count",
                       service |-> s]
     \/ /\ action = "start"
        /\ phase[s] \in {"STOPPED", "FAILED"}
        /\ console' = [step |-> "start", service |-> s]
  /\ UNCHANGED taskVars
  /\ UNCHANGED <<state, supervisor, kicked, corrupt, calm>>

\* vTaskDelete of the handle that was tested.  If a sweep has deleted the task
\* since, the compiled code uses the stale handle, and the task is deleted twice, or
\* reads the NULL that is there now, and the console deletes itself.
DeleteTask ==
  /\ At("stop delete") \/ At("restart delete")
  /\ LET s == console.service
     IN  \/ /\ handle[s]
            /\ task' = [task EXCEPT ![s] = "none"]
            /\ GoTo(IF console.step = "stop delete" THEN "stop clear" ELSE "restart clear")
            /\ UNCHANGED corrupt
         \/ ~handle[s] /\ corrupt' = TRUE /\ UNCHANGED <<task, console>>
         \/ ~handle[s] /\ GoTo("gone") /\ UNCHANGED <<task, corrupt>>
  /\ UNCHANGED <<phase, handle, reported, restarts, due, state, supervisor, kicked,
                 calm, supervised>>

ClearHandle ==
  /\ \/ At("stop clear") /\ GoTo("stop phase")
     \/ At("restart clear") /\ GoTo("restart count")
  /\ handle' = [handle EXCEPT ![console.service] = FALSE]
  /\ UNCHANGED <<phase, task, reported, restarts, due, state, supervisor, kicked,
                 corrupt, calm, supervised>>

StopPhase ==
  /\ At("stop phase")
  /\ phase' = [phase EXCEPT ![console.service] = "STOPPED"]
  /\ console' = AtPrompt
  /\ UNCHANGED <<handle, task, reported, restarts, due, state, supervisor, kicked,
                 corrupt, calm, supervised>>

RestartCountDown ==
  /\ At("restart count")
  /\ restarts' = [restarts EXCEPT ![console.service] = @ - 1]
  /\ GoTo("start")
  /\ UNCHANGED <<phase, handle, task, reported, due, state, supervisor, kicked,
                 corrupt, calm, supervised>>

RestartCount ==
  /\ At("restart count")
  /\ restarts' = [restarts EXCEPT ![console.service] = @ + 1]
  /\ GoTo("start")
  /\ UNCHANGED <<phase, handle, task, reported, due, state, supervisor, kicked,
                 corrupt, calm, supervised>>

\* start_service, in three steps: the new task runs before the console has its
\* handle, since its priority is higher.
StartReported ==
  /\ At("start")
  /\ reported' = [reported EXCEPT ![console.service] = "OK"]
  /\ GoTo("create")
  /\ UNCHANGED <<phase, handle, task, restarts, due, state, supervisor, kicked,
                 corrupt, calm, supervised>>

CreateTask ==
  /\ At("create")
  /\ LET s == console.service
     IN  /\ task' = [task EXCEPT ![s] = "new"]
         /\ corrupt' = (task[s] # "none")
  /\ GoTo("assign")
  /\ UNCHANGED <<phase, handle, reported, restarts, due, state, supervisor, kicked,
                 calm, supervised>>

AssignHandle ==
  /\ At("assign")
  /\ handle' = [handle EXCEPT ![console.service] = TRUE]
  /\ console' = AtPrompt
  /\ UNCHANGED <<phase, task, reported, restarts, due, state, supervisor, kicked,
                 corrupt, calm, supervised>>

-----------------------------------------------------------------------------
TaskStep(s) == TaskInit(s) \/ TaskReport(s) \/ TaskBlock(s) \/ TaskWake(s)

ConsoleStep ==
  \/ Kick
  \/ DeleteTask
  \/ ClearHandle
  \/ StopPhase
  \/ RestartCount
  \/ StartReported
  \/ CreateTask
  \/ AssignHandle

Next ==
  \/ \E s \in Service : TaskStep(s) \/ TimerRunsOut(s) \/ SvcFail(s)
  \/ \E s \in Service, action \in {"start", "stop", "restart"} : SvcCtl(s, action)
  \/ Sweep
  \/ ConsoleStep

\* The supervisor waits a bounded time for a notification, a timer runs out, and
\* a new task gets to run: its priority is above the console's.
Spec ==
  /\ Init /\ [][Next]_vars
  /\ WF_vars(Sweep)
  /\ \A s \in Service : WF_vars(TaskInit(s)) /\ WF_vars(TimerRunsOut(s))

-----------------------------------------------------------------------------
(* Properties.                                                             *)

\* The slots, the console and the supervisor are in states the code knows.
TypeOK ==
  /\ phase \in [Service -> Phases]
  /\ handle \in [Service -> BOOLEAN]
  /\ task \in [Service -> Tasks]
  /\ reported \in [Service -> Healths]
  /\ restarts \in [Service -> Nat]
  /\ due \in [Service -> BOOLEAN]
  /\ state \in {"NOMINAL", "DEGRADED"}
  /\ supervisor \in {"running", "deleted"}
  /\ kicked \in BOOLEAN
  /\ console \in [step : Steps, service : Service]
  /\ corrupt \in BOOLEAN
  /\ calm \in BOOLEAN
  /\ supervised \in [Service -> Nat]

\* What cirvane_os.h:42-48 allows the supervisor to restart on its own.
Allowance(s) ==
  CASE Policy[s] = "AUTO"    -> RestartLimit
    [] Policy[s] = "ONETIME" -> 1
    [] Policy[s] = "NEVER"   -> 0

\* "restart once per boot", "never restart; a dead task stays dead": the supervisor
\* stays within the policy however its restarts mix with the operator's starts,
\* stops and restarts, which count as restarts too.
RestartsWithinPolicy == \A s \in Service : supervised[s] <= Allowance(s)

\* SVC_PHASE_FAILED, "restart policy exhausted": the supervisor gives a service up
\* only when the restarts counted for it, its own and the operator's, are spent.
FailedOnlyWhenExhausted ==
  \A s \in Service : phase[s] = "FAILED" => restarts[s] >= Allowance(s)

\* With no svcctl to interfere, and every new task past its init by the next sweep,
\* the supervisor never deletes itself, never deletes a task twice and never starts
\* one on a control block in use; handle, task and phase of a slot agree at every
\* moment, however reports, injected failures and timers fall between the sweeps.
CalmIsOrderly ==
  calm =>
    /\ ~corrupt
    /\ supervisor = "running"
    /\ \A s \in Service :
         /\ handle[s] <=> task[s] # "none"
         /\ task[s] = "none" => phase[s] \in {"BACKOFF", "FAILED"}
         /\ task[s] = "new" => phase[s] \in {"INIT", "BACKOFF"}
         /\ task[s] \in {"ready", "blocked"} => phase[s] = "RUNNING"

\* "restart with backoff": a service in backoff runs again, whatever the others do.
BackoffEnds == \A s \in Service : calm /\ phase[s] = "BACKOFF" ~> phase[s] = "RUNNING"

\* "give up to degraded mode": once a required service is given up, the system is
\* reported degraded and stays so.
GivesUpToDegraded ==
  \A s \in Required : calm /\ <>(phase[s] = "FAILED") => <>[](state = "DEGRADED")

\* SVC_PHASE_STOPPED, "intentionally stopped via svcctl": no task of the service
\* runs, unless the operator is starting it again.
StoppedIsStopped ==
  \A s \in Service :
    phase[s] = "STOPPED" /\ console.step = "prompt" => task[s] \in {"none", "new"}

=============================================================================
