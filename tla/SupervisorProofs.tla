-------------------------- MODULE SupervisorProofs --------------------------
(***************************************************************************)
(* Theorems about Supervisor, for any number of services, any policies and *)
(* any restart limit.                                                      *)
(***************************************************************************)
EXTENDS Supervisor, TLAPS

USE ServicesAssumption, PolicyAssumption, RestartLimitAssumption, MaxRestartsAssumption

-----------------------------------------------------------------------------
(* The inductive invariant.                                                *)

\* Every restart the supervisor schedules is counted, within the allowance.
RestartsCounted ==
  \A s \in Service : supervised[s] <= restarts[s] /\ supervised[s] <= Allowance(s)

\* Without svcctl the console is at its prompt or about to kick.
CalmConsole == calm => console.step \in {"prompt", "kick"}

IInv ==
  /\ TypeOK
  /\ RestartsCounted
  /\ FailedOnlyWhenExhausted
  /\ CalmIsOrderly
  /\ CalmConsole

LEMMA AllowanceType == ASSUME NEW s \in Service PROVE Allowance(s) \in Nat
BY DEF Allowance

LEMMA InitInv == Init => IInv
<1> SUFFICES ASSUME Init PROVE IInv
  OBVIOUS
<1> USE DEF Init
<1>1. TypeOK
  <2>1. 0 \in Service
    BY DEF Service
  <2>2. console \in [step : Steps, service : Service]
    BY <2>1 DEF AtPrompt, Steps
  <2>3. QED
    BY <2>2 DEF TypeOK, Phases, Tasks, Healths
<1>2. RestartsCounted
  BY AllowanceType DEF RestartsCounted
<1>3. FailedOnlyWhenExhausted /\ CalmIsOrderly
  BY DEF FailedOnlyWhenExhausted, CalmIsOrderly
<1>4. CalmConsole
  BY DEF CalmConsole, AtPrompt
<1>5. QED
  BY <1>1, <1>2, <1>3, <1>4 DEF IInv

-----------------------------------------------------------------------------
(* Steps that leave the counters alone keep what is said of them, unless   *)
(* they give a service up.                                                 *)

LEMMA CountersKept ==
  ASSUME IInv, UNCHANGED <<restarts, supervised>>,
         \A s \in Service : phase'[s] = "FAILED" => phase[s] = "FAILED"
  PROVE  RestartsCounted' /\ FailedOnlyWhenExhausted'
BY DEF IInv, RestartsCounted, FailedOnlyWhenExhausted, Allowance

\* The slots, of which a step of a task or the console changes one, stay in order.
LEMMA OrderKept ==
  ASSUME IInv, UNCHANGED <<calm, phase, handle, task, corrupt, supervisor>>
  PROVE  CalmIsOrderly'
BY DEF IInv, CalmIsOrderly

-----------------------------------------------------------------------------
(* Service tasks and timers.                                               *)

LEMMA TaskInitInv == ASSUME IInv, NEW s \in Service, TaskInit(s) PROVE IInv'
<1> USE DEF IInv
<1>1. /\ task[s] = "new" /\ ~corrupt
      /\ task' = [task EXCEPT ![s] = "ready"]
      /\ phase' = [phase EXCEPT ![s] = "RUNNING"]
      /\ reported' = [reported EXCEPT ![s] = "OK"]
      /\ UNCHANGED <<handle, restarts, due, state, supervisor, kicked, console, corrupt,
                     calm, supervised>>
  BY DEF TaskInit, Runs
<1>2. TypeOK'
  BY <1>1 DEF TypeOK, Tasks, Phases, Healths
<1>3. RestartsCounted' /\ FailedOnlyWhenExhausted'
  BY <1>1, CountersKept DEF TypeOK
<1>4. CalmIsOrderly'
  BY <1>1 DEF CalmIsOrderly, TypeOK
<1>5. QED
  BY <1>1, <1>2, <1>3, <1>4 DEF CalmConsole

LEMMA TaskReportInv == ASSUME IInv, NEW s \in Service, TaskReport(s) PROVE IInv'
<1> USE DEF IInv
<1>1. PICK health \in Healths : reported' = [reported EXCEPT ![s] = health]
  BY DEF TaskReport
<1>2. UNCHANGED <<phase, handle, task, restarts, due, state, supervisor, kicked, console,
                  corrupt, calm, supervised>>
  BY DEF TaskReport
<1>3. TypeOK'
  BY <1>1, <1>2 DEF TypeOK
<1>4. QED
  BY <1>2, <1>3, CountersKept, OrderKept DEF CalmConsole

\* A tick ends or begins.
LEMMA TaskPausedInv ==
  ASSUME IInv, NEW s \in Service, TaskBlock(s) \/ TaskWake(s)
  PROVE  IInv'
<1> USE DEF IInv
<1>1. PICK paused \in {"ready", "blocked"} : task' = [task EXCEPT ![s] = paused]
  BY DEF TaskBlock, TaskWake
<1>2. /\ task[s] \in {"ready", "blocked"}
      /\ UNCHANGED <<phase, handle, reported, restarts, due, state, supervisor, kicked,
                     console, corrupt, calm, supervised>>
  BY DEF TaskBlock, TaskWake
<1>3. TypeOK'
  BY <1>1, <1>2 DEF TypeOK, Tasks
<1>4. CalmIsOrderly'
  BY <1>1, <1>2 DEF CalmIsOrderly, TypeOK
<1>5. QED
  BY <1>2, <1>3, <1>4, CountersKept DEF CalmConsole

LEMMA TimerRunsOutInv == ASSUME IInv, NEW s \in Service, TimerRunsOut(s) PROVE IInv'
<1> USE DEF IInv
<1>1. /\ due' = [due EXCEPT ![s] = TRUE]
      /\ UNCHANGED <<phase, handle, task, reported, restarts, state, supervisor, kicked,
                     console, corrupt, calm, supervised>>
  BY DEF TimerRunsOut
<1>2. TypeOK'
  BY <1>1 DEF TypeOK
<1>3. QED
  BY <1>1, <1>2, CountersKept, OrderKept DEF CalmConsole

-----------------------------------------------------------------------------
(* The sweep.                                                              *)

LEMMA SweepInv == ASSUME IInv, Sweep PROVE IInv'
<1> USE DEF IInv
<1> DEFINE again == {s \in Swept : Failing(s) /\ MayRestart(s)}
<1>1. /\ calm => \A s \in Service : task[s] # "new"
      /\ phase' = [s \in Service |->
           IF s \in Swept /\ Failing(s)
           THEN IF MayRestart(s) THEN "BACKOFF" ELSE "FAILED"
           ELSE phase[s]]
      /\ restarts' = [s \in Service |-> IF s \in again THEN restarts[s] + 1 ELSE restarts[s]]
      /\ supervised' = [s \in Service |->
           IF s \in again THEN supervised[s] + 1 ELSE supervised[s]]
      /\ due' = [s \in Service |-> due[s] /\ s \notin again]
      /\ handle' = [s \in Service |->
           IF s \in Swept THEN (handle[s] /\ ~Failing(s)) \/ StartsAgain(s) ELSE handle[s]]
      /\ task' = [s \in Service |->
           IF s \in Swept /\ Failing(s) THEN "none"
           ELSE IF s \in Swept /\ StartsAgain(s) THEN "new"
           ELSE task[s]]
      /\ reported' = [s \in Service |->
           IF s \in Swept /\ StartsAgain(s) THEN "OK" ELSE reported[s]]
      /\ corrupt' = \E s \in Swept : Misused(s)
      /\ supervisor' = IF Swept = Service THEN "running" ELSE "deleted"
      /\ kicked' = FALSE
      /\ UNCHANGED <<console, calm>>
  BY DEF Sweep, SlotsSwept
<1>2. state' \in {"NOMINAL", "DEGRADED"}
  BY DEF Sweep, StateSwept
<1>3. Swept \subseteq Service
  BY DEF Swept
<1>4. TypeOK'
  <2>1. phase' \in [Service -> Phases]
    BY <1>1 DEF TypeOK, Phases
  <2>2. restarts' \in [Service -> Nat] /\ supervised' \in [Service -> Nat]
    BY <1>1 DEF TypeOK
  <2>3. due' \in [Service -> BOOLEAN]
    BY <1>1 DEF TypeOK
  <2>4. handle' \in [Service -> BOOLEAN]
    <3>1. \A s \in Service :
            (IF s \in Swept THEN (handle[s] /\ ~Failing(s)) \/ StartsAgain(s) ELSE handle[s])
              \in BOOLEAN
      BY DEF TypeOK
    <3>2. QED
      BY <1>1, <3>1, Zenon
  <2>5. task' \in [Service -> Tasks]
    BY <1>1 DEF TypeOK, Tasks
  <2>6. reported' \in [Service -> Healths]
    BY <1>1 DEF TypeOK, Healths
  <2>7. corrupt' \in BOOLEAN
    BY <1>1
  <2>8. QED
    BY <1>1, <1>2, <2>1, <2>2, <2>3, <2>4, <2>5, <2>6, <2>7 DEF TypeOK
<1>5. RestartsCounted'
  <2> SUFFICES ASSUME NEW s \in Service
               PROVE  supervised'[s] <= restarts'[s] /\ supervised'[s] <= Allowance(s)
    BY DEF RestartsCounted, Allowance
  <2>1. supervised[s] \in Nat /\ restarts[s] \in Nat /\ supervised[s] <= restarts[s]
        /\ supervised[s] <= Allowance(s) /\ Allowance(s) \in Nat
    BY AllowanceType DEF RestartsCounted, TypeOK
  <2>2. CASE s \in again
    <3>1. restarts[s] < Allowance(s)
      BY <2>1, <2>2 DEF MayRestart, Allowance
    <3>2. QED
      BY <1>1, <2>1, <2>2, <3>1
  <2>3. CASE s \notin again
    BY <1>1, <2>1, <2>3
  <2>4. QED
    BY <2>2, <2>3
<1>6. FailedOnlyWhenExhausted'
  <2> SUFFICES ASSUME NEW s \in Service, phase'[s] = "FAILED"
               PROVE  restarts'[s] >= Allowance(s)
    BY DEF FailedOnlyWhenExhausted, Allowance
  <2>1. /\ restarts[s] \in Nat /\ restarts'[s] \in Nat /\ Allowance(s) \in Nat
        /\ restarts'[s] >= restarts[s]
    BY <1>1, AllowanceType DEF TypeOK
  <2>2. CASE phase[s] = "FAILED"
    BY <2>1, <2>2 DEF FailedOnlyWhenExhausted
  <2>3. CASE ~MayRestart(s)
    <3>1. Policy[s] \in {"AUTO", "ONETIME", "NEVER"}
      BY PolicyAssumption
    <3>2. restarts[s] >= Allowance(s)
      BY <2>1, <2>3, <3>1, RestartLimitAssumption DEF MayRestart, Allowance
    <3>3. QED
      BY <2>1, <3>2
  <2>4. QED
    BY <1>1, <2>2, <2>3
<1>7. CalmIsOrderly'
  <2> SUFFICES ASSUME calm PROVE CalmIsOrderly'
    BY <1>1 DEF CalmIsOrderly
  <2>1. \A s \in Service :
          /\ handle[s] <=> task[s] # "none"
          /\ task[s] # "new"
          /\ task[s] = "none" => phase[s] \in {"BACKOFF", "FAILED"}
          /\ task[s] \in {"ready", "blocked"} => phase[s] = "RUNNING"
    BY <1>1 DEF CalmIsOrderly
  <2>2. \A s \in Service : task[s] \in {"none", "ready", "blocked"}
    BY <2>1 DEF TypeOK, Tasks
  <2>3. \A s \in Service : ~SelfDeletes(s) /\ ~Misused(s)
    BY <2>1, <2>2 DEF SelfDeletes, Misused, Failing, StartsAgain
  <2>4. Swept = Service
    <3>1. \A s \in Service : \A t \in 0 .. s : t \in Service
      BY DEF Service
    <3>2. QED
      BY <2>3, <3>1 DEF Swept
  <2>5. ~corrupt' /\ supervisor' = "running"
    BY <1>1, <2>3, <2>4
  <2>6. ASSUME NEW s \in Service
        PROVE  /\ handle'[s] <=> task'[s] # "none"
               /\ task'[s] = "none" => phase'[s] \in {"BACKOFF", "FAILED"}
               /\ task'[s] = "new" => phase'[s] \in {"INIT", "BACKOFF"}
               /\ task'[s] \in {"ready", "blocked"} => phase'[s] = "RUNNING"
    <3>1. CASE Failing(s)
      <4>1. ~StartsAgain(s)
        BY <3>1 DEF Failing, StartsAgain
      <4>2. ~handle'[s] /\ task'[s] = "none" /\ phase'[s] \in {"BACKOFF", "FAILED"}
        BY <1>1, <2>4, <3>1, <4>1
      <4>3. QED
        BY <4>2
    <3>2. CASE StartsAgain(s)
      <4>1. ~Failing(s) /\ phase[s] = "BACKOFF"
        BY <3>2 DEF Failing, StartsAgain
      <4>2. handle'[s] /\ task'[s] = "new" /\ phase'[s] = "BACKOFF"
        BY <1>1, <2>4, <3>2, <4>1
      <4>3. QED
        BY <4>2
    <3>3. CASE ~Failing(s) /\ ~StartsAgain(s)
      <4>1. (handle'[s] <=> handle[s]) /\ task'[s] = task[s] /\ phase'[s] = phase[s]
        BY <1>1, <2>4, <3>3
      <4>2. QED
        BY <2>1, <4>1
    <3>4. QED
      BY <3>1, <3>2, <3>3
  <2>7. QED
    BY <2>5, <2>6 DEF CalmIsOrderly
<1>8. QED
  BY <1>1, <1>4, <1>5, <1>6, <1>7 DEF CalmConsole

-----------------------------------------------------------------------------
(* The console.  Its steps beyond the prompt and the kick come from svcctl, *)
(* which a calm run is without.                                             *)

LEMMA PromptType == AtPrompt \in [step : Steps, service : Service]
BY DEF AtPrompt, Steps, Service

LEMMA SvcFailInv == ASSUME IInv, NEW s \in Service, SvcFail(s) PROVE IInv'
<1> USE DEF IInv
<1>1. /\ reported' = [reported EXCEPT ![s] = "FAILED"]
      /\ console' = [step |-> "kick", service |-> s]
      /\ UNCHANGED <<phase, handle, task, restarts, due, state, supervisor, kicked,
                     corrupt, calm, supervised>>
  BY DEF SvcFail
<1>2. TypeOK'
  BY <1>1 DEF TypeOK, Healths, Steps
<1>3. QED
  BY <1>1, <1>2, CountersKept, OrderKept DEF CalmConsole

LEMMA KickInv == ASSUME IInv, Kick PROVE IInv'
<1> USE DEF IInv
<1>1. /\ kicked' \in BOOLEAN
      /\ console' = AtPrompt
      /\ UNCHANGED <<phase, handle, task, reported, restarts, due, supervised, state,
                     supervisor, corrupt, calm>>
  BY DEF Kick, taskVars
<1>2. TypeOK'
  BY <1>1, PromptType DEF TypeOK
<1>3. QED
  BY <1>1, <1>2, CountersKept, OrderKept DEF CalmConsole, AtPrompt

LEMMA SvcCtlInv ==
  ASSUME IInv, NEW s \in Service, NEW action, SvcCtl(s, action)
  PROVE  IInv'
<1> USE DEF IInv
<1>1. /\ ~calm
      /\ UNCHANGED <<phase, handle, task, reported, restarts, due, supervised, state,
                     supervisor, kicked, corrupt, calm>>
  BY DEF SvcCtl, taskVars
<1>2. console' \in [step : Steps, service : Service]
  <2>1. PICK step \in Steps : console' = [step |-> step, service |-> s]
    <3>1. /\ (IF handle[s] THEN "stop delete" ELSE "stop phase") \in Steps
          /\ (IF handle[s] THEN "restart delete" ELSE "restart count") \in Steps
          /\ "start" \in Steps
      BY DEF Steps
    <3>2. QED
      BY <3>1, Zenon DEF SvcCtl
  <2>2. QED
    BY <2>1
<1>3. TypeOK'
  BY <1>1, <1>2 DEF TypeOK
<1>4. QED
  BY <1>1, <1>3, CountersKept, OrderKept DEF CalmConsole

\* The steps of a svcctl under way.
SvcCtlStep ==
  DeleteTask \/ ClearHandle \/ StopPhase \/ RestartCount \/ StartReported \/ CreateTask \/ AssignHandle

LEMMA SvcCtlStepInv == ASSUME IInv, SvcCtlStep PROVE IInv'
<1> USE DEF IInv
<1> DEFINE s == console.service
<1>1. s \in Service /\ console \in [step : Steps, service : Service]
  BY DEF TypeOK
<1>2. ~calm /\ calm' = calm
  BY DEF CalmConsole, SvcCtlStep, DeleteTask, ClearHandle, StopPhase, RestartCount,
         StartReported, CreateTask, AssignHandle, At
<1>3. CalmIsOrderly' /\ CalmConsole'
  BY <1>2 DEF CalmIsOrderly, CalmConsole
<1>4. CASE DeleteTask
  <2>1. console' \in [step : Steps, service : Service]
    BY <1>1, <1>4 DEF DeleteTask, GoTo, Steps
  <2>2. TypeOK'
    BY <1>1, <1>4, <2>1 DEF DeleteTask, TypeOK, Tasks
  <2>3. RestartsCounted' /\ FailedOnlyWhenExhausted'
    BY <1>4, CountersKept DEF DeleteTask
  <2>4. QED
    BY <1>3, <2>2, <2>3
<1>5. CASE ClearHandle
  <2>1. console' \in [step : Steps, service : Service]
    BY <1>1, <1>5 DEF ClearHandle, GoTo, Steps
  <2>2. TypeOK'
    BY <1>1, <1>5, <2>1 DEF ClearHandle, TypeOK
  <2>3. RestartsCounted' /\ FailedOnlyWhenExhausted'
    BY <1>5, CountersKept DEF ClearHandle
  <2>4. QED
    BY <1>3, <2>2, <2>3
<1>6. CASE StopPhase
  <2>1. phase' = [phase EXCEPT ![s] = "STOPPED"]
        /\ UNCHANGED <<restarts, supervised>>
    BY <1>6 DEF StopPhase
  <2>2. TypeOK'
    BY <1>1, <1>6, PromptType DEF StopPhase, TypeOK, Phases
  <2>3. RestartsCounted' /\ FailedOnlyWhenExhausted'
    BY <2>1, CountersKept DEF TypeOK
  <2>4. QED
    BY <1>3, <2>2, <2>3
<1>7. CASE RestartCount
  <2>1. /\ restarts' = [restarts EXCEPT ![s] = @ + 1]
        /\ UNCHANGED <<phase, supervised>>
    BY <1>7 DEF RestartCount
  <2>2. console' \in [step : Steps, service : Service]
    BY <1>1, <1>7 DEF RestartCount, GoTo, Steps
  <2>3. TypeOK'
    <3>1. restarts' \in [Service -> Nat]
      BY <1>1, <2>1 DEF TypeOK
    <3>2. UNCHANGED <<phase, handle, task, reported, due, state, supervisor, kicked,
                      corrupt, calm, supervised>>
      BY <1>7 DEF RestartCount
    <3>3. QED
      BY <2>2, <3>1, <3>2 DEF TypeOK
  <2>4. \A t \in Service : restarts[t] \in Nat /\ restarts'[t] >= restarts[t]
    BY <1>1, <2>1 DEF TypeOK
  <2>5. RestartsCounted'
    BY <2>1, <2>3, <2>4 DEF RestartsCounted, TypeOK, Allowance
  <2>6. FailedOnlyWhenExhausted'
    <3> SUFFICES ASSUME NEW t \in Service, phase'[t] = "FAILED"
                 PROVE  restarts'[t] >= Allowance(t)
      BY DEF FailedOnlyWhenExhausted, Allowance
    <3>1. restarts[t] >= Allowance(t)
      BY <2>1 DEF FailedOnlyWhenExhausted
    <3>2. QED
      BY <2>3, <2>4, <3>1, AllowanceType DEF TypeOK
  <2>7. QED
    BY <1>3, <2>3, <2>5, <2>6
<1>8. CASE StartReported
  <2>1. console' \in [step : Steps, service : Service]
    BY <1>1, <1>8 DEF StartReported, GoTo, Steps
  <2>2. TypeOK'
    BY <1>1, <1>8, <2>1 DEF StartReported, TypeOK, Healths
  <2>3. RestartsCounted' /\ FailedOnlyWhenExhausted'
    BY <1>8, CountersKept DEF StartReported
  <2>4. QED
    BY <1>3, <2>2, <2>3
<1>9. CASE CreateTask
  <2>1. console' \in [step : Steps, service : Service]
    BY <1>1, <1>9 DEF CreateTask, GoTo, Steps
  <2>2. TypeOK'
    BY <1>1, <1>9, <2>1 DEF CreateTask, TypeOK, Tasks
  <2>3. RestartsCounted' /\ FailedOnlyWhenExhausted'
    BY <1>9, CountersKept DEF CreateTask
  <2>4. QED
    BY <1>3, <2>2, <2>3
<1>10. CASE AssignHandle
  <2>1. TypeOK'
    BY <1>1, <1>10, PromptType DEF AssignHandle, TypeOK
  <2>2. RestartsCounted' /\ FailedOnlyWhenExhausted'
    BY <1>10, CountersKept DEF AssignHandle
  <2>3. QED
    BY <1>3, <2>1, <2>2
<1>11. QED
  BY <1>4, <1>5, <1>6, <1>7, <1>8, <1>9, <1>10 DEF SvcCtlStep

-----------------------------------------------------------------------------
LEMMA NextInv == IInv /\ [Next]_vars => IInv'
<1> SUFFICES ASSUME IInv, [Next]_vars PROVE IInv'
  OBVIOUS
<1>1. ASSUME NEW s \in Service, TaskStep(s) PROVE IInv'
  BY <1>1, TaskInitInv, TaskReportInv, TaskPausedInv DEF TaskStep
<1>2. ASSUME NEW s \in Service, TimerRunsOut(s) PROVE IInv'
  BY <1>2, TimerRunsOutInv
<1>3. ASSUME NEW s \in Service, SvcFail(s) PROVE IInv'
  BY <1>3, SvcFailInv
<1>4. ASSUME NEW s \in Service, NEW action \in {"start", "stop", "restart"}, SvcCtl(s, action)
      PROVE  IInv'
  BY <1>4, SvcCtlInv
<1>5. CASE Sweep
  BY <1>5, SweepInv
<1>6. CASE ConsoleStep
  BY <1>6, KickInv, SvcCtlStepInv DEF ConsoleStep, SvcCtlStep
<1>7. CASE UNCHANGED vars
  BY <1>7 DEF vars, IInv, TypeOK, RestartsCounted, FailedOnlyWhenExhausted, Allowance,
              CalmIsOrderly, CalmConsole
<1>8. QED
  BY <1>1, <1>2, <1>3, <1>4, <1>5, <1>6, <1>7 DEF Next

LEMMA InductiveInvariant == Spec => []IInv
<1>1. Init => IInv
  BY InitInv
<1>2. IInv /\ [Next]_vars => IInv'
  BY NextInv
<1>3. QED
  BY <1>1, <1>2, PTL DEF Spec

\* The type invariant of the service manager.
THEOREM TypeCorrect == Spec => []TypeOK
<1>1. IInv => TypeOK
  BY DEF IInv
<1>2. QED
  BY <1>1, InductiveInvariant, PTL

\* However its restarts mix with the operator's commands, the supervisor restarts
\* no service beyond its policy.
THEOREM SupervisorKeepsThePolicy == Spec => []RestartsWithinPolicy
<1>1. IInv => RestartsWithinPolicy
  BY DEF IInv, RestartsCounted, RestartsWithinPolicy
<1>2. QED
  BY <1>1, InductiveInvariant, PTL

\* A service is in phase FAILED only with its restarts spent.
THEOREM GivenUpOnlyWhenExhausted == Spec => []FailedOnlyWhenExhausted
<1>1. IInv => FailedOnlyWhenExhausted
  BY DEF IInv
<1>2. QED
  BY <1>1, InductiveInvariant, PTL

\* Without svcctl, and with new tasks past their init by the next sweep, the
\* supervisor misuses no control block and keeps every slot in order.
THEOREM CalmSlotsAreOrderly == Spec => []CalmIsOrderly
<1>1. IInv => CalmIsOrderly
  BY DEF IInv
<1>2. QED
  BY <1>1, InductiveInvariant, PTL

=============================================================================
