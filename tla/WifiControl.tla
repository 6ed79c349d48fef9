---------------------------- MODULE WifiControl ----------------------------
(***************************************************************************)
(* Station control of main/cirvane.c and the power budgets of              *)
(* main/cirvane_os.c: the console's wifi, scan, power and svcctl commands, *)
(* the wifi-scan service that shares the driver with them under            *)
(* s_wifi_lock, and the handler of the driver's events.                    *)
(*                                                                         *)
(* A step of the console or the service ends where a driver call or a wait *)
(* lets other tasks run.  The event task (priority 20) preempts both (2    *)
(* and 4), so an event is handled in the step in which the driver posts    *)
(* it.  At READY s_wifi_started is driver.radio; before, nothing reads it. *)
(* Left out: the disconnect reason, addresses, air time, sleep durations.  *)
(***************************************************************************)
EXTENDS Integers

CONSTANTS
  Network,   \* the networks in reach (SSID and password)
  NoNetwork,
  Depth      \* scan requests the service's mailbox holds

ASSUME WifiAssumption == Depth \in Nat /\ NoNetwork \notin Network

VARIABLES
  wifi,      \* s_wifi_init_stage, the s_wifi_* flags, s_wifi_ssid, s_wifi_events
  driver,    \* the ESP-IDF station: radio, link, configuration in RAM
  lock,      \* holder of s_wifi_lock; "dead": a task that was deleted
  at,        \* where the console and the service are
  cmd,       \* locals of cmd_wifi
  requests,  \* scan requests that wait for the service
  budget,    \* s_budget
  wakeup,    \* s_sleep_after_ms # 0: the supervisor's next sweep sleeps
  late,      \* see RadioOffUnlessLate
  outcome    \* what the last wifi command that got the lock said at its end

wifiVars == <<wifi, driver, lock, at, cmd, requests, budget, wakeup, late, outcome>>

Tasks  == {"console", "service"}
Stages == {"NONE", "PARTIAL", "DRIVER", "READY"}
Bits   == {"CONNECTED", "FAILED", "DISCONNECTED"}
Places == {"idle", "lock", "init", "start", "scan", "leave", "left", "clear",
           "join", "wait", "finish", "gone"}

Stations ==
  [stage : Stages, connected : BOOLEAN, connecting : BOOLEAN, ignore : BOOLEAN,
   ssid : Network \cup {NoNetwork}, bits : SUBSET Bits]
Drivers ==
  [radio : BOOLEAN, link : {"down", "joining", "up"}, config : Network \cup {NoNetwork},
   leaving : BOOLEAN]
Commands ==
  [goal : {"pick", "connect", "disconnect"}, net : Network \cup {NoNetwork}, ok : BOOLEAN,
   undo : BOOLEAN]

WifiType ==
  /\ wifi \in Stations /\ driver \in Drivers /\ cmd \in Commands
  /\ lock \in Tasks \cup {"free", "dead"}
  /\ at \in [Tasks -> Places]
  /\ requests \in 0 .. Depth
  /\ budget \in {"ACTIVE", "WATCHDOG", "SENTINEL"}
  /\ wakeup \in BOOLEAN
  /\ late \in BOOLEAN
  /\ outcome \in {"none", "connected", "cleared", "failed"}

PoweredUp ==
  [wifi |-> [stage |-> "NONE", connected |-> FALSE, connecting |-> FALSE,
             ignore |-> FALSE, ssid |-> NoNetwork, bits |-> {}],
   driver |-> [radio |-> FALSE, link |-> "down", config |-> NoNetwork, leaving |-> FALSE],
   at |-> [t \in Tasks |-> "idle"],
   cmd |-> [goal |-> "connect", net |-> NoNetwork, ok |-> TRUE, undo |-> FALSE]]

WifiInit ==
  /\ wifi = PoweredUp.wifi /\ driver = PoweredUp.driver
  /\ lock = "free" /\ at = PoweredUp.at /\ cmd = PoweredUp.cmd
  /\ requests = 0 /\ budget = "ACTIVE" /\ wakeup = FALSE /\ late = FALSE /\ outcome = "none"

\* Power loss, a restart, or the end of a deep sleep.
Reset ==
  /\ wifi' = PoweredUp.wifi /\ driver' = PoweredUp.driver
  /\ lock' = "free" /\ at' = PoweredUp.at /\ cmd' = PoweredUp.cmd
  /\ requests' = 0 /\ budget' = "ACTIVE" /\ wakeup' = FALSE
  /\ late' = FALSE /\ outcome' = "none"

Goto(t, p) == at' = [at EXCEPT ![t] = p]

Goal(t) == IF t = "service" THEN "scan" ELSE cmd.goal

-----------------------------------------------------------------------------
(* The driver and wifi_event_handler.                                      *)

HandledAlways(event) ==
  CASE event = "GOT_IP" ->
         [wifi EXCEPT !.connected = TRUE, !.connecting = FALSE, !.bits = @ \cup {"CONNECTED"}]
    [] event = "DISCONNECTED" ->
         [wifi EXCEPT !.bits = @ \cup {"DISCONNECTED", "FAILED"}, !.connecting = FALSE]
    [] event = "STOP" -> wifi

Handled(event) ==
  CASE event = "GOT_IP" ->
         [wifi EXCEPT !.connected = TRUE, !.connecting = FALSE, !.bits = @ \cup {"CONNECTED"}]
    [] event = "DISCONNECTED" ->
         LET failed == wifi.connecting /\ ~wifi.ignore IN
         [wifi EXCEPT !.connected = FALSE, !.connecting = @ /\ ~failed,
                      !.bits = @ \cup {"DISCONNECTED"} \cup (IF failed THEN {"FAILED"} ELSE {})]
    [] event = "STOP" -> [wifi EXCEPT !.connected = FALSE, !.connecting = FALSE]

Joined ==
  /\ driver.link = "joining"
  /\ driver' = [driver EXCEPT !.link = "up"]
  /\ wifi' = Handled("GOT_IP")

\* The access point refuses the station or drops it.
LinkLost ==
  /\ driver.link # "down"
  /\ driver' = [driver EXCEPT !.link = "down"]
  /\ wifi' = Handled("DISCONNECTED")

\* The event that an esp_wifi_disconnect causes comes when the driver is done.
LeaveReported ==
  /\ driver.leaving
  /\ driver' = [driver EXCEPT !.leaving = FALSE]
  /\ wifi' = Handled("DISCONNECTED")

DriverStep ==
  /\ Joined \/ LinkLost \/ LeaveReported
  /\ UNCHANGED <<lock, at, cmd, requests, budget, wakeup, late, outcome>>

-----------------------------------------------------------------------------
(* Taking the lock, wifi_ensure_ready and wifi_collect_scan.               *)

Wanted ==
  /\ at["console"] = "idle"
  /\ \/ /\ budget = "ACTIVE"
        /\ cmd' \in [goal : {"connect"}, net : Network, ok : {TRUE}, undo : {FALSE}]
                      \cup [goal : {"pick"}, net : {NoNetwork}, ok : {TRUE}, undo : {FALSE}]
     \/ cmd' = [goal |-> "disconnect", net |-> NoNetwork, ok |-> TRUE, undo |-> FALSE]
  /\ Goto("console", "lock")
  /\ UNCHANGED <<wifi, driver, lock, requests, budget, wakeup, late, outcome>>

FirstPlace(t) ==
  CASE wifi.stage = "NONE"    -> IF Goal(t) = "disconnect" THEN "finish" ELSE "init"
    [] wifi.stage = "PARTIAL" -> "init"
    [] wifi.stage = "DRIVER"  -> "start"
    [] wifi.stage = "READY"   -> IF Goal(t) = "disconnect" THEN "leave" ELSE "start"

Take(t) ==
  /\ at[t] = "lock"
  /\ lock = "free"
  /\ lock' = t
  /\ Goto(t, FirstPlace(t))
  /\ outcome' = IF t = "console" THEN "none" ELSE outcome
  /\ UNCHANGED <<wifi, driver, cmd, requests, budget, wakeup, late>>

BusyOnlyIfAlive(t) ==
  /\ at[t] = "lock"
  /\ lock \in Tasks
  /\ Goto(t, "idle")
  /\ UNCHANGED <<wifi, driver, lock, cmd, requests, budget, wakeup, late, outcome>>

\* The lock does not come in a second: the command is refused.
Busy(t) ==
  /\ at[t] = "lock"
  /\ lock # "free"
  /\ Goto(t, "idle")
  /\ UNCHANGED <<wifi, driver, lock, cmd, requests, budget, wakeup, late, outcome>>

\* ensure_ready or the scan fails.  The scanner gives up; connect takes back
\* the connection there was, disconnect reports the failure.
Failed(t) ==
  /\ cmd' = IF t = "console" THEN [cmd EXCEPT !.ok = FALSE, !.undo = TRUE] ELSE cmd
  /\ \/ /\ Goal(t) \in {"scan", "pick"}
        /\ lock' = "free"
        /\ Goto(t, "idle")
     \/ /\ Goal(t) = "connect" /\ wifi.ssid # NoNetwork
        /\ Goto(t, "leave") /\ UNCHANGED lock
     \/ /\ Goal(t) = "disconnect" \/ (Goal(t) = "connect" /\ wifi.ssid = NoNetwork)
        /\ Goto(t, "finish") /\ UNCHANGED lock
  /\ UNCHANGED <<requests, budget, wakeup, late, outcome>>

\* Up to esp_wifi_init; a stage that succeeded is not repeated.
InitDriver(t) ==
  /\ at[t] = "init"
  /\ \/ /\ wifi' \in {[wifi EXCEPT !.stage = s] : s \in {wifi.stage, "PARTIAL"}}
        /\ Failed(t)
     \/ /\ wifi' = [wifi EXCEPT !.stage = "DRIVER"]
        /\ Goto(t, "start")
        /\ UNCHANGED <<lock, cmd, requests, budget, wakeup, late, outcome>>
  /\ UNCHANGED driver

\* The event handlers and esp_wifi_start, when the radio is not on already.
StartRadio(t) ==
  /\ at[t] = "start"
  /\ \/ ~(wifi.stage = "READY" /\ driver.radio) /\ Failed(t) /\ UNCHANGED <<wifi, driver>>
     \/ /\ wifi' = [wifi EXCEPT !.stage = "READY"]
        /\ driver' = [driver EXCEPT !.radio = TRUE]
        /\ Goto(t, IF Goal(t) \in {"scan", "pick"} THEN "scan" ELSE "leave")
        /\ late' = (late \/ (t = "console" /\ budget # "ACTIVE"))
        /\ UNCHANGED <<lock, cmd, requests, budget, wakeup, outcome>>

\* The scan and the end of the lock's tenure.  The operator then picks a
\* network, which is connected to like one named in the command, or none.
Scan(t) ==
  /\ at[t] = "scan"
  /\ \/ Failed(t)
     \/ /\ driver.radio
        /\ lock' = "free"
        /\ \/ Goto(t, "idle") /\ UNCHANGED cmd
           \/ /\ t = "console"
              /\ cmd' \in {[cmd EXCEPT !.goal = "connect", !.net = n] : n \in Network}
              /\ Goto(t, "lock")
        /\ UNCHANGED <<requests, budget, wakeup, late, outcome>>
  /\ UNCHANGED <<wifi, driver>>

-----------------------------------------------------------------------------
(* cmd_wifi under the lock: wifi_disconnect_and_clear, connect.            *)

Leave ==
  /\ at["console"] = "leave"
  /\ wifi' = [wifi EXCEPT !.connecting = FALSE, !.ignore = TRUE, !.bits = @ \ {"DISCONNECTED"}]
  /\ driver' = [driver EXCEPT !.link = "down",
                              !.leaving = @ \/ (driver.radio /\ driver.link # "down")]
  /\ Goto("console", IF driver.radio /\ (wifi.connected \/ wifi.connecting)
                       THEN "left" ELSE "clear")
  /\ UNCHANGED <<lock, cmd, requests, budget, wakeup, late, outcome>>

\* The DISCONNECTED event, or a second without it.
Left ==
  /\ at["console"] = "left"
  /\ \/ "DISCONNECTED" \in wifi.bits /\ UNCHANGED cmd
     \/ "DISCONNECTED" \notin wifi.bits /\ cmd' = [cmd EXCEPT !.ok = FALSE]
  /\ wifi' = [wifi EXCEPT !.bits = @ \ {"DISCONNECTED"}]
  /\ Goto("console", "clear")
  /\ UNCHANGED <<driver, lock, requests, budget, wakeup, late, outcome>>

Clear ==
  /\ at["console"] = "clear"
  /\ driver' = [driver EXCEPT !.config = NoNetwork]
  /\ wifi' = [wifi EXCEPT !.connected = FALSE, !.ssid = NoNetwork, !.ignore = FALSE]
  /\ Goto("console", IF cmd.goal = "connect" /\ cmd.ok /\ ~cmd.undo THEN "join" ELSE "finish")
  /\ UNCHANGED <<lock, cmd, requests, budget, wakeup, late, outcome>>

GiveUpKeeping == cmd' = [cmd EXCEPT !.ok = FALSE] /\ Goto("console", "finish")

GiveUp == cmd' = [cmd EXCEPT !.ok = FALSE, !.undo = TRUE] /\ Goto("console", "leave")

\* esp_wifi_set_config and esp_wifi_connect.
Join ==
  /\ at["console"] = "join"
  /\ \/ /\ cmd' = [cmd EXCEPT !.ok = FALSE]
        /\ Goto("console", "finish")
        /\ UNCHANGED <<wifi, driver>>
     \/ /\ wifi' = [wifi EXCEPT !.ssid = cmd.net, !.connecting = TRUE,
                                !.bits = @ \ {"CONNECTED", "FAILED"}]
        /\ \/ driver' = [driver EXCEPT !.config = cmd.net] /\ GiveUp
           \/ /\ driver.radio
              /\ driver' = [driver EXCEPT !.config = cmd.net, !.link = "joining"]
              /\ Goto("console", "wait") /\ UNCHANGED cmd
  /\ UNCHANGED <<lock, requests, budget, wakeup, late, outcome>>

\* CONNECTED, FAILED, or WIFI_CONNECT_TIMEOUT_MS without either.
Wait ==
  /\ at["console"] = "wait"
  /\ wifi' = [wifi EXCEPT !.bits = @ \ {"CONNECTED", "FAILED"}]
  /\ \/ "CONNECTED" \in wifi.bits /\ Goto("console", "finish") /\ UNCHANGED cmd
     \/ "CONNECTED" \notin wifi.bits /\ GiveUp
  /\ UNCHANGED <<driver, lock, requests, budget, wakeup, late, outcome>>

Finish ==
  /\ at["console"] = "finish"
  /\ wifi' = IF cmd.goal = "connect" THEN [wifi EXCEPT !.connecting = FALSE] ELSE wifi
  /\ lock' = "free"
  /\ outcome' = IF ~cmd.ok THEN "failed"
                ELSE IF cmd.goal = "connect" THEN "connected" ELSE "cleared"
  /\ Goto("console", "idle")
  /\ UNCHANGED <<driver, cmd, requests, budget, wakeup, late>>

-----------------------------------------------------------------------------
(* scan and the service's tick; power; svcctl.                             *)

RequestScanUnbounded ==
  /\ at["console"] = "idle"
  /\ budget = "ACTIVE"
  /\ requests' = requests + 1
  /\ UNCHANGED <<wifi, driver, lock, at, cmd, budget, wakeup, late, outcome>>

\* cmd_scan: a request the mailbox has no room for is dropped.
RequestScan ==
  /\ at["console"] = "idle"
  /\ budget = "ACTIVE"
  /\ requests < Depth
  /\ requests' = requests + 1
  /\ UNCHANGED <<wifi, driver, lock, at, cmd, budget, wakeup, late, outcome>>

\* wifi_service_tick reads the budget, then a request, and runs the scan.
Tick ==
  /\ at["service"] = "idle"
  /\ budget = "ACTIVE"
  /\ requests > 0
  /\ requests' = requests - 1
  /\ Goto("service", "lock")
  /\ UNCHANGED <<wifi, driver, lock, cmd, budget, wakeup, late, outcome>>

\* cirvane_power_set_budget(ACTIVE) needs a driver that has been initialised.
Activate ==
  /\ wifi.stage \in {"DRIVER", "READY"}
  /\ driver' = [driver EXCEPT !.radio = TRUE]
  /\ budget' = "ACTIVE"
  /\ late' = FALSE

PowerActive ==
  /\ at["console"] = "idle"
  /\ Activate
  /\ wakeup' = FALSE
  /\ UNCHANGED <<wifi, lock, at, cmd, requests, outcome>>

PowerDownNoStop(b) ==
  /\ at["console"] = "idle"
  /\ budget' = b
  /\ wakeup' \in {wakeup, b = "SENTINEL" \/ wakeup}
  /\ late' = (late \/ at["service"] \notin {"idle", "gone"})
  /\ UNCHANGED <<wifi, driver, lock, at, cmd, requests, outcome>>

\* power watchdog or sentinel: esp_wifi_stop, without asking for the lock.  A
\* wake-up time is taken for SENTINEL only, as light sleep would end the USB
\* console; one that is set outlives the change to another budget than ACTIVE.
PowerDown(b) ==
  /\ at["console"] = "idle"
  /\ driver' = [driver EXCEPT !.radio = FALSE, !.link = "down"]
  /\ wifi' = IF driver.radio THEN Handled("STOP") ELSE wifi
  /\ budget' = b
  /\ wakeup' \in {wakeup, b = "SENTINEL" \/ wakeup}
  /\ late' = (late \/ at["service"] \notin {"idle", "gone"})
  /\ UNCHANGED <<lock, at, cmd, requests, outcome>>

\* The end of the supervisor's sweep: deep sleep ends in a reset, light sleep
\* in an attempt to go back to ACTIVE.
Sleep ==
  /\ wakeup
  /\ \/ budget = "SENTINEL" /\ Reset
     \/ /\ budget = "WATCHDOG"
        /\ wakeup' = FALSE
        /\ \/ Activate
           \/ wifi.stage \notin {"DRIVER", "READY"} /\ UNCHANGED <<driver, budget, late>>
        /\ UNCHANGED <<wifi, lock, at, cmd, requests, outcome>>

\* svcctl stop, or svcfail and the sweep it kicks.  A driver call that the task
\* was in may still be carried out.
DeleteScanner ==
  /\ at["console"] = "idle"
  /\ at["service"] # "gone"
  /\ Goto("service", "gone")
  /\ lock' = IF lock = "service" THEN "dead" ELSE lock
  /\ driver' \in {driver, [driver EXCEPT !.radio = @ \/ at["service"] = "start"]}
  /\ UNCHANGED <<wifi, cmd, requests, budget, wakeup, late, outcome>>

\* svcctl start, or the sweep that ends a backoff, at any time.
RestartScanner ==
  /\ at["service"] = "gone"
  /\ Goto("service", "idle")
  /\ UNCHANGED <<wifi, driver, lock, cmd, requests, budget, wakeup, late, outcome>>

-----------------------------------------------------------------------------

TaskStep(t) == Take(t) \/ Busy(t) \/ InitDriver(t) \/ StartRadio(t) \/ Scan(t)

ConsoleStep == TaskStep("console") \/ Leave \/ Left \/ Clear \/ Join \/ Wait \/ Finish

WifiNext ==
  \/ ConsoleStep \/ TaskStep("service") \/ Tick
  \/ Wanted \/ RequestScan
  \/ PowerActive \/ PowerDown("WATCHDOG") \/ PowerDown("SENTINEL") \/ Sleep
  \/ DeleteScanner \/ RestartScanner
  \/ DriverStep \/ Reset

\* The waits have time-outs and driver calls return, and tasks of a higher
\* priority block: a console command goes on.
WifiSpec == WifiInit /\ [][WifiNext]_wifiVars /\ WF_wifiVars(ConsoleStep)

-----------------------------------------------------------------------------
(* Properties.                                                             *)

\* What `wifi status' calls connected is a link that is up, or one whose end
\* the driver has still to report: an old connection is never shown for good.
ConnectedHasLink == wifi.connected => driver.link = "up" \/ driver.leaving

\* After a wifi command that ended in failure or with "credentials cleared"
\* the driver keeps no credentials and has no link, whichever of its steps
\* failed or timed out, and whatever the scanner did meanwhile.
FailedMeansForgotten ==
  outcome \in {"failed", "cleared"} =>
    driver.config = NoNetwork /\ driver.link = "down" /\ ~wifi.connected

\* With the budget out of ACTIVE the radio is off, with two exceptions.  A scan
\* under way when the budget changed may start it afterwards: power does not
\* take the lock.  And `wifi disconnect' starts it when the driver was not yet
\* initialised to the end.  Nothing else turns it on again.
RadioOffUnlessLate == budget # "ACTIVE" /\ driver.radio => late

\* The supervisor never puts the board to light sleep, which would end the USB
\* console: a wake-up time is set only with SENTINEL.
LightSleepNever == wakeup => budget # "WATCHDOG"

\* Every console command comes to its end, also when the lock is held by a
\* service task that was deleted and will never give it.
ConsoleReturns == at["console"] # "idle" ~> at["console"] = "idle"

=============================================================================
