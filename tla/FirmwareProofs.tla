--------------------------- MODULE FirmwareProofs ---------------------------
(***************************************************************************)
(* Theorems about the firmware's parts, for any networks, configurations,  *)
(* releases, sizes and bounds.  Each part has an inductive invariant of    *)
(* its own (that of the bus is in BusProofs); a session moves one part and *)
(* leaves the others, so that the conjunction is inductive for Firmware.   *)
(* Then the pure operators of OtaPolicy and Console, for every input.      *)
(***************************************************************************)
EXTENDS Firmware, Console, BusProofs, WellFoundedInduction

-----------------------------------------------------------------------------
(* Wi-Fi control.                                                          *)

\* The places where a task has the lock.
Held == Places \ {"idle", "lock", "gone"}

\* Who is past the lock has it, and finds the driver in the stage it expects.
TenureInv ==
  /\ \A t \in Tasks : at[t] \in Held => lock = t
  /\ at["console"] \in Held => outcome = "none"
  /\ \A t \in Tasks : at[t] = "init" => wifi.stage \in {"NONE", "PARTIAL"}
  /\ \A t \in Tasks : at[t] = "start" => wifi.stage \in {"DRIVER", "READY"}

\* A network is configured only while its name is in wifi.ssid
ForgottenInv ==
  /\ wifi.stage # "READY" => wifi.ssid = NoNetwork
  /\ wifi.ssid = NoNetwork => driver.config = NoNetwork /\ driver.link = "down" /\ ~wifi.connected
  /\ outcome \in {"failed", "cleared"} => wifi.ssid = NoNetwork

\* What the steps of a wifi command know of the driver and of the command.
CommandInv ==
  /\ at["console"] \in {"leave", "left", "clear", "join", "wait"} => wifi.stage = "READY"
  /\ at["console"] \in {"left", "clear", "join"} => driver.link = "down"
  /\ at["console"] # "idle" /\ cmd.goal = "connect" => cmd.net # NoNetwork
  /\ at["console"] \in {"join", "wait"} => cmd.ok /\ cmd.goal = "connect"
  /\ at["console"] = "join" => ~wifi.connected /\ wifi.ssid = NoNetwork
  /\ at["console"] = "finish" => (cmd.ok /\ cmd.goal = "connect") \/ wifi.ssid = NoNetwork
  /\ at["console"] = "scan" => cmd.goal = "pick"
  /\ at["console"] = "start" /\ cmd.goal = "disconnect" => wifi.stage = "DRIVER"

\* A link needs the radio, and is what makes the station connected.
LinkInv ==
  /\ driver.link # "down" => driver.radio
  /\ ConnectedHasLink

\* A scan under way outside ACTIVE is one that was under way at the change.
LateInv ==
  /\ at["service"] \notin {"idle", "gone"} /\ budget # "ACTIVE" => late
  /\ RadioOffUnlessLate

\* The inductive invariant of the station.
WifiInv == WifiType /\ TenureInv /\ ForgottenInv /\ CommandInv /\ LinkInv /\ LateInv

\* The event handler keeps the stage and the name of the network.
LEMMA HandledKeeps ==
  ASSUME wifi \in Stations, NEW event \in {"GOT_IP", "DISCONNECTED", "STOP"}
  PROVE  /\ Handled(event) \in Stations
         /\ Handled(event).stage = wifi.stage /\ Handled(event).ssid = wifi.ssid
         /\ event # "GOT_IP" => ~Handled(event).connected
<1>1. CASE event = "GOT_IP"
  BY <1>1 DEF Handled, Stations, Bits
<1>2. CASE event = "DISCONNECTED"
  BY <1>2 DEF Handled, Stations, Bits
<1>3. CASE event = "STOP"
  BY <1>3 DEF Handled, Stations, Bits
<1>4. QED
  BY <1>1, <1>2, <1>3

\* Where a failed ensure_ready or scan goes on.
LEMMA FailedGoes ==
  ASSUME WifiType, NEW t \in Tasks, Failed(t)
  PROVE  /\ cmd' \in Commands /\ cmd'.goal = cmd.goal /\ cmd'.net = cmd.net
         /\ t = "service" => cmd' = cmd
         /\ at' \in [Tasks -> Places] /\ \A u \in Tasks \ {t} : at'[u] = at[u]
         /\ \/ at'[t] = "idle" /\ lock' = "free" /\ Goal(t) \in {"scan", "pick"}
            \/ at'[t] = "leave" /\ lock' = lock /\ t = "console" /\ cmd.goal = "connect" /\ wifi.ssid # NoNetwork
            \/ at'[t] = "finish" /\ lock' = lock /\ t = "console"
                 /\ (cmd.goal = "disconnect" \/ wifi.ssid = NoNetwork)
         /\ UNCHANGED <<requests, budget, wakeup, late, outcome>>
<1>1. cmd' \in Commands /\ cmd'.goal = cmd.goal /\ cmd'.net = cmd.net /\ (t = "service" => cmd' = cmd)
  BY DEF Failed, WifiType, Commands
<1>2. at \in [Tasks -> Places] /\ \A p \in Places : Goto(t, p) => at' \in [Tasks -> Places] /\ at'[t] = p /\ \A u \in Tasks \ {t} : at'[u] = at[u]
  BY DEF WifiType, Goto
<1>3. "idle" \in Places /\ "leave" \in Places /\ "finish" \in Places
  BY DEF Places
<1>4. QED
  BY <1>1, <1>2, <1>3 DEF Failed, Goal, Tasks

\* Where a task that got the lock goes on.
LEMMA FirstPlaces ==
  ASSUME WifiType, NEW t \in Tasks
  PROVE  /\ FirstPlace(t) \in {"finish", "leave", "start", "init"}
         /\ FirstPlace(t) = "finish" => t = "console" /\ wifi.stage = "NONE"
         /\ FirstPlace(t) = "leave" => t = "console" /\ wifi.stage = "READY"
         /\ FirstPlace(t) = "start" => /\ wifi.stage \in {"DRIVER", "READY"}
                                       /\ t = "console" /\ cmd.goal = "disconnect" => wifi.stage = "DRIVER"
         /\ FirstPlace(t) = "init" => wifi.stage \in {"NONE", "PARTIAL"}
<1>1. wifi.stage \in Stages
  BY DEF WifiType, Stations
<1>2. t = "service" => Goal(t) = "scan"
  BY DEF Goal
<1>3. t = "console" => Goal(t) = cmd.goal
  BY DEF Goal
<1>4. CASE wifi.stage = "NONE"
  BY <1>2, <1>4 DEF FirstPlace, Tasks
<1>5. CASE wifi.stage = "PARTIAL"
  BY <1>5 DEF FirstPlace
<1>6. CASE wifi.stage = "DRIVER"
  BY <1>6 DEF FirstPlace
<1>7. CASE wifi.stage = "READY"
  BY <1>2, <1>3, <1>7 DEF FirstPlace, Tasks
<1>8. QED
  BY <1>1, <1>4, <1>5, <1>6, <1>7 DEF Stages

\* The station after power-up.
LEMMA PoweredUpTyped ==
  /\ PoweredUp.wifi \in Stations /\ PoweredUp.driver \in Drivers /\ PoweredUp.cmd \in Commands
  /\ PoweredUp.at \in [Tasks -> Places] /\ 0 \in 0 .. Depth
BY WifiAssumption DEF PoweredUp, Stations, Drivers, Commands, Stages, Tasks, Places

\* The types of the station are kept.
LEMMA WifiTypeNext == WifiType /\ [WifiNext]_wifiVars => WifiType'
<1> SUFFICES ASSUME WifiType, [WifiNext]_wifiVars PROVE WifiType'
  OBVIOUS
<1> USE WifiAssumption
<1>1. ASSUME NEW t \in Tasks, Take(t) PROVE WifiType'
  <2>1. FirstPlace(t) \in Places
    BY FirstPlaces DEF Places
  <2>2. QED
    BY <1>1, <2>1 DEF Take, Goto, WifiType
<1>2. ASSUME NEW t \in Tasks, Busy(t) PROVE WifiType'
  <2>1. wifi' \in Stations /\ driver' \in Drivers /\ cmd' \in Commands
    BY <1>2 DEF Busy, WifiType, Stations, Stages, Bits, Drivers, Commands
  <2>2. QED
    BY <1>2, <2>1 DEF Busy, Goto, WifiType, Tasks, Places
<1>3. ASSUME NEW t \in Tasks, InitDriver(t) PROVE WifiType'
  <2>1. wifi' \in Stations
    BY <1>3 DEF InitDriver, WifiType, Stations, Stages
  <2>2. driver' \in Drivers
    BY <1>3 DEF InitDriver, WifiType, Drivers
  <2>3. CASE Failed(t)
    BY <2>1, <2>2, <2>3, FailedGoes DEF WifiType
  <2>4. CASE ~Failed(t)
    <3>1. cmd' \in Commands
      BY <1>3, <2>4 DEF InitDriver, WifiType, Commands
    <3>2. at' \in [Tasks -> Places]
      BY <1>3, <2>4 DEF InitDriver, Goto, WifiType, Tasks, Places
    <3>3. QED
      BY <1>3, <2>1, <2>2, <2>4, <3>1, <3>2 DEF InitDriver, WifiType
  <2>5. QED
    BY <2>3, <2>4
<1>4. ASSUME NEW t \in Tasks, StartRadio(t) PROVE WifiType'
  <2>1. wifi' \in Stations
    BY <1>4 DEF StartRadio, WifiType, Stations, Stages
  <2>2. driver' \in Drivers
    BY <1>4 DEF StartRadio, WifiType, Drivers
  <2>3. CASE Failed(t)
    BY <2>1, <2>2, <2>3, FailedGoes DEF WifiType
  <2>4. CASE ~Failed(t)
    <3>1. cmd' \in Commands
      BY <1>4, <2>4 DEF StartRadio, WifiType, Commands
    <3>2. at' \in [Tasks -> Places]
      BY <1>4, <2>4 DEF StartRadio, Goto, WifiType, Tasks, Places
    <3>3. QED
      BY <1>4, <2>1, <2>2, <2>4, <3>1, <3>2 DEF StartRadio, WifiType
  <2>5. QED
    BY <2>3, <2>4
<1>5. ASSUME NEW t \in Tasks, Scan(t) PROVE WifiType'
  <2>1. wifi' \in Stations
    BY <1>5 DEF Scan, WifiType
  <2>2. driver' \in Drivers
    BY <1>5 DEF Scan, WifiType, Drivers
  <2>3. CASE Failed(t)
    BY <2>1, <2>2, <2>3, FailedGoes DEF WifiType
  <2>4. CASE ~Failed(t)
    <3>0. \A n \in Network : [cmd EXCEPT !.goal = "connect", !.net = n] \in Commands
      BY DEF WifiType, Commands
    <3>1. cmd' \in Commands
      BY <1>5, <2>4, <3>0 DEF Scan, WifiType
    <3>2. at' \in [Tasks -> Places]
      <4>1. Goto(t, "idle") \/ Goto(t, "lock")
        BY <1>5, <2>4 DEF Scan
      <4>2. QED
        BY <4>1 DEF Goto, WifiType, Places
    <3>3. QED
      BY <1>5, <2>1, <2>2, <2>4, <3>1, <3>2 DEF Scan, WifiType
  <2>5. QED
    BY <2>3, <2>4
<1>6. CASE Leave
  <2>1. wifi' \in Stations /\ driver' \in Drivers /\ cmd' \in Commands
    BY <1>6 DEF Leave, WifiType, Stations, Stages, Bits, Drivers, Commands
  <2>2. QED
    BY <1>6, <2>1 DEF Leave, Goto, WifiType, Tasks, Places
<1>7. CASE Left
  <2>1. wifi' \in Stations /\ driver' \in Drivers /\ cmd' \in Commands
    BY <1>7 DEF Left, WifiType, Stations, Stages, Bits, Drivers, Commands
  <2>2. QED
    BY <1>7, <2>1 DEF Left, Goto, WifiType, Tasks, Places
<1>8. CASE Clear
  <2>1. wifi' \in Stations /\ driver' \in Drivers /\ cmd' \in Commands
    BY <1>8 DEF Clear, WifiType, Stations, Stages, Bits, Drivers, Commands
  <2>2. QED
    BY <1>8, <2>1 DEF Clear, Goto, WifiType, Tasks, Places
<1>9. CASE Join
  <2>1. \/ wifi' = wifi /\ driver' = driver /\ cmd' = [cmd EXCEPT !.ok = FALSE] /\ Goto("console", "finish")
        \/ /\ wifi' = [wifi EXCEPT !.ssid = cmd.net, !.connecting = TRUE, !.bits = @ \ {"CONNECTED", "FAILED"}]
           /\ \/ /\ driver' = [driver EXCEPT !.config = cmd.net] /\ Goto("console", "leave")
                 /\ cmd' = [cmd EXCEPT !.ok = FALSE, !.undo = TRUE]
              \/ /\ driver.radio /\ Goto("console", "wait") /\ cmd' = cmd
                 /\ driver' = [driver EXCEPT !.config = cmd.net, !.link = "joining"]
    BY <1>9 DEF Join, GiveUp
  <2>2. wifi' \in Stations
    <3>1. cmd.net \in Network \cup {NoNetwork} /\ wifi \in Stations
      BY DEF WifiType, Commands
    <3>2. [wifi EXCEPT !.ssid = cmd.net, !.connecting = TRUE, !.bits = @ \ {"CONNECTED", "FAILED"}] \in Stations
      BY <3>1 DEF Stations, Bits
    <3>3. QED
      BY <2>1, <3>1, <3>2
  <2>3. driver' \in Drivers
    <3>1. cmd.net \in Network \cup {NoNetwork}
      BY DEF WifiType, Commands
    <3>2. QED
      BY <2>1, <3>1 DEF WifiType, Drivers
  <2>4. cmd' \in Commands
    BY <2>1 DEF WifiType, Commands
  <2>5. at' \in [Tasks -> Places]
    BY <2>1 DEF Goto, WifiType, Tasks, Places
  <2>6. QED
    BY <1>9, <2>2, <2>3, <2>4, <2>5 DEF Join, WifiType
<1>10. CASE Wait
  <2>3. wifi' \in Stations
    BY <1>10 DEF Wait, WifiType, Stations, Bits
  <2>4. cmd' \in Commands
    BY <1>10 DEF Wait, GiveUp, WifiType, Commands
  <2>1. wifi' \in Stations /\ driver' \in Drivers /\ cmd' \in Commands
    BY <1>10, <2>3, <2>4 DEF Wait, WifiType
  <2>2. QED
    BY <1>10, <2>1 DEF Wait, GiveUp, Goto, WifiType, Tasks, Places
<1>11. CASE Finish
  <2>3. wifi' \in Stations
    BY <1>11 DEF Finish, WifiType, Stations
  <2>1. wifi' \in Stations /\ driver' \in Drivers /\ cmd' \in Commands
    BY <1>11, <2>3 DEF Finish, WifiType
  <2>2. QED
    BY <1>11, <2>1 DEF Finish, Goto, WifiType, Tasks, Places
<1>12. CASE Tick
  <2>1. wifi' \in Stations /\ driver' \in Drivers /\ cmd' \in Commands
    BY <1>12 DEF Tick, WifiType, Stations, Stages, Bits, Drivers, Commands
  <2>2. QED
    BY <1>12, <2>1 DEF Tick, Goto, WifiType, Tasks, Places
<1>13. CASE Wanted
  <2>1. cmd' \in Commands
    <3>1. /\ [goal : {"connect"}, net : Network, ok : {TRUE}, undo : {FALSE}] \subseteq Commands
          /\ [goal : {"pick"}, net : {NoNetwork}, ok : {TRUE}, undo : {FALSE}] \subseteq Commands
          /\ [goal |-> "disconnect", net |-> NoNetwork, ok |-> TRUE, undo |-> FALSE] \in Commands
      BY DEF Commands
    <3>2. QED
      BY <1>13, <3>1 DEF Wanted
  <2>2. at' \in [Tasks -> Places]
    BY <1>13 DEF Wanted, Goto, WifiType, Tasks, Places
  <2>3. QED
    BY <1>13, <2>1, <2>2 DEF Wanted, WifiType
<1>14. CASE RequestScan
  <2>1. wifi' \in Stations /\ driver' \in Drivers /\ cmd' \in Commands
    BY <1>14 DEF RequestScan, WifiType, Stations, Stages, Bits, Drivers, Commands
  <2>2. QED
    BY <1>14, <2>1 DEF RequestScan, Goto, WifiType, Tasks, Places
<1>15. CASE PowerActive
  <2>1. wifi' \in Stations /\ driver' \in Drivers /\ cmd' \in Commands
    BY <1>15 DEF PowerActive, Activate, WifiType, Stations, Stages, Bits, Drivers, Commands
  <2>2. QED
    BY <1>15, <2>1 DEF PowerActive, Activate, Goto, WifiType, Tasks, Places
<1>16. ASSUME NEW b \in {"WATCHDOG", "SENTINEL"}, PowerDown(b) PROVE WifiType'
  <2>1. wifi' \in Stations /\ driver' \in Drivers /\ cmd' \in Commands
    BY <1>16 DEF PowerDown, Handled, WifiType, Stations, Stages, Bits, Drivers, Commands
  <2>2. QED
    BY <1>16, <2>1 DEF PowerDown, Handled, Goto, WifiType, Tasks, Places
<1>17. CASE Sleep
  <2>1. CASE Reset
    BY <2>1, PoweredUpTyped DEF Reset, WifiType
  <2>2. CASE ~Reset
    BY <1>17, <2>2 DEF Sleep, Activate, WifiType, Drivers
  <2>3. QED
    BY <2>1, <2>2
<1>18. CASE DeleteScanner
  <2>1. wifi' \in Stations
    BY <1>18 DEF DeleteScanner, WifiType, Stations, Stages, Bits
  <2>2. driver' \in Drivers
    BY <1>18 DEF DeleteScanner, WifiType, Drivers
  <2>3. cmd' \in Commands
    BY <1>18 DEF DeleteScanner, WifiType, Commands
  <2>4. at' \in [Tasks -> Places]
    BY <1>18 DEF DeleteScanner, Goto, WifiType, Tasks, Places
  <2>5. QED
    BY <1>18, <2>1, <2>2, <2>3, <2>4 DEF DeleteScanner, WifiType
<1>19. CASE RestartScanner
  <2>1. wifi' \in Stations /\ driver' \in Drivers /\ cmd' \in Commands
    BY <1>19 DEF RestartScanner, WifiType, Stations, Stages, Bits, Drivers, Commands
  <2>2. QED
    BY <1>19, <2>1 DEF RestartScanner, Goto, WifiType, Tasks, Places
<1>20. CASE Joined /\ DriverStep
  <2>1. wifi' \in Stations
    BY <1>20, HandledKeeps DEF Joined, WifiType
  <2>2. driver' \in Drivers
    BY <1>20 DEF Joined, WifiType, Drivers
  <2>3. QED
    BY <1>20, <2>1, <2>2 DEF DriverStep, WifiType
<1>21. CASE LinkLost /\ DriverStep
  <2>1. wifi' \in Stations
    BY <1>21, HandledKeeps DEF LinkLost, WifiType
  <2>2. driver' \in Drivers
    BY <1>21 DEF LinkLost, WifiType, Drivers
  <2>3. QED
    BY <1>21, <2>1, <2>2 DEF DriverStep, WifiType
<1>22. CASE LeaveReported /\ DriverStep
  <2>1. wifi' \in Stations
    BY <1>22, HandledKeeps DEF LeaveReported, WifiType
  <2>2. driver' \in Drivers
    BY <1>22 DEF LeaveReported, WifiType, Drivers
  <2>3. QED
    BY <1>22, <2>1, <2>2 DEF DriverStep, WifiType
<1>23. CASE Reset
  BY <1>23, PoweredUpTyped DEF Reset, WifiType
<1>24. CASE UNCHANGED wifiVars
  BY <1>24 DEF wifiVars, WifiType
<1>25. QED
  BY <1>1, <1>2, <1>3, <1>4, <1>5, <1>6, <1>7, <1>8, <1>9, <1>10, <1>11, <1>12, <1>13, <1>14, <1>15, <1>16, <1>17, <1>18, <1>19, <1>20, <1>21, <1>22, <1>23, <1>24 DEF WifiNext, ConsoleStep, TaskStep, DriverStep, Tasks

\* A failed step of ensure_ready or of the scan keeps the invariant.
LEMMA FailedKeeps ==
  ASSUME WifiInv, WifiType', NEW t \in Tasks, Failed(t), at[t] \in {"init", "start", "scan"}, driver' = driver,
         wifi' = wifi \/ (wifi.stage # "READY" /\ wifi' = [wifi EXCEPT !.stage = "PARTIAL"] /\ at[t] = "init")
  PROVE  TenureInv' /\ ForgottenInv' /\ CommandInv' /\ LinkInv' /\ LateInv'
<1>0. WifiType /\ TenureInv /\ ForgottenInv /\ CommandInv /\ LinkInv /\ LateInv
  BY DEF WifiInv
<1>1. /\ cmd'.goal = cmd.goal /\ cmd'.net = cmd.net /\ (t = "service" => cmd' = cmd)
      /\ at' \in [Tasks -> Places] /\ \A u \in Tasks \ {t} : at'[u] = at[u]
      /\ \/ at'[t] = "idle" /\ lock' = "free"
         \/ /\ at'[t] = "leave" /\ lock' = lock /\ t = "console" /\ wifi.ssid # NoNetwork
         \/ /\ at'[t] = "finish" /\ lock' = lock /\ t = "console"
            /\ cmd.goal = "disconnect" \/ wifi.ssid = NoNetwork
      /\ UNCHANGED <<budget, late, outcome>>
  BY <1>0, FailedGoes
<1>2. /\ wifi'.ssid = wifi.ssid /\ wifi'.connected = wifi.connected
      /\ wifi'.stage = wifi.stage \/ (wifi.stage # "READY" /\ wifi'.stage = "PARTIAL" /\ at[t] = "init")
  BY <1>0 DEF WifiType, Stations
<1>3. /\ lock = t /\ \A u \in Tasks \ {t} : at[u] \notin Held
      /\ (t = "console" => outcome = "none")
      /\ (t = "console" /\ wifi.ssid # NoNetwork => wifi'.stage = "READY")
      /\ (t = "console" /\ cmd.goal = "disconnect" => wifi.ssid = NoNetwork)
  BY <1>0, <1>2 DEF TenureInv, CommandInv, ForgottenInv, WifiType, Held, Places, Tasks
<1>4. TenureInv'
  BY <1>0, <1>1, <1>2, <1>3 DEF TenureInv, WifiType, Held, Places, Tasks
<1>5. ForgottenInv'
  BY <1>0, <1>1, <1>2, <1>3 DEF ForgottenInv, TenureInv, CommandInv, Held, Places
<1>6. CommandInv'
  BY <1>0, <1>1, <1>2, <1>3 DEF CommandInv, TenureInv, ForgottenInv, WifiType, Held, Places, Tasks
<1>7. LinkInv' /\ LateInv'
  BY <1>0, <1>1, <1>2, <1>3 DEF LinkInv, LateInv, ConnectedHasLink, RadioOffUnlessLate, WifiType, Tasks
<1>8. QED
  BY <1>4, <1>5, <1>6, <1>7

\* Every step of the station keeps the invariant.
LEMMA WifiNextInv == WifiInv /\ [WifiNext]_wifiVars => WifiInv'
<1> SUFFICES ASSUME WifiInv, [WifiNext]_wifiVars PROVE WifiInv'
  OBVIOUS
<1>0. WifiType /\ WifiType' /\ TenureInv /\ ForgottenInv /\ CommandInv /\ LinkInv /\ LateInv
  BY WifiTypeNext DEF WifiInv
<1> DEFINE Rest == TenureInv /\ ForgottenInv /\ CommandInv /\ LinkInv /\ LateInv
<1> SUFFICES Rest'
  BY <1>0 DEF WifiInv
<1> USE WifiAssumption
<1>1. ASSUME NEW t \in Tasks, Take(t) PROVE Rest'
  <2>1. /\ at' \in [Tasks -> Places] /\ at[t] = "lock" /\ at'[t] = FirstPlace(t)
        /\ \A u \in Tasks \ {t} : at'[u] = at[u]
        /\ lock = "free" /\ lock' = t
        /\ (t = "console" => outcome' = "none") /\ (t # "console" => outcome' = outcome)
        /\ UNCHANGED <<wifi, driver, cmd, budget, late>>
    BY <1>0, <1>1, FirstPlaces DEF Take, Goto, WifiType, Places
  <2>2. \A u \in Tasks : at[u] \notin Held
    BY <1>0, <2>1 DEF TenureInv, WifiType, Tasks
  <2>3. TenureInv'
    BY <1>0, <2>1, <2>2, FirstPlaces DEF TenureInv, WifiType, Held, Places, Tasks
  <2>4. ForgottenInv'
    BY <1>0, <2>1, <2>2, FirstPlaces DEF ForgottenInv, TenureInv, CommandInv, Held, Places
  <2>5. CommandInv'
    BY <1>0, <2>1, <2>2, FirstPlaces DEF CommandInv, TenureInv, ForgottenInv, WifiType, Held, Places, Tasks
  <2>6. LinkInv' /\ LateInv'
    BY <1>0, <2>1, <2>2, FirstPlaces DEF LinkInv, LateInv, ConnectedHasLink, RadioOffUnlessLate, WifiType, Tasks
  <2>7. QED
    BY <2>3, <2>4, <2>5, <2>6
<1>2. ASSUME NEW t \in Tasks, Busy(t) PROVE Rest'
  BY <1>0, <1>2 DEF Busy, Goto, WifiType, Stations, Drivers, Commands, TenureInv, ForgottenInv, CommandInv,
     LinkInv, LateInv, ConnectedHasLink, RadioOffUnlessLate, Held, Places, Tasks
<1>3. ASSUME NEW t \in Tasks, InitDriver(t) PROVE Rest'
  <2>1. CASE Failed(t) /\ wifi' \in {[wifi EXCEPT !.stage = s] : s \in {wifi.stage, "PARTIAL"}}
    <3>4. wifi.stage # "READY" /\ wifi \in Stations
      BY <1>0, <1>3 DEF InitDriver, TenureInv, WifiType
    <3>5. [wifi EXCEPT !.stage = wifi.stage] = wifi
      BY <3>4 DEF Stations
    <3>1. wifi' = wifi \/ (wifi.stage # "READY" /\ wifi' = [wifi EXCEPT !.stage = "PARTIAL"])
      BY <2>1, <3>4, <3>5
    <3>2. at[t] = "init" /\ driver' = driver
      BY <1>3 DEF InitDriver
    <3>3. QED
      BY <1>0, <2>1, <3>1, <3>2, FailedKeeps
  <2>2. CASE /\ wifi' = [wifi EXCEPT !.stage = "DRIVER"]
             /\ Goto(t, "start")
             /\ UNCHANGED <<lock, cmd, requests, budget, wakeup, late, outcome>>
    <3>1. /\ at[t] = "init" /\ lock = t /\ \A u \in Tasks \ {t} : at[u] \notin Held
          /\ at' \in [Tasks -> Places] /\ \A u \in Tasks \ {t} : at'[u] = at[u]
          /\ t = "console" => outcome = "none"
      BY <1>0, <1>3, <2>2 DEF InitDriver, TenureInv, WifiType, Held, Places, Goto, Tasks
    <3>2. /\ wifi'.ssid = wifi.ssid /\ wifi'.connected = wifi.connected /\ wifi'.stage = "DRIVER"
          /\ wifi.stage # "READY" /\ at'[t] = "start"
          /\ UNCHANGED <<driver, lock, cmd, budget, late, outcome>>
      BY <1>0, <1>3, <2>2 DEF InitDriver, TenureInv, WifiType, Stations, Goto
    <3>4. TenureInv'
      BY <1>0, <3>1, <3>2 DEF TenureInv, WifiType, Held, Places, Tasks
    <3>5. ForgottenInv'
      BY <1>0, <3>1, <3>2 DEF ForgottenInv, TenureInv, CommandInv, Held, Places
    <3>6. CommandInv'
      BY <1>0, <3>1, <3>2 DEF CommandInv, TenureInv, ForgottenInv, WifiType, Held, Places, Tasks
    <3>7. LinkInv' /\ LateInv'
      BY <1>0, <3>1, <3>2 DEF LinkInv, LateInv, ConnectedHasLink, RadioOffUnlessLate, WifiType, Tasks
    <3>8. QED
      BY <3>4, <3>5, <3>6, <3>7
  <2>3. QED
    BY <1>3, <2>1, <2>2 DEF InitDriver
<1>4. ASSUME NEW t \in Tasks, StartRadio(t) PROVE Rest'
  <2>1. CASE Failed(t) /\ UNCHANGED <<wifi, driver>>
    <3>1. at[t] = "start"
      BY <1>4 DEF StartRadio
    <3>2. QED
      BY <1>0, <2>1, <3>1, FailedKeeps
  <2>2. CASE /\ wifi' = [wifi EXCEPT !.stage = "READY"]
             /\ driver' = [driver EXCEPT !.radio = TRUE]
             /\ Goto(t, IF Goal(t) \in {"scan", "pick"} THEN "scan" ELSE "leave")
             /\ late' = (late \/ (t = "console" /\ budget # "ACTIVE"))
             /\ UNCHANGED <<lock, cmd, requests, budget, wakeup, outcome>>
    <3>1. /\ at[t] = "start" /\ lock = t /\ \A u \in Tasks \ {t} : at[u] \notin Held
          /\ at' \in [Tasks -> Places] /\ \A u \in Tasks \ {t} : at'[u] = at[u]
          /\ t = "console" => outcome = "none"
      BY <1>0, <1>4, <2>2 DEF StartRadio, TenureInv, WifiType, Held, Places, Goto, Tasks
    <3>2. /\ wifi'.ssid = wifi.ssid /\ wifi'.connected = wifi.connected /\ wifi'.stage = "READY"
          /\ driver'.radio /\ driver'.link = driver.link /\ driver'.config = driver.config
          /\ driver'.leaving = driver.leaving
      BY <1>0, <1>4, <2>2 DEF StartRadio, WifiType, Stations, Drivers
    <3>3. /\ UNCHANGED <<lock, cmd, budget, outcome>>
          /\ late' = (late \/ (t = "console" /\ budget # "ACTIVE"))
          /\ at'[t] = IF Goal(t) \in {"scan", "pick"} THEN "scan" ELSE "leave"
          /\ t = "service" => Goal(t) = "scan"
          /\ t = "console" => Goal(t) = cmd.goal /\ cmd.goal # "scan"
      BY <1>0, <1>4, <2>2 DEF StartRadio, WifiType, Commands, Goto, Goal
    <3>4. TenureInv'
      BY <1>0, <3>1, <3>2, <3>3 DEF TenureInv, WifiType, Held, Places, Tasks
    <3>5. ForgottenInv'
      BY <1>0, <3>1, <3>2, <3>3 DEF ForgottenInv, TenureInv, CommandInv, Held, Places
    <3>6. CommandInv'
      BY <1>0, <3>1, <3>2, <3>3 DEF CommandInv, TenureInv, ForgottenInv, WifiType, Held, Places, Tasks
    <3>7. LinkInv' /\ LateInv'
      BY <1>0, <3>1, <3>2, <3>3 DEF LinkInv, LateInv, ConnectedHasLink, RadioOffUnlessLate, WifiType, Tasks
    <3>8. QED
      BY <3>4, <3>5, <3>6, <3>7
  <2>3. QED
    BY <1>4, <2>1, <2>2 DEF StartRadio
<1>5. ASSUME NEW t \in Tasks, Scan(t) PROVE Rest'
  <2>1. CASE Failed(t)
    BY <1>0, <1>5, <2>1, FailedKeeps DEF Scan
  <2>2. CASE ~Failed(t)
    <3>1. /\ at[t] = "scan" /\ lock = t /\ \A u \in Tasks \ {t} : at[u] \notin Held
          /\ at' \in [Tasks -> Places] /\ \A u \in Tasks \ {t} : at'[u] = at[u]
          /\ t = "console" => outcome = "none"
      BY <1>0, <1>5, <2>2 DEF Scan, TenureInv, WifiType, Held, Places, Goto, Tasks
    <3>3. /\ lock' = "free" /\ UNCHANGED <<wifi, driver, budget, late, outcome>>
          /\ \/ Goto(t, "idle") /\ cmd' = cmd
             \/ /\ t = "console" /\ Goto(t, "lock")
                /\ \E n \in Network : cmd' = [cmd EXCEPT !.goal = "connect", !.net = n]
      BY <1>5, <2>2 DEF Scan
    <3>9. \A n \in Network : /\ [cmd EXCEPT !.goal = "connect", !.net = n].goal = "connect"
                            /\ [cmd EXCEPT !.goal = "connect", !.net = n].net = n
      BY <1>0 DEF WifiType, Commands
    <3>10. (Goto(t, "idle") => at'[t] = "idle") /\ (Goto(t, "lock") => at'[t] = "lock")
      BY <1>0 DEF WifiType, Goto
    <3>2. /\ lock' = "free" /\ UNCHANGED <<wifi, driver, budget, late, outcome>>
          /\ \/ at'[t] = "idle" /\ cmd' = cmd
             \/ at'[t] = "lock" /\ t = "console" /\ cmd'.goal = "connect" /\ cmd'.net \in Network
      BY <3>3, <3>9, <3>10
    <3>4. TenureInv'
      BY <1>0, <3>1, <3>2 DEF TenureInv, WifiType, Held, Places, Tasks
    <3>5. ForgottenInv'
      BY <1>0, <3>1, <3>2 DEF ForgottenInv, TenureInv, CommandInv, Held, Places
    <3>6. CommandInv'
      BY <1>0, <3>1, <3>2 DEF CommandInv, TenureInv, ForgottenInv, WifiType, Held, Places, Tasks
    <3>7. LinkInv' /\ LateInv'
      BY <1>0, <3>1, <3>2 DEF LinkInv, LateInv, ConnectedHasLink, RadioOffUnlessLate, WifiType, Tasks
    <3>8. QED
      BY <3>4, <3>5, <3>6, <3>7
  <2>3. QED
    BY <2>1, <2>2
<1>6. CASE Leave
  BY <1>0, <1>6 DEF Leave, Goto, WifiType, Stations, Drivers, Commands, TenureInv, ForgottenInv, CommandInv,
     LinkInv, LateInv, ConnectedHasLink, RadioOffUnlessLate, Held, Places, Tasks
<1>7. CASE Left
  BY <1>0, <1>7 DEF Left, Goto, WifiType, Stations, Drivers, Commands, TenureInv, ForgottenInv, CommandInv,
     LinkInv, LateInv, ConnectedHasLink, RadioOffUnlessLate, Held, Places, Tasks
<1>8. CASE Clear
  BY <1>0, <1>8 DEF Clear, Goto, WifiType, Stations, Drivers, Commands, TenureInv, ForgottenInv, CommandInv,
     LinkInv, LateInv, ConnectedHasLink, RadioOffUnlessLate, Held, Places, Tasks
<1>9. CASE Join
  <2>1. \/ wifi' = wifi /\ driver' = driver /\ cmd' = [cmd EXCEPT !.ok = FALSE] /\ Goto("console", "finish")
        \/ /\ wifi' = [wifi EXCEPT !.ssid = cmd.net, !.connecting = TRUE, !.bits = @ \ {"CONNECTED", "FAILED"}]
           /\ \/ /\ driver' = [driver EXCEPT !.config = cmd.net] /\ Goto("console", "leave")
                 /\ cmd' = [cmd EXCEPT !.ok = FALSE, !.undo = TRUE]
              \/ /\ driver.radio /\ Goto("console", "wait") /\ cmd' = cmd
                 /\ driver' = [driver EXCEPT !.config = cmd.net, !.link = "joining"]
    BY <1>9 DEF Join, GiveUp
  <2>2. /\ at["console"] = "join" /\ lock = "console" /\ at["service"] \notin Held /\ outcome = "none"
        /\ wifi.stage = "READY" /\ driver.link = "down" /\ ~wifi.connected /\ wifi.ssid = NoNetwork
        /\ cmd.ok /\ cmd.goal = "connect" /\ cmd.net # NoNetwork
        /\ UNCHANGED <<lock, budget, late, outcome>>
    BY <1>0, <1>9 DEF Join, TenureInv, CommandInv, Held, Places, Tasks
  <2>11. wifi \in Stations /\ driver \in Drivers /\ cmd \in Commands
    BY <1>0 DEF WifiType
  <2>12. wifi'.stage = wifi.stage /\ wifi'.connected = wifi.connected /\ wifi'.ssid \in {wifi.ssid, cmd.net}
    BY <2>1, <2>11 DEF Stations
  <2>13. driver'.radio = driver.radio
    BY <2>1, <2>11 DEF Drivers
  <2>14. cmd'.goal = cmd.goal /\ cmd'.net = cmd.net
    BY <2>1, <2>11 DEF Commands
  <2>8. /\ wifi'.stage = "READY" /\ ~wifi'.connected /\ wifi'.ssid \in {wifi.ssid, cmd.net}
        /\ driver'.radio = driver.radio /\ cmd'.goal = "connect" /\ cmd'.net = cmd.net
    BY <2>2, <2>12, <2>13, <2>14
  <2>9. \/ wifi' = wifi /\ driver' = driver /\ at'["console"] = "finish"
        \/ wifi'.ssid = cmd.net /\ driver'.link = driver.link /\ at'["console"] = "leave"
        \/ wifi'.ssid = cmd.net /\ driver'.link = "joining" /\ driver.radio /\ at'["console"] = "wait" /\ cmd' = cmd
    BY <1>0, <2>1 DEF WifiType, Stations, Drivers, Goto, Tasks
  <2>10. at' \in [Tasks -> Places] /\ at'["service"] = at["service"]
    BY <1>0, <2>1 DEF Goto, WifiType, Tasks, Places
  <2>3. TenureInv'
    BY <1>0, <2>2, <2>8, <2>9, <2>10 DEF TenureInv, WifiType, Held, Places, Tasks
  <2>4. ForgottenInv'
    BY <1>0, <2>2, <2>8, <2>9, <2>10 DEF ForgottenInv, TenureInv, CommandInv, Held, Places
  <2>5. CommandInv'
    BY <1>0, <2>2, <2>8, <2>9, <2>10 DEF CommandInv, TenureInv, ForgottenInv, WifiType, Held, Places, Tasks
  <2>6. LinkInv' /\ LateInv'
    BY <1>0, <2>2, <2>8, <2>9, <2>10 DEF LinkInv, LateInv, ConnectedHasLink, RadioOffUnlessLate, WifiType, Tasks
  <2>7. QED
    BY <2>3, <2>4, <2>5, <2>6
<1>10. CASE Wait
  <2>1. wifi \in Stations /\ cmd \in Commands /\ at \in [Tasks -> Places]
    BY <1>0 DEF WifiType
  <2>2. /\ wifi' = [wifi EXCEPT !.bits = @ \ {"CONNECTED", "FAILED"}]
        /\ \/ Goto("console", "finish") /\ cmd' = cmd
           \/ Goto("console", "leave") /\ cmd' = [cmd EXCEPT !.ok = FALSE, !.undo = TRUE]
        /\ at["console"] = "wait" /\ UNCHANGED <<driver, lock, budget, late, outcome>>
    BY <1>10 DEF Wait, GiveUp
  <2>3. UNCHANGED <<wifi.stage, wifi.connected, wifi.ssid>>
    BY <2>1, <2>2 DEF Stations
  <2>4. UNCHANGED <<cmd.goal, cmd.net>>
    BY <2>1, <2>2 DEF Commands
  <2>5. /\ at' \in [Tasks -> Places] /\ at'["service"] = at["service"]
        /\ at'["console"] = "leave" \/ (at'["console"] = "finish" /\ cmd' = cmd)
    BY <2>1, <2>2 DEF Goto, Tasks, Places
  <2>6. TenureInv'
    BY <1>0, <2>2, <2>3, <2>5 DEF TenureInv, WifiType, Held, Places, Tasks
  <2>7. ForgottenInv'
    BY <1>0, <2>2, <2>3 DEF ForgottenInv
  <2>8. CommandInv'
    BY <1>0, <2>2, <2>3, <2>4, <2>5 DEF CommandInv
  <2>9. LinkInv' /\ LateInv'
    BY <1>0, <2>2, <2>3, <2>5 DEF LinkInv, LateInv, ConnectedHasLink, RadioOffUnlessLate
  <2>10. QED
    BY <2>6, <2>7, <2>8, <2>9
<1>11. CASE Finish
  BY <1>0, <1>11 DEF Finish, Goto, WifiType, Stations, Drivers, Commands, TenureInv, ForgottenInv, CommandInv,
     LinkInv, LateInv, ConnectedHasLink, RadioOffUnlessLate, Held, Places, Tasks
<1>12. CASE Tick
  BY <1>0, <1>12 DEF Tick, Goto, WifiType, Stations, Drivers, Commands, TenureInv, ForgottenInv, CommandInv,
     LinkInv, LateInv, ConnectedHasLink, RadioOffUnlessLate, Held, Places, Tasks
<1>13. CASE Wanted
  <2>1. cmd'.goal = "connect" => cmd'.net # NoNetwork
    <3>1. CASE cmd' \in [goal : {"connect"}, net : Network, ok : {TRUE}, undo : {FALSE}]
      BY <3>1
    <3>2. CASE cmd' \in [goal : {"pick"}, net : {NoNetwork}, ok : {TRUE}, undo : {FALSE}]
      BY <3>2
    <3>3. CASE cmd' = [goal |-> "disconnect", net |-> NoNetwork, ok |-> TRUE, undo |-> FALSE]
      BY <3>3
    <3>4. QED
      BY <1>13, <3>1, <3>2, <3>3 DEF Wanted
  <2>2. /\ at' \in [Tasks -> Places] /\ at["console"] = "idle" /\ at'["console"] = "lock"
        /\ at'["service"] = at["service"]
        /\ UNCHANGED <<wifi, driver, lock, budget, late, outcome>>
    BY <1>0, <1>13 DEF Wanted, Goto, WifiType, Tasks, Places
  <2>3. TenureInv'
    BY <1>0, <2>1, <2>2 DEF TenureInv, WifiType, Held, Places, Tasks
  <2>4. ForgottenInv'
    BY <1>0, <2>1, <2>2 DEF ForgottenInv, TenureInv, CommandInv, Held, Places
  <2>5. CommandInv'
    BY <1>0, <2>1, <2>2 DEF CommandInv, TenureInv, ForgottenInv, WifiType, Held, Places, Tasks
  <2>6. LinkInv' /\ LateInv'
    BY <1>0, <2>1, <2>2 DEF LinkInv, LateInv, ConnectedHasLink, RadioOffUnlessLate, WifiType, Tasks
  <2>7. QED
    BY <2>3, <2>4, <2>5, <2>6
<1>14. CASE RequestScan
  BY <1>0, <1>14 DEF RequestScan, Goto, WifiType, Stations, Drivers, Commands, TenureInv, ForgottenInv, CommandInv,
     LinkInv, LateInv, ConnectedHasLink, RadioOffUnlessLate, Held, Places, Tasks
<1>15. CASE PowerActive
  BY <1>0, <1>15 DEF PowerActive, Activate, Goto, WifiType, Stations, Drivers, Commands, TenureInv, ForgottenInv, CommandInv,
     LinkInv, LateInv, ConnectedHasLink, RadioOffUnlessLate, Held, Places, Tasks
<1>16. ASSUME NEW b \in {"WATCHDOG", "SENTINEL"}, PowerDown(b) PROVE Rest'
  <2>1. TenureInv'
    BY <1>0, <1>16 DEF PowerDown, Handled, Goto, WifiType, Stations, TenureInv, Held, Places, Tasks
  <2>2. ForgottenInv'
    BY <1>0, <1>16 DEF PowerDown, Handled, Goto, WifiType, Stations, Drivers, ForgottenInv, TenureInv, CommandInv,
       Held, Places
  <2>3. CommandInv'
    BY <1>0, <1>16 DEF PowerDown, Handled, Goto, WifiType, Stations, Drivers, Commands, CommandInv, TenureInv,
       ForgottenInv, Held, Places, Tasks
  <2>4. LinkInv'
    BY <1>0, <1>16 DEF PowerDown, Handled, WifiType, Stations, Drivers, LinkInv, ConnectedHasLink, CommandInv
  <2>5. LateInv'
    BY <1>0, <1>16 DEF PowerDown, Handled, Goto, WifiType, Drivers, LateInv, RadioOffUnlessLate, Tasks
  <2>6. QED
    BY <2>1, <2>2, <2>3, <2>4, <2>5
<1>17. CASE Sleep
  BY <1>0, <1>17 DEF Sleep, Activate, Reset, PoweredUp, Goto, WifiType, Stations, Drivers, Commands, TenureInv, ForgottenInv, CommandInv,
     LinkInv, LateInv, ConnectedHasLink, RadioOffUnlessLate, Held, Places, Tasks
<1>18. CASE DeleteScanner
  BY <1>0, <1>18 DEF DeleteScanner, Goto, WifiType, Stations, Drivers, Commands, TenureInv, ForgottenInv, CommandInv,
     LinkInv, LateInv, ConnectedHasLink, RadioOffUnlessLate, Held, Places, Tasks
<1>19. CASE RestartScanner
  BY <1>0, <1>19 DEF RestartScanner, Goto, WifiType, Stations, Drivers, Commands, TenureInv, ForgottenInv, CommandInv,
     LinkInv, LateInv, ConnectedHasLink, RadioOffUnlessLate, Held, Places, Tasks
<1>20. CASE Joined /\ DriverStep
  <2>1. /\ wifi'.stage = wifi.stage /\ wifi'.ssid = wifi.ssid
    BY <1>0, <1>20, HandledKeeps DEF Joined, WifiType
  <2>2. /\ driver'.link = "up" /\ driver'.radio = driver.radio /\ driver.link = "joining"
        /\ driver'.config = driver.config
        /\ UNCHANGED <<lock, at, cmd, budget, late, outcome>>
    BY <1>0, <1>20 DEF Joined, DriverStep, WifiType, Drivers
  <2>3. TenureInv'
    BY <1>0, <2>1, <2>2 DEF TenureInv, WifiType, Held, Places, Tasks
  <2>4. ForgottenInv'
    BY <1>0, <2>1, <2>2 DEF ForgottenInv, TenureInv, CommandInv, Held, Places
  <2>5. CommandInv'
    BY <1>0, <2>1, <2>2 DEF CommandInv, TenureInv, ForgottenInv, WifiType, Held, Places, Tasks
  <2>6. LinkInv' /\ LateInv'
    BY <1>0, <2>1, <2>2 DEF LinkInv, LateInv, ConnectedHasLink, RadioOffUnlessLate, WifiType, Tasks
  <2>7. QED
    BY <2>3, <2>4, <2>5, <2>6
<1>21. CASE LinkLost /\ DriverStep
  <2>1. /\ wifi'.stage = wifi.stage /\ wifi'.ssid = wifi.ssid
        /\ ~wifi'.connected
    BY <1>0, <1>21, HandledKeeps DEF LinkLost, WifiType
  <2>2. /\ driver'.link = "down" /\ driver'.radio = driver.radio
        /\ driver'.config = driver.config
        /\ UNCHANGED <<lock, at, cmd, budget, late, outcome>>
    BY <1>0, <1>21 DEF LinkLost, DriverStep, WifiType, Drivers
  <2>3. TenureInv'
    BY <1>0, <2>1, <2>2 DEF TenureInv, WifiType, Held, Places, Tasks
  <2>4. ForgottenInv'
    BY <1>0, <2>1, <2>2 DEF ForgottenInv, TenureInv, CommandInv, Held, Places
  <2>5. CommandInv'
    BY <1>0, <2>1, <2>2 DEF CommandInv, TenureInv, ForgottenInv, WifiType, Held, Places, Tasks
  <2>6. LinkInv' /\ LateInv'
    BY <1>0, <2>1, <2>2 DEF LinkInv, LateInv, ConnectedHasLink, RadioOffUnlessLate, WifiType, Tasks
  <2>7. QED
    BY <2>3, <2>4, <2>5, <2>6
<1>22. CASE LeaveReported /\ DriverStep
  <2>1. /\ wifi'.stage = wifi.stage /\ wifi'.ssid = wifi.ssid
        /\ ~wifi'.connected
    BY <1>0, <1>22, HandledKeeps DEF LeaveReported, WifiType
  <2>2. /\ driver'.link = driver.link /\ driver'.radio = driver.radio
        /\ driver'.config = driver.config
        /\ UNCHANGED <<lock, at, cmd, budget, late, outcome>>
    BY <1>0, <1>22 DEF LeaveReported, DriverStep, WifiType, Drivers
  <2>3. TenureInv'
    BY <1>0, <2>1, <2>2 DEF TenureInv, WifiType, Held, Places, Tasks
  <2>4. ForgottenInv'
    BY <1>0, <2>1, <2>2 DEF ForgottenInv, TenureInv, CommandInv, Held, Places
  <2>5. CommandInv'
    BY <1>0, <2>1, <2>2 DEF CommandInv, TenureInv, ForgottenInv, WifiType, Held, Places, Tasks
  <2>6. LinkInv' /\ LateInv'
    BY <1>0, <2>1, <2>2 DEF LinkInv, LateInv, ConnectedHasLink, RadioOffUnlessLate, WifiType, Tasks
  <2>7. QED
    BY <2>3, <2>4, <2>5, <2>6
<1>23. CASE Reset
  BY <1>0, <1>23 DEF Reset, PoweredUp, Goto, WifiType, Stations, Drivers, Commands, TenureInv, ForgottenInv, CommandInv,
     LinkInv, LateInv, ConnectedHasLink, RadioOffUnlessLate, Held, Places, Tasks
<1>24. CASE UNCHANGED wifiVars
  BY <1>0, <1>24 DEF wifiVars, Goto, WifiType, Stations, Drivers, Commands, TenureInv, ForgottenInv, CommandInv,
     LinkInv, LateInv, ConnectedHasLink, RadioOffUnlessLate, Held, Places, Tasks
<1>25. QED
  BY <1>1, <1>2, <1>3, <1>4, <1>5, <1>6, <1>7, <1>8, <1>9, <1>10, <1>11, <1>12, <1>13, <1>14, <1>15, <1>16, <1>17, <1>18, <1>19, <1>20, <1>21, <1>22, <1>23, <1>24 DEF WifiNext, ConsoleStep, TaskStep, DriverStep, Tasks

\* The station after power-up satisfies the invariant.
LEMMA WifiInitInv == WifiInit => WifiInv
<1> SUFFICES ASSUME WifiInit PROVE WifiInv
  OBVIOUS
<1> USE WifiAssumption
<1>1. WifiType
  BY PoweredUpTyped DEF WifiInit, WifiType
<1>2. /\ wifi.stage = "NONE" /\ ~wifi.connected /\ wifi.ssid = NoNetwork
      /\ ~driver.radio /\ driver.link = "down" /\ driver.config = NoNetwork
      /\ at = [t \in Tasks |-> "idle"] /\ lock = "free" /\ outcome = "none" /\ budget = "ACTIVE"
  BY DEF WifiInit, PoweredUp
<1>3. \A t \in Tasks : at[t] = "idle"
  BY <1>2
<1>4. TenureInv /\ ForgottenInv /\ CommandInv
  BY <1>2, <1>3 DEF TenureInv, ForgottenInv, CommandInv, Held, Tasks
<1>5. LinkInv /\ LateInv
  BY <1>2, <1>3 DEF LinkInv, LateInv, ConnectedHasLink, RadioOffUnlessLate, Tasks
<1>6. QED
  BY <1>1, <1>4, <1>5 DEF WifiInv

\* What the invariant says of the link, the credentials and the radio.
LEMMA WifiInvImplies == WifiInv => ConnectedHasLink /\ FailedMeansForgotten /\ RadioOffUnlessLate
BY DEF WifiInv, ForgottenInv, LinkInv, LateInv, FailedMeansForgotten

-----------------------------------------------------------------------------
(* The length of a wifi command.                                           *)

\* A place of cmd_wifi counts for more than those that may follow it, except that
\* giving up leads back to "leave", and a picked network back to the lock.
PlaceRank(p) ==
  CASE p = "lock"   -> 9
    [] p = "init"   -> 8
    [] p = "start"  -> 7
    [] p = "scan"   -> 6
    [] p = "leave"  -> 6
    [] p = "left"   -> 5
    [] p = "clear"  -> 4
    [] p = "join"   -> 3
    [] p = "wait"   -> 2
    [] p = "finish" -> 1
    [] OTHER        -> 0

\* The steps a command has still to take, at most: a command gives up once, and
\* picks once.
CommandSteps ==
  IF at["console"] = "idle" THEN 0
  ELSE PlaceRank(at["console"]) + (IF cmd.goal = "pick" THEN 4 ELSE 0)
                                + (IF cmd.undo THEN 0 ELSE 5)

\* In these places the command has not given up before.
FirstTry == at["console"] \in {"lock", "init", "start", "scan", "join", "wait"} => ~cmd.undo

\* The number of steps is one that can be counted down.
LEMMA CommandStepsBounded == WifiType => CommandSteps \in 0 .. 18
<1>1. PlaceRank(at["console"]) \in 0 .. 9
  BY DEF PlaceRank
<1>2. QED
  BY <1>1 DEF CommandSteps

\* Every step of the console task takes its command nearer to its end.
LEMMA ConsoleStepCountsDown ==
  ASSUME WifiInv, FirstTry, ConsoleStep
  PROVE  FirstTry' /\ CommandSteps' < CommandSteps
<1> DEFINE here == at["console"]
           Picks(goal) == IF goal = "pick" THEN 4 ELSE 0
           Tries(undo) == IF undo THEN 0 ELSE 5
<1>1. /\ WifiType /\ cmd \in Commands
      /\ here \in Places /\ at \in [Tasks -> Places] /\ "console" \in Tasks
      /\ here = "scan" => cmd.goal = "pick"
      /\ here \in {"join", "wait"} => cmd.goal = "connect"
  BY DEF WifiInv, WifiType, Tasks, CommandInv
<1>2. \A p \in Places : Goto("console", p) => at'["console"] = p
  BY <1>1 DEF Goto
<1>3. {"idle", "finish", "wait", "join", "clear", "left", "leave", "scan", "start", "init", "lock"}
        \subseteq Places
  BY DEF Places
<1>4. here # "idle" =>
        CommandSteps = PlaceRank(here) + Picks(cmd.goal) + Tries(cmd.undo)
  BY DEF CommandSteps
<1>5. CommandSteps' = IF at'["console"] = "idle" THEN 0
                      ELSE PlaceRank(at'["console"]) + Picks(cmd'.goal) + Tries(cmd'.undo)
  BY DEF CommandSteps
<1>6. ASSUME Failed("console"), here \in {"init", "start", "scan"}
      PROVE  FirstTry' /\ CommandSteps' < CommandSteps
  <2>1. /\ at'["console"] \in {"idle", "leave", "finish"}
        /\ here = "scan" => at'["console"] = "idle"
    BY <1>1, <1>2, <1>3, <1>6 DEF Failed, Goal
  <2>2. cmd'.goal = cmd.goal /\ cmd'.undo = TRUE /\ ~cmd.undo
    BY <1>1, <1>6 DEF Failed, Commands, FirstTry
  <2>3. QED
    <3> HIDE DEF here
    <3>1. QED
      BY <1>4, <1>5, <1>6, <2>1, <2>2 DEF PlaceRank, FirstTry, Picks, Tries
<1>7. CASE Take("console")
  <2>1. here = "lock" /\ cmd' = cmd /\ at'["console"] \in {"finish", "leave", "start", "init"}
    BY <1>1, <1>2, <1>3, <1>7, FirstPlaces DEF Take
  <2>2. QED
    BY <1>4, <1>5, <2>1 DEF PlaceRank, FirstTry
<1>8. CASE Busy("console")
  <2>1. here = "lock" /\ at'["console"] = "idle"
    BY <1>1, <1>2, <1>3, <1>8 DEF Busy
  <2>2. QED
    BY <1>4, <1>5, <2>1 DEF PlaceRank, FirstTry
<1>9. CASE InitDriver("console")
  <2>1. here = "init"
    BY <1>9 DEF InitDriver
  <2>2. CASE Failed("console")
    BY <1>6, <2>1, <2>2
  <2>3. CASE ~Failed("console")
    <3>1. at'["console"] = "start" /\ cmd' = cmd
      BY <1>2, <1>3, <1>9, <2>3 DEF InitDriver
    <3>2. QED
      BY <1>4, <1>5, <2>1, <3>1 DEF PlaceRank, FirstTry
  <2>4. QED
    BY <2>2, <2>3
<1>10. CASE StartRadio("console")
  <2>1. here = "start"
    BY <1>10 DEF StartRadio
  <2>2. CASE Failed("console")
    BY <1>6, <2>1, <2>2
  <2>3. CASE ~Failed("console")
    <3>1. at'["console"] \in {"scan", "leave"} /\ cmd' = cmd
      BY <1>2, <1>3, <1>10, <2>3 DEF StartRadio
    <3>2. QED
      BY <1>4, <1>5, <2>1, <3>1 DEF PlaceRank, FirstTry
  <2>4. QED
    BY <2>2, <2>3
<1>11. CASE Scan("console")
  <2>1. here = "scan" /\ cmd.goal = "pick" /\ ~cmd.undo
    BY <1>1, <1>11 DEF Scan, FirstTry
  <2>2. CASE Failed("console")
    BY <1>6, <2>1, <2>2
  <2>3. CASE ~Failed("console")
    <3>1. \/ at'["console"] = "idle"
          \/ at'["console"] = "lock" /\ cmd'.goal = "connect" /\ cmd'.undo = cmd.undo
      BY <1>1, <1>2, <1>3, <1>11, <2>3 DEF Scan, Commands
    <3>2. QED
      BY <1>4, <1>5, <2>1, <3>1 DEF PlaceRank, FirstTry
  <2>4. QED
    BY <2>2, <2>3
<1>12. CASE Leave \/ Left
  <2>1. /\ \/ here = "leave" /\ at'["console"] \in {"left", "clear"}
           \/ here = "left" /\ at'["console"] = "clear"
        /\ cmd'.goal = cmd.goal /\ cmd'.undo = cmd.undo
    BY <1>1, <1>2, <1>3, <1>12 DEF Leave, Left, Commands
  <2>2. QED
    BY <1>4, <1>5, <2>1 DEF PlaceRank, FirstTry
<1>13. CASE Clear
  <2>1. /\ here = "clear" /\ cmd' = cmd
        /\ \/ at'["console"] = "join" /\ ~cmd.undo
           \/ at'["console"] = "finish"
    BY <1>2, <1>3, <1>13 DEF Clear
  <2>2. QED
    BY <1>4, <1>5, <2>1 DEF PlaceRank, FirstTry
<1>14. CASE Join \/ Wait
  <2>1. here \in {"join", "wait"} /\ ~cmd.undo /\ cmd.goal = "connect"
    BY <1>1, <1>14 DEF Join, Wait, FirstTry
  <2>2. /\ cmd'.goal = cmd.goal
        /\ \/ at'["console"] = "finish" /\ cmd'.undo = cmd.undo
           \/ at'["console"] = "leave" /\ cmd'.undo = TRUE
           \/ here = "join" /\ at'["console"] = "wait" /\ cmd'.undo = cmd.undo
    BY <1>1, <1>2, <1>3, <1>14 DEF Join, Wait, GiveUp, Commands
  <2>3. QED
    BY <1>4, <1>5, <2>1, <2>2 DEF PlaceRank, FirstTry
<1>15. CASE Finish
  <2>1. here = "finish" /\ at'["console"] = "idle"
    BY <1>2, <1>3, <1>15 DEF Finish
  <2>2. QED
    BY <1>4, <1>5, <2>1 DEF PlaceRank, FirstTry
<1>16. QED
  BY <1>7, <1>8, <1>9, <1>10, <1>11, <1>12, <1>13, <1>14, <1>15 DEF ConsoleStep, TaskStep

\* No other step touches a command that is under way, other than a reset.
LEMMA OthersSpareTheCommand ==
  ASSUME WifiInv, [WifiNext]_wifiVars, ~ConsoleStep
  PROVE  \/ at'["console"] = at["console"] /\ cmd' = cmd
         \/ at["console"] = "idle" /\ at'["console"] = "lock" /\ ~cmd'.undo
         \/ at'["console"] = "idle"
<1>1. at \in [Tasks -> Places] /\ Tasks = {"console", "service"}
  BY DEF WifiInv, WifiType, Tasks
<1>2. \A p : Goto("service", p) => at'["console"] = at["console"]
  BY <1>1 DEF Goto
<1>3. CASE TaskStep("service")
  <2>1. cmd' = cmd
    BY <1>3 DEF TaskStep, Take, Busy, InitDriver, StartRadio, Scan, Failed
  <2>2. at'["console"] = at["console"]
    BY <1>2, <1>3 DEF TaskStep, Take, Busy, InitDriver, StartRadio, Scan, Failed
  <2>3. QED
    BY <2>1, <2>2
<1>4. CASE Wanted
  <2>1. at["console"] = "idle" /\ at'["console"] = "lock"
    BY <1>1, <1>4 DEF Wanted, Goto
  <2>2. ~cmd'.undo
    <3>1. CASE cmd' \in [goal : {"connect"}, net : Network, ok : {TRUE}, undo : {FALSE}]
      BY <3>1
    <3>2. CASE cmd' \in [goal : {"pick"}, net : {NoNetwork}, ok : {TRUE}, undo : {FALSE}]
      BY <3>2
    <3>3. CASE cmd' = [goal |-> "disconnect", net |-> NoNetwork, ok |-> TRUE, undo |-> FALSE]
      BY <3>3
    <3>4. QED
      BY <1>4, <3>1, <3>2, <3>3 DEF Wanted
  <2>3. QED
    BY <2>1, <2>2
<1>5. CASE Tick \/ DeleteScanner \/ RestartScanner
  BY <1>2, <1>5 DEF Tick, DeleteScanner, RestartScanner
<1>6. CASE Reset \/ Sleep
  BY <1>6 DEF Reset, Sleep, PoweredUp, Tasks
<1>7. CASE RequestScan \/ PowerActive \/ PowerDown("WATCHDOG") \/ PowerDown("SENTINEL")
           \/ DriverStep \/ UNCHANGED wifiVars
  BY <1>7 DEF RequestScan, PowerActive, PowerDown, DriverStep, wifiVars
<1>8. QED
  BY <1>3, <1>4, <1>5, <1>6, <1>7 DEF WifiNext

\* A command goes nearer to its end or stays where it is.
LEMMA CommandRunsDown ==
  ASSUME WifiInv, FirstTry, [WifiNext]_wifiVars
  PROVE  /\ FirstTry'
         /\ ConsoleStep => CommandSteps' < CommandSteps
         /\ at["console"] # "idle" => CommandSteps' <= CommandSteps
<1>1. CommandSteps \in 0 .. 18
  BY CommandStepsBounded DEF WifiInv
<1>2. CASE ConsoleStep
  <2>1. WifiType'
    BY WifiTypeNext DEF WifiInv
  <2>2. CommandSteps' \in 0 .. 18
    <3>1. PlaceRank(at'["console"]) \in 0 .. 9
      BY DEF PlaceRank
    <3>2. QED
      BY <3>1 DEF CommandSteps
  <2>3. QED
    BY <1>1, <1>2, <2>2, ConsoleStepCountsDown
<1>3. CASE ~ConsoleStep
  <2>1. CASE at'["console"] = at["console"] /\ cmd' = cmd
    BY <1>1, <1>3, <2>1 DEF CommandSteps, FirstTry
  <2>2. CASE at["console"] = "idle" /\ at'["console"] = "lock" /\ ~cmd'.undo
    BY <1>3, <2>2 DEF FirstTry
  <2>3. CASE at'["console"] = "idle"
    BY <1>1, <1>3, <2>3 DEF CommandSteps, FirstTry
  <2>4. QED
    BY <1>3, <2>1, <2>2, <2>3, OthersSpareTheCommand
<1>4. QED
  BY <1>2, <1>3

-----------------------------------------------------------------------------
(* The configuration journal in NVS.                                       *)

\* The generation after one, and before one, round the wrap.
NextGen(g) == (g + 1) % Span
PrevGen(g) == (g - 1) % Span

\* The blobs while configuration c of generation g is in force: its own, or none
\* before the first, and in the other place none, that of a commit tried since,
\* or the one before it.
Journal(g, c) ==
  LET mine  == records[SlotOf(g)]
      other == records[1 - SlotOf(g)]
      later == other.generation = NextGen(g) /\ other.config \in tried
  IN  \/ /\ mine = [generation |-> g, config |-> c]
         /\ other # NoRecord => later \/ other.generation = PrevGen(g)
      \/ /\ mine = NoRecord /\ g = 0 /\ c = Default
         /\ other # NoRecord => later

\* The inductive invariant of the journal in NVS.
NvsInv ==
  /\ NvsType
  /\ IF commit.at = "boot" THEN \E g \in Generation : Journal(g, acked)
     ELSE live = acked /\ Journal(generation, live)
  /\ commit.at \in {"write", "verify"} =>
       /\ commit.record.generation = NextGen(generation)
       /\ commit.record.config \in tried
  /\ commit.at = "verify" => records[SlotOf(commit.record.generation)] = commit.record

\* Next to each other, generations are told apart round the wrap.
LEMMA Generations ==
  ASSUME NEW g \in Generation
  PROVE  /\ NextGen(g) \in Generation /\ PrevGen(g) \in Generation
         /\ PrevGen(NextGen(g)) = g
         /\ SlotOf(g) \in Blob /\ 1 - SlotOf(g) \in Blob /\ 1 - (1 - SlotOf(g)) = SlotOf(g) /\ SlotOf(g) # 1 - SlotOf(g)
         /\ SlotOf(NextGen(g)) = 1 - SlotOf(g)
         /\ Newer(NextGen(g), g) /\ ~Newer(g, NextGen(g))
         /\ Newer(g, PrevGen(g)) /\ ~Newer(PrevGen(g), g)
<1> USE NvsAssumption
<1>1. /\ \A a \in 0 .. Span - 1 : a % Span = a /\ (a - Span) % Span = a /\ (a + Span) % Span = a
      /\ g \in 0 .. Span - 1
  BY DEF Generation
<1>2. PICK h \in Nat : Span = 2 * h
  OBVIOUS
<1>3. Span \div 2 = h /\ h >= 2
  BY <1>2
<1>4. NextGen(g) = IF g = Span - 1 THEN 0 ELSE g + 1
  <2>1. CASE g = Span - 1
    <3>1. g + 1 = 0 + Span /\ 0 \in 0 .. Span - 1
      BY <2>1
    <3>2. QED
      BY <1>1, <2>1, <3>1 DEF NextGen
  <2>2. CASE g # Span - 1
    <3>1. g + 1 \in 0 .. Span - 1
      BY <1>1, <2>2
    <3>2. QED
      BY <1>1, <2>2, <3>1 DEF NextGen
  <2>3. QED
    BY <2>1, <2>2
<1>5. PrevGen(g) = IF g = 0 THEN Span - 1 ELSE g - 1
  <2>1. CASE g = 0
    <3>1. g - 1 = (Span - 1) - Span /\ Span - 1 \in 0 .. Span - 1
      BY <2>1
    <3>2. QED
      BY <1>1, <2>1, <3>1 DEF PrevGen
  <2>2. CASE g # 0
    <3>1. g - 1 \in 0 .. Span - 1
      BY <1>1, <2>2
    <3>2. QED
      BY <1>1, <2>2, <3>1 DEF PrevGen
  <2>3. QED
    BY <2>1, <2>2
<1>6. PrevGen(NextGen(g)) = g
  <2>1. CASE g = Span - 1
    <3>1. NextGen(g) - 1 = (Span - 1) - Span /\ Span - 1 \in 0 .. Span - 1
      BY <1>4, <2>1
    <3>2. QED
      BY <1>1, <2>1, <3>1 DEF PrevGen
  <2>2. CASE g # Span - 1
    <3>1. NextGen(g) - 1 = g
      BY <1>1, <1>4, <2>2
    <3>2. QED
      BY <1>1, <3>1 DEF PrevGen
  <2>3. QED
    BY <2>1, <2>2
<1>7. /\ NextGen(g) \in Generation /\ PrevGen(g) \in Generation
  BY <1>1, <1>4, <1>5 DEF Generation
<1>8. /\ SlotOf(g) \in Blob /\ 1 - SlotOf(g) \in Blob /\ 1 - (1 - SlotOf(g)) = SlotOf(g)
      /\ SlotOf(g) # 1 - SlotOf(g)
  BY <1>1 DEF SlotOf, Blob
<1>9. SlotOf(NextGen(g)) = 1 - SlotOf(g)
  BY <1>1, <1>2, <1>4 DEF SlotOf
<1>10. (NextGen(g) - g) % Span = 1 /\ (g - PrevGen(g)) % Span = 1
  <2>1. 1 \in 0 .. Span - 1
    OBVIOUS
  <2>2. NextGen(g) - g \in {1, 1 - Span} /\ g - PrevGen(g) \in {1, 1 - Span}
    BY <1>1, <1>4, <1>5
  <2>3. QED
    BY <1>1, <2>1, <2>2
<1>11. (g - NextGen(g)) % Span = Span - 1 /\ (PrevGen(g) - g) % Span = Span - 1
  <2>1. Span - 1 \in 0 .. Span - 1
    OBVIOUS
  <2>2. g - NextGen(g) \in {Span - 1, (Span - 1) - Span} /\ PrevGen(g) - g \in {Span - 1, (Span - 1) - Span}
    BY <1>1, <1>4, <1>5
  <2>3. QED
    BY <1>1, <2>1, <2>2
<1>12. Newer(NextGen(g), g) /\ Newer(g, PrevGen(g))
  BY <1>3, <1>10 DEF Newer
<1>13. ~Newer(g, NextGen(g)) /\ ~Newer(PrevGen(g), g)
  BY <1>2, <1>3, <1>11 DEF Newer
<1>14. QED
  BY <1>6, <1>7, <1>8, <1>9, <1>12, <1>13

\* A boot selects what is in force or what a commit has tried since.
LEMMA SelectedIsKept ==
  ASSUME NvsType, NEW g \in Generation, NEW c \in Configs, Journal(g, c)
  PROVE  \/ /\ Selected = [generation |-> g, config |-> c]
            /\ LET other == records[1 - SlotOf(g)] IN
                 other # NoRecord => other.generation = PrevGen(g) /\ records[SlotOf(g)] # NoRecord
         \/ /\ Selected \in Record /\ Selected.generation = NextGen(g) /\ Selected.config \in tried
            /\ records[1 - SlotOf(g)] = Selected
            /\ records[SlotOf(g)] # NoRecord => records[SlotOf(g)].generation = g
<1> USE NvsAssumption, Generations
<1> DEFINE mine  == records[SlotOf(g)]
           other == records[1 - SlotOf(g)]
<1>1. /\ mine \in Record \cup {NoRecord} /\ other \in Record \cup {NoRecord}
      /\ \/ SlotOf(g) = 0 /\ records[0] = mine /\ records[1] = other
         \/ SlotOf(g) = 1 /\ records[1] = mine /\ records[0] = other
  BY DEF NvsType, Blob
<1>2. NoRecord \notin Record /\ NextGen(g) # PrevGen(g)
  OBVIOUS
<1>3. CASE other = NoRecord /\ mine = NoRecord
  <2>1. Selected = Idle.record
    BY <1>1, <1>3 DEF Selected, Valid
  <2>2. QED
    BY <1>1, <1>2, <1>3, <2>1 DEF Journal, Idle, Record
<1>4. CASE other = NoRecord /\ mine # NoRecord
  <2>1. Selected = mine
    BY <1>1, <1>4 DEF Selected, Valid
  <2>2. QED
    BY <1>1, <1>2, <1>4, <2>1 DEF Journal
<1>5. CASE other # NoRecord /\ mine = NoRecord
  <2>1. Selected = other
    BY <1>1, <1>5 DEF Selected, Valid
  <2>2. QED
    BY <1>1, <1>2, <1>5, <2>1 DEF Journal, Record
<1>6. CASE other # NoRecord /\ mine # NoRecord
  <2>1. mine = [generation |-> g, config |-> c]
    BY <1>6 DEF Journal
  <2>2. CASE other.generation = PrevGen(g)
    <3>1. Selected = mine
      BY <1>1, <1>6, <2>1, <2>2 DEF Selected, Valid
    <3>2. QED
      BY <1>6, <2>1, <2>2, <3>1
  <2>3. CASE other.generation = NextGen(g) /\ other.config \in tried
    <3>1. Selected = other
      BY <1>1, <1>6, <2>1, <2>3 DEF Selected, Valid
    <3>2. QED
      BY <1>1, <1>6, <2>1, <2>3, <3>1
  <2>4. QED
    BY <1>6, <2>2, <2>3 DEF Journal
<1>7. QED
  BY <1>3, <1>4, <1>5, <1>6

\* A load leaves the journal in order, around what it selected.
LEMMA LoadKeeps ==
  ASSUME NvsType, NEW g \in Generation, NEW c \in Configs, Journal(g, c), acked = c,
         Load, records' = records
  PROVE  /\ live' \in {acked} \cup tried /\ live' \in Configs /\ generation' \in Generation
         /\ acked' = live' /\ tried' = {}
         /\ Journal(generation, live)'
<1> USE NvsAssumption, Generations
<1>1. live' = Selected.config /\ generation' = Selected.generation /\ acked' = live' /\ tried' = {}
  BY DEF Load
<1>2. records \in [Blob -> Record \cup {NoRecord}] /\ tried \subseteq Configs
  BY DEF NvsType
<1>3. CASE /\ Selected = [generation |-> g, config |-> c]
           /\ LET other == records[1 - SlotOf(g)] IN
                other # NoRecord => other.generation = PrevGen(g) /\ records[SlotOf(g)] # NoRecord
  <2>1. generation' = g /\ live' = c
    BY <1>1, <1>3
  <2>2. Journal(generation, live)'
    BY <1>3, <2>1 DEF Journal
  <2>3. QED
    BY <1>1, <2>1, <2>2
<1>4. CASE /\ Selected \in Record /\ Selected.generation = NextGen(g) /\ Selected.config \in tried
           /\ records[1 - SlotOf(g)] = Selected
           /\ records[SlotOf(g)] # NoRecord => records[SlotOf(g)].generation = g
  <2>1. generation' = NextGen(g) /\ live' \in tried /\ SlotOf(generation') = 1 - SlotOf(g)
        /\ 1 - SlotOf(generation') = SlotOf(g) /\ PrevGen(generation') = g
    BY <1>1, <1>4
  <2>2. Selected = [generation |-> generation', config |-> live']
    BY <1>1, <1>4 DEF Record
  <2>3. Journal(generation, live)'
    BY <1>4, <2>1, <2>2 DEF Journal
  <2>4. QED
    BY <1>1, <1>2, <2>1, <2>3
<1>5. QED
  BY <1>3, <1>4, SelectedIsKept

\* An empty NVS satisfies the invariant.
LEMMA NvsInitInv == NvsInit => NvsInv
<1> SUFFICES ASSUME NvsInit PROVE NvsInv
  OBVIOUS
<1> USE NvsAssumption
<1>1. 0 \in Generation
  BY DEF Generation
<1>2. NvsType
  BY <1>1 DEF NvsInit, NvsType, Boot, Idle, Record
<1>3. Journal(0, Default)
  BY <1>1, Generations DEF NvsInit, Journal
<1>4. QED
  BY <1>1, <1>2, <1>3 DEF NvsInit, NvsInv, Boot, Idle

\* Every step of the journal keeps the invariant and is one of DurableConfig or an
\* erasure.
LEMMA NvsNextInv ==
  ASSUME NvsInv, [NvsNext]_nvsVars
  PROVE  NvsInv' /\ ([Durable!Next \/ Erased]_<<live, acked, tried>>)
<1> USE NvsAssumption, Generations
<1> DEFINE Rest ==
      /\ commit.at \in {"write", "verify"} =>
           /\ commit.record.generation = NextGen(generation)
           /\ commit.record.config \in tried
      /\ commit.at = "verify" => records[SlotOf(commit.record.generation)] = commit.record
    Kept == Durable!Next \/ Erased \/ UNCHANGED <<live, acked, tried>>
    CommitType == [at : {"boot", "idle", "asked", "write", "verify", "reload", "again"}, record : Record]
<1>1. NvsType /\ Rest /\ acked \in Configs /\ live \in Configs /\ generation \in Generation /\ tried \subseteq Configs
      /\ commit \in CommitType
  BY DEF NvsInv, NvsType
<1>2. commit.at # "boot" => live = acked /\ Journal(generation, live)
  BY DEF NvsInv
<1>3. PICK g \in Generation : Journal(g, acked) /\ (commit.at # "boot" => g = generation)
  BY <1>1, <1>2 DEF NvsInv
<1>4. Idle \in CommitType /\ Boot \in CommitType /\ Idle.at = "idle" /\ Boot.at = "boot"
  BY <1>1 DEF Idle, Boot, Record, Generation
<1>5. SUFFICES NvsInv' /\ Kept
  OBVIOUS
<1>6. ASSUME records' = records, acked' = acked, tried \subseteq tried', NEW h \in Generation, NEW c, Journal(h, c)
      PROVE  Journal(h, c)'
  BY <1>6 DEF Journal
<1>7. CASE BootLoad
  <2>1. records' = records /\ Load
    BY <1>7 DEF BootLoad
  <2>2. /\ live' \in {acked} \cup tried /\ live' \in Configs /\ generation' \in Generation
        /\ acked' = live' /\ tried' = {}
        /\ Journal(generation, live)'
    BY <1>1, <1>3, <2>1, LoadKeeps
  <2>3. commit' = Idle /\ edit' = live'
    BY <1>7 DEF BootLoad, Load
  <2>4. NvsType'
    BY <1>1, <1>4, <2>1, <2>2, <2>3 DEF NvsType
  <2>5. Durable!Next
    BY <2>2 DEF Durable!Next, Durable!Load
  <2>6. QED
    BY <1>4, <2>2, <2>3, <2>4, <2>5 DEF NvsInv
<1>8. CASE EraseNvs
  <2>1. 0 \in Generation
    BY DEF Generation
  <2>2. Journal(0, acked)'
    BY <1>8, <2>1 DEF EraseNvs, Journal
  <2>3. NvsType'
    BY <1>1, <1>8 DEF EraseNvs, NvsType
  <2>4. Erased
    BY <1>8 DEF EraseNvs, Erased
  <2>5. QED
    BY <1>8, <2>1, <2>2, <2>3, <2>4 DEF EraseNvs, NvsInv
<1>9. CASE ResetConfig
  <2>1. Journal(g, acked)'
    BY <1>3, <1>6, <1>9 DEF ResetConfig
  <2>2. NvsType'
    BY <1>1, <1>4, <1>9 DEF ResetConfig, NvsType, Generation
  <2>3. Durable!Next
    BY <1>9 DEF ResetConfig, Durable!Next, Durable!Crash
  <2>4. QED
    BY <1>4, <1>9, <2>1, <2>2, <2>3 DEF ResetConfig, NvsInv
<1>10. CASE Ask \/ LedTick
  <2>1. /\ commit' \in CommitType /\ edit' \in Configs
        /\ commit'.at = commit.at \/ (commit.at = "idle" /\ commit'.at = "asked")
        /\ commit'.record = commit.record
    BY <1>1, <1>10 DEF Ask, LedTick
  <2>2. UNCHANGED <<records, live, generation, acked, tried>>
    BY <1>10 DEF Ask, LedTick
  <2>3. commit.at # "boot"
    BY <1>10 DEF Ask, LedTick
  <2>4. Journal(generation, live)'
    BY <1>1, <1>2, <2>2, <2>3 DEF Journal
  <2>5. QED
    BY <1>1, <1>2, <2>1, <2>2, <2>3, <2>4 DEF NvsInv, NvsType
<1>11. CASE CommitConfig
  <2>1. commit.at # "boot" /\ UNCHANGED <<records, live, generation, edit, acked>>
    BY <1>11 DEF CommitConfig
  <2>2. PICK config \in Configs :
          \/ /\ commit' = [at |-> "write", record |-> [generation |-> NextGen(generation), config |-> config]]
             /\ tried' = tried \cup {config}
          \/ commit' = Idle /\ tried' = tried
    BY <1>1, <1>11 DEF CommitConfig, NvsType, NextGen
  <2>3. Journal(generation, live)'
    BY <1>1, <1>2, <2>1, <2>2 DEF Journal
  <2>4. commit' \in CommitType /\ tried' \subseteq Configs /\ commit'.at # "boot"
    BY <1>1, <1>4, <2>2 DEF Record
  <2>5. NvsType'
    BY <1>1, <2>1, <2>4 DEF NvsType
  <2>6. Rest'
    BY <1>4, <2>1, <2>2
  <2>7. Kept
    BY <2>1, <2>2 DEF Durable!Next, Durable!Try
  <2>8. QED
    BY <1>2, <2>1, <2>3, <2>4, <2>5, <2>6, <2>7 DEF NvsInv
<1>12. CASE WriteRecord
  <2>1. /\ commit.at = "write" /\ UNCHANGED <<live, generation, edit, acked, tried>>
        /\ SlotOf(commit.record.generation) = 1 - SlotOf(generation)
        /\ commit.record.generation = NextGen(generation) /\ commit.record.config \in tried
        /\ commit.record \in Record
    BY <1>1, <1>12 DEF WriteRecord
  <2>2. /\ records' = [records EXCEPT ![1 - SlotOf(generation)] = commit.record] \/ records' = records
        /\ \/ commit' = Idle
           \/ /\ commit' = [commit EXCEPT !.at = "verify"]
              /\ records' = [records EXCEPT ![1 - SlotOf(generation)] = commit.record]
    BY <1>12, <2>1 DEF WriteRecord
  <2>3. records \in [Blob -> Record \cup {NoRecord}]
    BY <1>1 DEF NvsType
  <2>4. Journal(generation, live)'
    BY <1>1, <1>2, <2>1, <2>2, <2>3 DEF Journal
  <2>5. commit' \in CommitType /\ commit'.at \in {"idle", "verify"}
        /\ (commit'.at = "verify" => commit'.record = commit.record
              /\ records'[1 - SlotOf(generation)] = commit.record)
    BY <1>1, <1>4, <2>1, <2>2, <2>3
  <2>6. NvsType'
    BY <1>1, <2>1, <2>2, <2>3, <2>5 DEF NvsType
  <2>7. Rest'
    BY <1>1, <2>1, <2>5
  <2>8. QED
    BY <1>2, <2>1, <2>4, <2>5, <2>6, <2>7 DEF NvsInv
<1>13. CASE VerifyRecord
  <2>1. commit.at = "verify" /\ commit' = Idle /\ records' = records /\ edit' = edit
    BY <1>13 DEF VerifyRecord
  <2>2. /\ commit.record = [generation |-> NextGen(generation), config |-> commit.record.config]
        /\ records[1 - SlotOf(generation)] = commit.record
        /\ commit.record.config \in tried /\ commit.record.config \in Configs
    BY <1>1, <2>1 DEF Record
  <2>3. CASE UNCHANGED <<live, generation, acked, tried>>
    <3>1. Journal(generation, live)'
      BY <1>1, <1>2, <2>1, <2>3 DEF Journal
    <3>2. NvsType'
      BY <1>1, <1>4, <2>1, <2>3 DEF NvsType
    <3>3. QED
      BY <1>2, <1>4, <2>1, <2>3, <3>1, <3>2 DEF NvsInv
  <2>4. CASE /\ live' = commit.record.config /\ generation' = commit.record.generation
             /\ acked' = commit.record.config /\ tried' = {}
    <3>1. /\ generation' = NextGen(generation) /\ SlotOf(generation') = 1 - SlotOf(generation)
          /\ 1 - SlotOf(generation') = SlotOf(generation) /\ PrevGen(generation') = generation
      BY <1>1, <2>1, <2>4
    <3>2. Journal(generation, live)'
      BY <1>1, <1>2, <2>1, <2>2, <2>4, <3>1 DEF Journal
    <3>3. NvsType'
      BY <1>1, <1>4, <2>1, <2>2, <2>4, <3>1 DEF NvsType
    <3>4. Durable!Next
      BY <2>2, <2>4 DEF Durable!Next, Durable!Commit
    <3>5. QED
      BY <1>4, <2>1, <2>4, <3>2, <3>3, <3>4 DEF NvsInv
  <2>5. QED
    BY <1>13, <2>3, <2>4 DEF VerifyRecord
<1>14. CASE CorruptNext
  <2>1. /\ commit.at = "idle" /\ UNCHANGED <<live, generation, edit, acked, tried>>
        /\ SlotOf((generation + 1) % Span) = 1 - SlotOf(generation)
    BY <1>1, <1>14 DEF CorruptNext, NextGen
  <2>2. /\ records' = [records EXCEPT ![1 - SlotOf(generation)] = NoRecord] \/ records' = records
        /\ commit' \in {commit, [commit EXCEPT !.at = "reload"], Idle}
    BY <1>14, <2>1 DEF CorruptNext
  <2>3. records \in [Blob -> Record \cup {NoRecord}]
    BY <1>1 DEF NvsType
  <2>4. Journal(generation, live)'
    BY <1>1, <1>2, <2>1, <2>2, <2>3 DEF Journal
  <2>5. commit' \in CommitType /\ commit'.at \in {"idle", "reload"}
    BY <1>1, <1>4, <2>1, <2>2
  <2>6. NvsType'
    BY <1>1, <2>1, <2>2, <2>3, <2>5 DEF NvsType
  <2>7. QED
    BY <1>2, <2>1, <2>4, <2>5, <2>6 DEF NvsInv
<1>15. CASE ReloadConfig
  <2>1. commit.at = "reload" /\ records' = records /\ edit' = edit
    BY <1>15 DEF ReloadConfig
  <2>2. commit' \in CommitType /\ commit'.at \in {"idle", "again"}
    BY <1>1, <1>4, <1>15 DEF ReloadConfig
  <2>3. CASE Load
    <3>1. /\ live' \in {acked} \cup tried /\ live' \in Configs /\ generation' \in Generation
          /\ acked' = live' /\ tried' = {}
          /\ Journal(generation, live)'
      BY <1>1, <1>3, <2>1, <2>3, LoadKeeps
    <3>2. NvsType'
      BY <1>1, <2>1, <2>2, <3>1 DEF NvsType
    <3>3. Durable!Next
      BY <3>1 DEF Durable!Next, Durable!Load
    <3>4. QED
      BY <2>2, <3>1, <3>2, <3>3 DEF NvsInv
  <2>4. CASE UNCHANGED <<live, generation, acked, tried>>
    <3>1. Journal(generation, live)'
      BY <1>1, <1>2, <2>1, <2>4 DEF Journal
    <3>2. NvsType'
      BY <1>1, <2>1, <2>2, <2>4 DEF NvsType
    <3>3. QED
      BY <1>2, <2>1, <2>2, <2>4, <3>1, <3>2 DEF NvsInv
  <2>5. QED
    BY <1>15, <2>3, <2>4 DEF ReloadConfig
<1>16. CASE UNCHANGED nvsVars
  BY <1>16 DEF nvsVars, NvsInv, NvsType, Journal
<1>17. QED
  BY <1>7, <1>8, <1>9, <1>10, <1>11, <1>12, <1>13, <1>14, <1>15, <1>16 DEF NvsNext

-----------------------------------------------------------------------------
(* Remote updates.                                                         *)

\* A trial is one of the running partition, with a whole one to fall back to;
\* what otadata selects has not been given up.
TrialInv ==
  /\ \A p \in Part : otastate[p] = "PENDING" => p = running
  /\ otastate[running] \notin {"NEW", "ABORTED"}
  /\ otastate[boot] # "ABORTED"
  /\ otastate[running] = "PENDING" =>
       /\ boot = running
       /\ otastate[Target] \in {"UNDEFINED", "VALID"}

\* A partition that otadata may select, or that runs, holds what it was selected
\* for unless an update spoilt it.
Genuine(p) == p \in spoilt \/ image[p] = chosen[p]

GenuineInv ==
  /\ Genuine(boot) /\ Genuine(running)
  /\ otastate[running] = "PENDING" => Genuine(Target)

\* What an operation under way has checked still holds in each of its steps: it is
\* signed and above the running release and the sequence on record, written before
\* it is recorded and recorded before it is selected.
JobInv ==
  job.at # "idle" =>
    /\ otastate[running] # "PENDING"
    /\ boot = Target => Target \in spoilt
    /\ job.kind = "update" =>
         /\ job.manifest.signed
         /\ job.manifest.sequence > seen /\ job.manifest.sequence > image[running]
         /\ job.manifest.sequence >= highest
         /\ job.at \in {"persist", "select"} => image[Target] = job.manifest.digest
         /\ job.at = "select" => highest = job.manifest.sequence
    /\ job.at = "select" /\ job.kind # "update" => image[Target] = image[running]

\* The inductive invariant of the update path.
OtaInv == 
  /\ OtaType
  /\ seen <= highest
  /\ TrialInv
  /\ AlwaysBootable
  /\ GenuineInv
  /\ JobInv

\* The greater of two numbers.
LEMMA MaxOfTwo ==
  ASSUME NEW a \in Int, NEW b \in Int
  PROVE  Max({a, b}) \in {a, b} /\ Max({a, b}) >= a /\ Max({a, b}) >= b
<1>1. \E x \in {a, b} : \A y \in {a, b} : x >= y
  <2>1. CASE a >= b
    BY <2>1
  <2>2. CASE b >= a
    BY <2>2
  <2>3. QED
    BY <2>1, <2>2
<1>2. QED
  BY <1>1 DEF Max

\* There are two partitions.
LEMMA OtherPart == \A p \in Part : 1 - p \in Part /\ 1 - p # p /\ 1 - (1 - p) = p /\ Part = {p, 1 - p}
BY DEF Part

\* A board that was just flashed satisfies the invariant.
LEMMA OtaInitInv == OtaInit => OtaInv
<1> SUFFICES ASSUME OtaInit PROVE OtaInv
  OBVIOUS
<1> USE RemoteOtaAssumption
<1>1. PICK r \in ReleaseNo : image = [p \in Part |-> IF p = 0 THEN r ELSE Broken]
  BY DEF OtaInit
<1>2. r \in 0 .. MaxRelease /\ 0 \in 0 .. MaxRelease
  BY DEF ReleaseNo
<1>3. OtaType
  BY <1>1, <1>2 DEF OtaInit, OtaType, Part, ReleaseNo, OtaStates, NoJob
<1>4. TrialInv /\ AlwaysBootable /\ GenuineInv /\ JobInv /\ seen <= highest
  BY <1>1, <1>2 DEF OtaInit, TrialInv, AlwaysBootable, GenuineInv, Genuine, JobInv, Part, ReleaseNo, NoJob
<1>5. QED
  BY <1>3, <1>4 DEF OtaInv

\* The types of what the operations of an update read.
LEMMA OtaTyped ==
  ASSUME OtaInv
  PROVE  /\ image[running] \in ReleaseNo /\ Broken \notin ReleaseNo
         /\ HighestSequence \in Int /\ HighestSequence >= highest /\ HighestSequence >= image[running]
         /\ running \in Part /\ boot \in Part
         /\ Target \in Part /\ Target # running /\ 1 - running = Target /\ 1 - Target = running
         /\ \A p \in Part : p = running \/ p = Target
<1> USE RemoteOtaAssumption
<1>1. image[running] \in ReleaseNo /\ highest \in ReleaseNo /\ running \in Part /\ boot \in Part
  BY DEF OtaInv, OtaType, AlwaysBootable
<1>2. image[running] \in Int /\ highest \in Int
  BY <1>1 DEF ReleaseNo
<1>3. HighestSequence \in Int /\ HighestSequence >= highest /\ HighestSequence >= image[running]
  BY <1>2, MaxOfTwo DEF HighestSequence
<1>4. /\ Target \in Part /\ Target # running /\ 1 - running = Target /\ 1 - Target = running
      /\ \A p \in Part : p = running \/ p = Target
  BY <1>1 DEF Target, Part
<1>5. QED
  BY <1>1, <1>3, <1>4

\* The types of the update path are kept.
LEMMA OtaTypeNext == OtaInv /\ [OtaNext]_otaVars => OtaType'
<1> SUFFICES ASSUME OtaInv, [OtaNext]_otaVars PROVE OtaType'
  OBVIOUS
<1> USE RemoteOtaAssumption, OtaTyped
<1>1. OtaType
  BY DEF OtaInv
<1>2. ASSUME NEW m \in Manifest, job' = [at |-> "write", kind |-> "update", manifest |-> m], OtaBegin
      PROVE  OtaType'
  BY <1>1, <1>2 DEF OtaBegin, OtaType, Steps
<1>3. CASE CopyRunning
  BY <1>1, <1>3 DEF CopyRunning, OtaBegin, OtaType, Steps
<1>4. CASE WriteFails
  BY <1>1, <1>4 DEF WriteFails, OtaType
<1>5. CASE Write
  <2>1. CASE job.kind = "update"
    <3>1. job.manifest \in Manifest /\ job.at = "write" /\ [job EXCEPT !.at = "persist"] \in Steps
      BY <1>1, <1>5, <2>1 DEF Write, OtaType, Steps, NoJob
    <3>2. job.manifest.digest \in ReleaseNo
      BY <3>1 DEF Manifest
    <3>3. QED
      BY <1>1, <1>5, <2>1, <3>1, <3>2 DEF Write, OtaType
  <2>2. CASE job.kind = "self"
    <3>1. [job EXCEPT !.at = "select"] \in Steps
      BY <1>1, <1>5, <2>2 DEF Write, OtaType, Steps, NoJob
    <3>2. QED
      BY <1>1, <1>5, <2>2, <3>1 DEF Write, OtaType
  <2>3. QED
    BY <1>5, <2>1, <2>2 DEF Write
<1>6. CASE Persist
  <2>1. job.manifest \in Manifest /\ [job EXCEPT !.at = "select"] \in Steps
    BY <1>1, <1>6 DEF Persist, OtaType, Steps, NoJob
  <2>2. job.manifest.sequence \in ReleaseNo
    BY <2>1 DEF Manifest
  <2>3. QED
    BY <1>1, <1>6, <2>1, <2>2 DEF Persist, OtaType
<1>7. CASE Select
  <2>1. job.kind = "update" => job.manifest.sequence \in ReleaseNo
    BY <1>1, <1>7 DEF Select, OtaType, Steps, NoJob, Manifest
  <2>2. job.kind = "update" => Max({seen, job.manifest.sequence}) \in ReleaseNo
    <3>1. ASSUME NEW a \in ReleaseNo, NEW b \in ReleaseNo PROVE Max({a, b}) \in ReleaseNo
      <4>1. a \in Int /\ b \in Int
        BY DEF ReleaseNo
      <4>2. QED
        BY <4>1, MaxOfTwo
    <3>2. QED
      BY <1>1, <2>1, <3>1 DEF OtaType
  <2>3. QED
    BY <1>1, <1>7, <2>1, <2>2, OtaTyped DEF Select, OtaType, OtaStates
<1>8. CASE Confirm
  BY <1>1, <1>8 DEF Confirm, OtaType, OtaStates
<1>9. CASE Restart
  <2>1. 0 \in ReleaseNo
    BY DEF ReleaseNo
  <2>2. QED
    BY <1>1, <1>9, <2>1 DEF Restart, OtaType, OtaStates, Part
<1>10. CASE UNCHANGED otaVars
  BY <1>1, <1>10 DEF otaVars, OtaType
<1>11. QED
  BY <1>2, <1>3, <1>4, <1>5, <1>6, <1>7, <1>8, <1>9, <1>10 DEF OtaNext, Update

\* Every step of the update path keeps the invariant.
LEMMA OtaNextInv == OtaInv /\ [OtaNext]_otaVars => OtaInv'
<1> SUFFICES ASSUME OtaInv, [OtaNext]_otaVars PROVE OtaInv'
  OBVIOUS
<1> USE RemoteOtaAssumption, OtaTyped
<1> DEFINE Rest == seen <= highest /\ TrialInv /\ AlwaysBootable /\ GenuineInv /\ JobInv
<1>1. OtaType /\ Rest /\ OtaType'
  BY OtaTypeNext DEF OtaInv
<1>2. seen \in Int /\ highest \in Int /\ image[running] \in Int /\ 0 \in ReleaseNo
  BY <1>1 DEF OtaType, ReleaseNo
<1>3. job.kind = "update" /\ job.at # "idle" =>
        job.manifest.sequence \in Int /\ job.manifest.digest \in ReleaseNo
          /\ (job.manifest.signed => job.manifest.digest = job.manifest.sequence)
  BY <1>1 DEF OtaType, Steps, NoJob, Manifest, ReleaseNo
<1>4. running' = running => Target' = Target
  BY DEF Target
<1> SUFFICES Rest'
  BY <1>1 DEF OtaInv
<1>5. ASSUME NEW m \in Manifest, Accepted(m), OtaBegin,
             job' = [at |-> "write", kind |-> "update", manifest |-> m]
      PROVE  Rest'
  <2>0. m.sequence \in Int /\ m.sequence > HighestSequence /\ m.signed
    BY <1>5 DEF Accepted, ManifestValidate, Manifest, ReleaseNo
  <2>1. TrialInv' /\ AlwaysBootable'
    BY <1>1, <1>4, <1>5 DEF OtaBegin, OtaType, TrialInv, AlwaysBootable, JobInv
  <2>2. GenuineInv'
    BY <1>1, <1>4, <1>5, <2>0 DEF OtaBegin, OtaType, TrialInv, GenuineInv, Genuine, AlwaysBootable, JobInv
  <2>3. /\ m.sequence > seen /\ m.sequence > image[running] /\ m.sequence >= highest
        /\ image'[running] = image[running] /\ running' = running /\ seen' = seen /\ highest' = highest
        /\ otastate'[running'] # "PENDING"
    BY <1>1, <1>2, <1>5, <2>0 DEF OtaBegin, OtaType
  <2>4. (boot = Target => Target \in spoilt)'
    BY <1>4, <1>5 DEF OtaBegin
  <2>5. job'.kind = "update" /\ job'.at = "write" /\ job'.manifest = m
    BY <1>5
  <2>6. JobInv' /\ (seen <= highest)'
    BY <1>1, <2>0, <2>3, <2>4, <2>5 DEF JobInv
  <2>7. QED
    BY <2>1, <2>2, <2>6
<1>6. CASE CopyRunning
  <2>1. TrialInv' /\ AlwaysBootable'
    BY <1>1, <1>4, <1>6 DEF CopyRunning, OtaBegin, OtaType, TrialInv, AlwaysBootable, JobInv
  <2>2. GenuineInv'
    BY <1>1, <1>4, <1>6 DEF CopyRunning, OtaBegin, OtaType, TrialInv, GenuineInv, Genuine, AlwaysBootable, JobInv
  <2>3. JobInv' /\ (seen <= highest)'
    <3>1. otastate'[running'] # "PENDING" BY <1>6 DEF CopyRunning, OtaBegin
    <3>2. (boot = Target => Target \in spoilt)' BY <1>4, <1>6 DEF CopyRunning, OtaBegin
    <3>3. job'.kind # "update" /\ job'.at = "write" BY <1>6 DEF CopyRunning
    <3>4. (seen <= highest)' BY <1>1,<1>6 DEF CopyRunning, OtaBegin
    <3>5. JobInv' BY <3>1,<3>2,<3>3 DEF JobInv
    <3>6. QED BY <3>4,<3>5
  <2>4. QED
    BY <2>1, <2>2, <2>3
<1>7. CASE WriteFails
  <2>1. TrialInv' /\ AlwaysBootable'
    BY <1>1, <1>4, <1>7 DEF WriteFails, NoJob, OtaType, TrialInv, AlwaysBootable, JobInv
  <2>2. GenuineInv'
    BY <1>1, <1>4, <1>7 DEF WriteFails, NoJob, OtaType, TrialInv, GenuineInv, Genuine, AlwaysBootable, JobInv
  <2>3. JobInv' /\ (seen <= highest)'
    BY <1>1, <1>2, <1>3, <1>4, <1>7 DEF WriteFails, NoJob, OtaType, JobInv
  <2>4. QED
    BY <2>1, <2>2, <2>3
<1>8. CASE Write
  <2>0. job'.at \in {"persist", "select"} /\ job'.kind = job.kind
        /\ (job.kind = "update" => job'.at = "persist" /\ job'.manifest = job.manifest)
    BY <1>1, <1>8 DEF Write, OtaType, Steps, NoJob
  <2>1. TrialInv' /\ AlwaysBootable'
    BY <1>1, <1>4, <1>8 DEF Write, OtaType, TrialInv, AlwaysBootable, JobInv
  <2>2. GenuineInv'
    BY <1>1, <1>4, <1>8, <2>0 DEF Write, OtaType, TrialInv, GenuineInv, Genuine, AlwaysBootable, JobInv
  <2>3. JobInv' /\ (seen <= highest)'
    BY <1>1, <1>2, <1>3, <1>4, <1>8, <2>0 DEF Write, OtaType, JobInv
  <2>4. QED
    BY <2>1, <2>2, <2>3
<1>9. CASE Persist
  <2>0. job.kind = "update" /\ job' \in {NoJob, [at |-> "select", kind |-> "update", manifest |-> job.manifest]}
    BY <1>1, <1>9 DEF Persist, OtaType, Steps, NoJob
  <2>1. TrialInv' /\ AlwaysBootable'
    BY <1>1, <1>4, <1>9 DEF Persist, NoJob, OtaType, TrialInv, AlwaysBootable, JobInv
  <2>2. GenuineInv'
    BY <1>1, <1>4, <1>9, <2>0 DEF Persist, NoJob, OtaType, TrialInv, GenuineInv, Genuine, AlwaysBootable, JobInv
  <2>3. JobInv' /\ (seen <= highest)'
    BY <1>1, <1>2, <1>3, <1>4, <1>9, <2>0 DEF Persist, NoJob, OtaType, JobInv
  <2>4. QED
    BY <2>1, <2>2, <2>3
<1>10. CASE Select
  <2>1. TrialInv' /\ AlwaysBootable'
    BY <1>1, <1>4, <1>10 DEF Select, NoJob, OtaStates, OtaType, TrialInv, AlwaysBootable, JobInv
  <2>2. JobInv'
    BY <1>10 DEF Select, JobInv, NoJob
  <2>3. image[Target] = IF job.kind = "update" THEN job.manifest.sequence ELSE image[running]
    BY <1>1, <1>3, <1>10 DEF Select, JobInv
  <2>4. /\ running' = running /\ image' = image /\ Target' = Target /\ highest' = highest
        /\ otastate'[running] # "PENDING"
    BY <1>1, <1>4, <1>10 DEF Select, JobInv, OtaType
  <2>5. chosen'[running] = chosen[running] /\ (running \in spoilt => running \in spoilt')
    BY <1>1, <1>10 DEF Select, OtaType
  <2>6. \/ boot' = Target /\ chosen'[Target] = image[Target]
        \/ boot' = boot /\ chosen' = chosen /\ spoilt' = spoilt
    BY <1>1, <1>10, <2>3 DEF Select, OtaType
  <2>7. GenuineInv'
    BY <1>1, <2>4, <2>5, <2>6 DEF GenuineInv, Genuine
  <2>8. seen' <= highest'
    <3>1. job.kind = "update" => job.manifest.sequence = highest /\ job.manifest.sequence \in Int
      BY <1>1, <1>3, <1>10 DEF Select, JobInv
    <3>2. seen' = seen \/ (job.kind = "update" /\ seen' = Max({seen, job.manifest.sequence}))
      BY <1>10 DEF Select
    <3>3. job.kind = "update" => Max({seen, job.manifest.sequence}) \in {seen, job.manifest.sequence}
      BY <1>2, <3>1, MaxOfTwo
    <3>4. QED
      BY <1>1, <1>2, <2>4, <3>1, <3>2, <3>3
  <2>9. QED
    BY <2>1, <2>2, <2>7, <2>8
<1>11. CASE Confirm
  <2>1. TrialInv' /\ AlwaysBootable'
    BY <1>1, <1>4, <1>11 DEF Confirm, OtaType, TrialInv, AlwaysBootable, JobInv
  <2>2. GenuineInv'
    BY <1>1, <1>4, <1>11 DEF Confirm, OtaType, TrialInv, GenuineInv, Genuine, AlwaysBootable, JobInv
  <2>3. JobInv' /\ (seen <= highest)'
    BY <1>1, <1>2, <1>3, <1>4, <1>11 DEF Confirm, OtaType, JobInv
  <2>4. QED
    BY <2>1, <2>2, <2>3
<1>12. ASSUME Restart PROVE Rest'
  <2> DEFINE aborted  == [p \in Part |-> IF otastate[p] = "PENDING" THEN "ABORTED" ELSE otastate[p]]
             selected == IF aborted[boot] = "ABORTED" THEN 1 - boot ELSE boot
             booted   == IF image[selected] = Broken THEN 1 - selected ELSE selected
  <2>1. /\ image[booted] # Broken /\ boot' = selected /\ running' = booted
        /\ otastate' = [p \in Part |-> IF p = booted /\ aborted[p] = "NEW" THEN "PENDING" ELSE aborted[p]]
        /\ image' = image /\ chosen' = chosen /\ spoilt' = spoilt /\ job' = NoJob
        /\ seen' <= highest'
    BY <1>1, <1>2, <1>12 DEF Restart
  <2>2. \A p \in Part : otastate'[p] = IF p = booted /\ aborted[p] = "NEW" THEN "PENDING" ELSE aborted[p]
    BY <2>1
  <2>3. JobInv'
    BY <2>1 DEF JobInv, NoJob
  <2>4. CASE otastate[running] = "PENDING"
    <3>1. /\ boot = running /\ otastate[Target] \in {"UNDEFINED", "VALID"} /\ image[Target] # Broken
          /\ Genuine(Target)
      BY <1>1, <2>4 DEF TrialInv, AlwaysBootable, GenuineInv
    <3>2. boot' = Target /\ running' = Target
      BY <2>1, <2>4, <3>1
    <3>3. otastate'[running] = "ABORTED" /\ otastate'[Target] = otastate[Target]
      BY <2>2, <2>4, <3>1
    <3>4. TrialInv' /\ AlwaysBootable' /\ GenuineInv'
      BY <2>1, <3>1, <3>2, <3>3 DEF TrialInv, AlwaysBootable, GenuineInv, Genuine
    <3>5. QED
      BY <2>1, <2>3, <3>4
  <2>5. CASE otastate[running] # "PENDING"
    <3>1. \A p \in Part : aborted[p] = otastate[p] /\ otastate[p] # "PENDING"
      BY <1>1, <2>5 DEF TrialInv
    <3>2. boot' = boot /\ running' \in {boot, running}
      BY <1>1, <2>1, <3>1 DEF TrialInv, AlwaysBootable
    <3>3. \A p \in Part : otastate'[p] = IF p = running' /\ otastate[p] = "NEW" THEN "PENDING" ELSE otastate[p]
      BY <2>1, <2>2, <3>1
    <3>4. running' \in Part /\ 1 - running' \in Part /\ Target' = 1 - running' /\ Target' # running'
          /\ \A p \in Part : p = running' \/ p = Target'
      BY <1>1, <3>2 DEF Target, OtaType, Part
    <3>5. otastate'[running'] = "PENDING" => running' = boot /\ running' = Target /\ Target' = running
      BY <1>1, <3>1, <3>2, <3>3, <3>4 DEF TrialInv
    <3>11. /\ \A p \in Part : otastate[p] \in OtaStates
          /\ otastate[running] \notin {"NEW", "ABORTED"} /\ otastate[boot] # "ABORTED"
          /\ boot \in Part /\ running \in Part
      BY <1>1 DEF TrialInv, OtaType
    <3>12. TrialInv'
      BY <3>1, <3>2, <3>3, <3>4, <3>5, <3>11 DEF TrialInv, OtaStates
    <3>13. image'[running'] # Broken /\ (otastate'[running'] = "PENDING" => image'[1 - running'] # Broken)
      BY <1>1, <2>1, <3>2, <3>4, <3>5 DEF AlwaysBootable
    <3>6. TrialInv' /\ AlwaysBootable'
      BY <3>11, <3>12, <3>13, <3>2, <3>3, <3>4 DEF TrialInv, AlwaysBootable
    <3>7. GenuineInv'
      BY <1>1, <2>1, <3>2, <3>5 DEF GenuineInv, Genuine
    <3>8. QED
      BY <2>1, <2>3, <3>6, <3>7
  <2>6. QED
    BY <2>4, <2>5
<1>13. CASE UNCHANGED otaVars
  <2>1. TrialInv' /\ AlwaysBootable'
    BY <1>1, <1>4, <1>13 DEF otaVars, OtaType, TrialInv, AlwaysBootable, JobInv
  <2>2. GenuineInv'
    BY <1>1, <1>4, <1>13 DEF otaVars, OtaType, TrialInv, GenuineInv, Genuine, AlwaysBootable, JobInv
  <2>3. JobInv' /\ (seen <= highest)'
    BY <1>1, <1>2, <1>3, <1>4, <1>13 DEF otaVars, OtaType, JobInv
  <2>4. QED
    BY <2>1, <2>2, <2>3
<1>14. QED
  BY <1>5, <1>6, <1>7, <1>8, <1>9, <1>10, <1>11, <1>12, <1>13 DEF OtaNext, Update

\* What the invariant says of the partitions and of an update about to be selected.
LEMMA OtaInvImplies ==
  ASSUME OtaInv
  PROVE  /\ AlwaysBootable /\ SelectedIsVerified
         /\ Select /\ job.kind = "update" => job.manifest.sequence > Max({seen, image[running]})
<1> USE RemoteOtaAssumption
<1>1. AlwaysBootable /\ SelectedIsVerified
  BY DEF OtaInv, GenuineInv, Genuine, SelectedIsVerified
<1>2. ASSUME Select, job.kind = "update" PROVE job.manifest.sequence > Max({seen, image[running]})
  <2>1. seen \in Int /\ image[running] \in Int
    BY OtaTyped DEF OtaInv, OtaType, ReleaseNo
  <2>2. job.manifest.sequence > seen /\ job.manifest.sequence > image[running]
    BY <1>2 DEF OtaInv, JobInv, Select
  <2>3. QED
    BY <2>1, <2>2, MaxOfTwo
<1>3. QED
  BY <1>1, <1>2

-----------------------------------------------------------------------------
(* The download of an image.                                               *)

\* The inductive invariant of a download: where it is, what of the response was
\* accepted and how much came.
HttpInv ==
  /\ DownloadType
  /\ http.redirects <= MaxRedirects
  /\ wire.url # "elsewhere"
  /\ http.location_allowed => wire.location # "elsewhere"
  /\ wire.chunked => http.transfer_encoding_seen
  /\ http.received = wire.data
  /\ wire.phase \in {"ready", "headers"} => http.received = 0
  /\ wire.phase = "headers" => ~http.headers_accepted
  /\ wire.phase = "body" =>
       IF http.status = 200 THEN LengthAccepted ELSE http.received = 0 /\ ~http.headers_accepted
  /\ AcceptedIsExact

\* A context and a response by their fields.
Context(expected, received, redirects, failed, status, accepted, allowed, location, length, encoding) ==
  [expected_length |-> expected, received |-> received, redirects |-> redirects,
   failed |-> failed, status |-> status, headers_accepted |-> accepted,
   location_allowed |-> allowed, location_seen |-> location,
   content_length_seen |-> length, transfer_encoding_seen |-> encoding]
Response(phase, length, chunked, data, location, url) ==
  [phase |-> phase, length |-> length, chunked |-> chunked, data |-> data,
   location |-> location, url |-> url]
Phases == {"ready", "headers", "body", "accepted", "refused"}

\* The types of the fields of the context and of the response.
LEMMA HttpTyped ==
  ASSUME DownloadType
  PROVE  /\ http.expected_length \in ExpectedSizes /\ http.received \in 0 .. Limit
         /\ http.redirects \in 0 .. MaxRedirects + 1 /\ http.failed \in BOOLEAN
         /\ http.status \in {0, 200, 302, 404} /\ http.headers_accepted \in BOOLEAN
         /\ http.location_allowed \in BOOLEAN /\ http.location_seen \in BOOLEAN
         /\ http.content_length_seen \in BOOLEAN /\ http.transfer_encoding_seen \in BOOLEAN
         /\ wire.phase \in Phases /\ wire.length \in 0 .. Limit + 1 /\ wire.chunked \in BOOLEAN
         /\ wire.data \in 0 .. Limit + 1 /\ wire.location \in Urls /\ wire.url \in Urls
         /\ 0 \in 0 .. Limit /\ 0 \in 0 .. Limit + 1 /\ 0 \in 0 .. MaxRedirects + 1
BY DownloadAssumption DEF DownloadType, Contexts, Responses, Phases

\* A client that was just made satisfies the invariant.
LEMMA HttpInitInv == DownloadInit => HttpInv
<1> SUFFICES ASSUME DownloadInit PROVE HttpInv
  OBVIOUS
<1>1. DownloadType
  BY DownloadAssumption DEF DownloadInit, NewContexts, NewWire, DownloadType, Contexts, Responses, Urls
<1>2. QED
  BY <1>1, DownloadAssumption DEF DownloadInit, NewContexts, NewWire, HttpInv, AcceptedIsExact

\* Every step of a download keeps the invariant.
LEMMA HttpNextInv == HttpInv /\ [DownloadNext]_httpVars => HttpInv'
<1> SUFFICES ASSUME HttpInv, [DownloadNext]_httpVars PROVE HttpInv'
  OBVIOUS
<1> USE DownloadAssumption
<1>1. DownloadType
  BY DEF HttpInv
<1> USE HttpTyped
<1>2. CASE Refused
  <2>1. http' = Context(http.expected_length, http.received, http.redirects, TRUE,
                       http.status, http.headers_accepted, http.location_allowed,
                       http.location_seen, http.content_length_seen, http.transfer_encoding_seen)
    BY <1>1, <1>2 DEF Refused, DownloadType, Contexts, Context
  <2>2. wire' = Response("refused", wire.length, wire.chunked, wire.data, wire.location, wire.url)
    BY <1>1, <1>2 DEF Refused, DownloadType, Responses, Response
  <2>3. DownloadType'
    <3>1. Context(http.expected_length, http.received, http.redirects, TRUE,
                       http.status, http.headers_accepted, http.location_allowed,
                       http.location_seen, http.content_length_seen, http.transfer_encoding_seen) \in Contexts
      BY <1>1 DEF DownloadType, Context, Contexts
    <3>2. Response("refused", wire.length, wire.chunked, wire.data, wire.location, wire.url) \in Responses
      BY <1>1 DEF DownloadType, Response, Responses
    <3>3. QED
      BY <2>1, <2>2, <3>1, <3>2 DEF DownloadType
  <2>4. QED
    BY <1>1, <1>2, <2>1, <2>2, <2>3 DEF Refused, Context, Response, HttpInv, AcceptedIsExact, LengthAccepted
<1>3. CASE OnStatus
  <2>0. PICK status \in {200, 302, 404} :
          http' = [http EXCEPT !.status = status, !.headers_accepted = FALSE,
                            !.location_allowed = FALSE, !.location_seen = FALSE,
                            !.content_length_seen = FALSE, !.transfer_encoding_seen = FALSE]
    BY <1>3 DEF OnStatus
  <2>1. http' = Context(http.expected_length, http.received, http.redirects, http.failed,
                       status, FALSE, FALSE,
                       FALSE, FALSE, FALSE)
    <3>1. http \in Contexts
      BY <1>1 DEF DownloadType
    <3>2. QED
      BY <2>0, <3>1 DEF Contexts, Context
  <2>2. wire' = Response("headers", 0, FALSE, 0, wire.location, wire.url)
    <3>1. wire \in Responses
      BY <1>1 DEF DownloadType
    <3>2. wire' = [wire EXCEPT !.phase = "headers", !.length = 0, !.chunked = FALSE, !.data = 0]
      BY <1>3 DEF OnStatus
    <3>3. QED
      BY <3>1, <3>2 DEF Responses, Response
  <2>3. DownloadType'
    <3>1. Context(http.expected_length, http.received, http.redirects, http.failed,
                       status, FALSE, FALSE,
                       FALSE, FALSE, FALSE) \in Contexts
      BY <1>1, <2>0 DEF DownloadType, Context, Contexts
    <3>2. Response("headers", 0, FALSE, 0, wire.location, wire.url) \in Responses
      BY <1>1, <2>0 DEF DownloadType, Response, Responses
    <3>3. QED
      BY <2>1, <2>2, <3>1, <3>2 DEF DownloadType
  <2>4. QED
    BY <1>1, <2>0, <1>3, <2>1, <2>2, <2>3 DEF OnStatus, Context, Response, HttpInv, AcceptedIsExact, LengthAccepted
<1>4. CASE OnContentLength /\ ~Refused
  <2>0. PICK length \in 0 .. Limit + 1 : wire' = [wire EXCEPT !.length = length]
    BY <1>4 DEF OnContentLength
  <2>1. http' = Context(http.expected_length, http.received, http.redirects, http.failed,
                       http.status, http.headers_accepted, http.location_allowed,
                       http.location_seen, TRUE, http.transfer_encoding_seen)
    BY <1>1, <2>0, <1>4 DEF OnContentLength, DownloadType, Contexts, Context
  <2>2. wire' = Response(wire.phase, length, wire.chunked, wire.data, wire.location, wire.url)
    BY <1>1, <2>0, <1>4 DEF OnContentLength, DownloadType, Responses, Response
  <2>3. DownloadType'
    <3>1. Context(http.expected_length, http.received, http.redirects, http.failed,
                       http.status, http.headers_accepted, http.location_allowed,
                       http.location_seen, TRUE, http.transfer_encoding_seen) \in Contexts
      BY <1>1, <2>0 DEF DownloadType, Context, Contexts
    <3>2. Response(wire.phase, length, wire.chunked, wire.data, wire.location, wire.url) \in Responses
      BY <1>1, <2>0 DEF DownloadType, Response, Responses
    <3>3. QED
      BY <2>1, <2>2, <3>1, <3>2 DEF DownloadType
  <2>4. QED
    BY <1>1, <2>0, <1>4, <2>1, <2>2, <2>3 DEF OnContentLength, Context, Response, HttpInv, AcceptedIsExact, LengthAccepted
<1>5. CASE OnTransferEncoding
  <2>1. http' = Context(http.expected_length, http.received, http.redirects, http.failed,
                       http.status, http.headers_accepted, http.location_allowed,
                       http.location_seen, http.content_length_seen, TRUE)
    BY <1>1, <1>5 DEF OnTransferEncoding, DownloadType, Contexts, Context
  <2>2. wire' = Response(wire.phase, wire.length, TRUE, wire.data, wire.location, wire.url)
    BY <1>1, <1>5 DEF OnTransferEncoding, DownloadType, Responses, Response
  <2>3. DownloadType'
    <3>1. Context(http.expected_length, http.received, http.redirects, http.failed,
                       http.status, http.headers_accepted, http.location_allowed,
                       http.location_seen, http.content_length_seen, TRUE) \in Contexts
      BY <1>1 DEF DownloadType, Context, Contexts
    <3>2. Response(wire.phase, wire.length, TRUE, wire.data, wire.location, wire.url) \in Responses
      BY <1>1 DEF DownloadType, Response, Responses
    <3>3. QED
      BY <2>1, <2>2, <3>1, <3>2 DEF DownloadType
  <2>4. QED
    BY <1>1, <1>5, <2>1, <2>2, <2>3 DEF OnTransferEncoding, Context, Response, HttpInv, AcceptedIsExact, LengthAccepted
<1>6. CASE OnLocation /\ ~Refused
  <2>0. PICK url \in Urls, allowed \in BOOLEAN :
          /\ wire.phase = "headers"
          /\ allowed => url # "elsewhere"
          /\ http' = [http EXCEPT !.location_seen = TRUE, !.location_allowed = allowed]
          /\ wire' = [wire EXCEPT !.location = url]
    <3>1. \A url \in Urls : UrlAllowed(url, TRUE) \in BOOLEAN /\ (UrlAllowed(url, TRUE) => url # "elsewhere")
      BY DEF UrlAllowed, Urls
    <3>2. QED
      BY <1>6, <3>1 DEF OnLocation
  <2>1. http' = Context(http.expected_length, http.received, http.redirects, http.failed,
                       http.status, http.headers_accepted, allowed,
                       TRUE, http.content_length_seen, http.transfer_encoding_seen)
    BY <1>1, <2>0, <1>6 DEF OnLocation, DownloadType, Contexts, Context
  <2>2. wire' = Response(wire.phase, wire.length, wire.chunked, wire.data, url, wire.url)
    BY <1>1, <2>0, <1>6 DEF OnLocation, DownloadType, Responses, Response
  <2>3. DownloadType'
    <3>1. Context(http.expected_length, http.received, http.redirects, http.failed,
                       http.status, http.headers_accepted, allowed,
                       TRUE, http.content_length_seen, http.transfer_encoding_seen) \in Contexts
      BY <1>1, <2>0 DEF DownloadType, Context, Contexts
    <3>2. Response(wire.phase, wire.length, wire.chunked, wire.data, url, wire.url) \in Responses
      BY <1>1, <2>0 DEF DownloadType, Response, Responses
    <3>3. QED
      BY <2>1, <2>2, <3>1, <3>2 DEF DownloadType
  <2>4. QED
    BY <2>0, <2>1, <2>2, <2>3 DEF Context, Response, HttpInv, AcceptedIsExact, LengthAccepted
<1>7. CASE OnHeadersComplete /\ ~Refused
  <2>1. http' = Context(http.expected_length, http.received, http.redirects, http.failed,
                       http.status, (http.headers_accepted \/ http.status = 200), http.location_allowed,
                       http.location_seen, http.content_length_seen, http.transfer_encoding_seen)
    BY <1>1, <1>7 DEF OnHeadersComplete, DownloadType, Contexts, Context
  <2>2. wire' = Response("body", wire.length, wire.chunked, wire.data, wire.location, wire.url)
    BY <1>1, <1>7 DEF OnHeadersComplete, DownloadType, Responses, Response
  <2>3. DownloadType'
    <3>1. Context(http.expected_length, http.received, http.redirects, http.failed,
                       http.status, (http.headers_accepted \/ http.status = 200), http.location_allowed,
                       http.location_seen, http.content_length_seen, http.transfer_encoding_seen) \in Contexts
      BY <1>1 DEF DownloadType, Context, Contexts
    <3>2. Response("body", wire.length, wire.chunked, wire.data, wire.location, wire.url) \in Responses
      BY <1>1 DEF DownloadType, Response, Responses
    <3>3. QED
      BY <2>1, <2>2, <3>1, <3>2 DEF DownloadType
  <2>4. QED
    BY <1>1, <1>7, <2>1, <2>2, <2>3 DEF OnHeadersComplete, Context, Response, HttpInv, AcceptedIsExact, LengthAccepted
<1>8. CASE OnData /\ ~Refused /\ ~UNCHANGED httpVars
  <2>0. PICK size \in Chunks : 
             /\ wire.chunked \/ wire.data + size <= wire.length
             /\ ~(http.status = 302 /\ http.location_allowed)
             /\ http.headers_accepted
             /\ ChunkFits(http.received, size, Limit)
             /\ http' = [http EXCEPT !.received = @ + size]
             /\ wire' = [wire EXCEPT !.data = @ + size]
    BY <1>8 DEF OnData, httpVars
  <2>00. /\ http.received + size \in 1 .. Limit /\ wire.data + size \in 0 .. Limit + 1
         /\ http.received = wire.data /\ http.received \in Nat /\ size \in Nat
    BY <1>1, <2>0 DEF HttpInv, ChunkFits
  <2>1. http' = Context(http.expected_length, (http.received + size), http.redirects, http.failed,
                       http.status, http.headers_accepted, http.location_allowed,
                       http.location_seen, http.content_length_seen, http.transfer_encoding_seen)
    BY <1>1, <2>0, <2>00, <1>8 DEF OnData, ChunkFits, DownloadType, Contexts, Context
  <2>2. wire' = Response(wire.phase, wire.length, wire.chunked, (wire.data + size), wire.location, wire.url)
    BY <1>1, <2>0, <2>00, <1>8 DEF OnData, ChunkFits, DownloadType, Responses, Response
  <2>3. DownloadType'
    <3>1. Context(http.expected_length, (http.received + size), http.redirects, http.failed,
                       http.status, http.headers_accepted, http.location_allowed,
                       http.location_seen, http.content_length_seen, http.transfer_encoding_seen) \in Contexts
      BY <1>1, <2>0, <2>00 DEF DownloadType, Context, Contexts
    <3>2. Response(wire.phase, wire.length, wire.chunked, (wire.data + size), wire.location, wire.url) \in Responses
      BY <1>1, <2>0, <2>00 DEF DownloadType, Response, Responses
    <3>3. QED
      BY <2>1, <2>2, <3>1, <3>2 DEF DownloadType
  <2>4. QED
    BY <1>1, <2>0, <2>00, <1>8, <2>1, <2>2, <2>3 DEF OnData, ChunkFits, Context, Response, HttpInv, AcceptedIsExact, LengthAccepted
<1>9. CASE OnRedirect /\ ~Refused
  <2>0. /\ http.location_seen /\ http.location_allowed /\ http.redirects < MaxRedirects
        /\ http.redirects + 1 \in 0 .. MaxRedirects + 1
        /\ http' = [http EXCEPT !.redirects = @ + 1]
        /\ wire' = [wire EXCEPT !.phase = "ready", !.url = wire.location]
    BY <1>1, <1>9 DEF OnRedirect
  <2>1. http' = Context(http.expected_length, http.received, (http.redirects + 1), http.failed,
                       http.status, http.headers_accepted, http.location_allowed,
                       http.location_seen, http.content_length_seen, http.transfer_encoding_seen)
    BY <1>1, <2>0, <1>9 DEF OnRedirect, DownloadType, Contexts, Context
  <2>2. wire' = Response("ready", wire.length, wire.chunked, wire.data, wire.location, wire.location)
    BY <1>1, <2>0, <1>9 DEF OnRedirect, DownloadType, Responses, Response
  <2>3. DownloadType'
    <3>1. Context(http.expected_length, http.received, (http.redirects + 1), http.failed,
                       http.status, http.headers_accepted, http.location_allowed,
                       http.location_seen, http.content_length_seen, http.transfer_encoding_seen) \in Contexts
      BY <1>1, <2>0 DEF DownloadType, Context, Contexts
    <3>2. Response("ready", wire.length, wire.chunked, wire.data, wire.location, wire.location) \in Responses
      BY <1>1, <2>0 DEF DownloadType, Response, Responses
    <3>3. QED
      BY <2>1, <2>2, <3>1, <3>2 DEF DownloadType
  <2>4. QED
    BY <1>1, <2>0, <1>9, <2>1, <2>2, <2>3 DEF OnRedirect, Context, Response, HttpInv, AcceptedIsExact, LengthAccepted
<1>10. CASE Finished
  <2>0. PICK phase \in {"accepted", "refused"} : wire' = [wire EXCEPT !.phase = phase]
    BY <1>10 DEF Finished
  <2>1. http' = Context(http.expected_length, http.received, http.redirects, http.failed,
                       http.status, http.headers_accepted, http.location_allowed,
                       http.location_seen, http.content_length_seen, http.transfer_encoding_seen)
    BY <1>1, <2>0, <1>10 DEF Finished, Complete, DownloadType, Contexts, Context
  <2>2. wire' = Response(phase, wire.length, wire.chunked, wire.data, wire.location, wire.url)
    BY <1>1, <2>0, <1>10 DEF Finished, Complete, DownloadType, Responses, Response
  <2>3. DownloadType'
    <3>1. Context(http.expected_length, http.received, http.redirects, http.failed,
                       http.status, http.headers_accepted, http.location_allowed,
                       http.location_seen, http.content_length_seen, http.transfer_encoding_seen) \in Contexts
      BY <1>1, <2>0 DEF DownloadType, Context, Contexts
    <3>2. Response(phase, wire.length, wire.chunked, wire.data, wire.location, wire.url) \in Responses
      BY <1>1, <2>0 DEF DownloadType, Response, Responses
    <3>3. QED
      BY <2>1, <2>2, <3>1, <3>2 DEF DownloadType
  <2>4. QED
    BY <1>1, <2>0, <1>10, <2>1, <2>2, <2>3 DEF Finished, Complete, Context, Response, HttpInv, AcceptedIsExact, LengthAccepted
<1>11. CASE UNCHANGED httpVars
  BY <1>11 DEF httpVars, HttpInv, DownloadType, AcceptedIsExact, LengthAccepted
<1>12. CASE NextDownload
  <2>1. DownloadType'
    BY <1>12 DEF NextDownload, NewContexts, NewWire, DownloadType, Responses, Urls
  <2>2. QED
    BY <1>12, <2>1 DEF NextDownload, NewContexts, NewWire, HttpInv, AcceptedIsExact
<1>13. QED
  BY <1>2, <1>3, <1>4, <1>5, <1>6, <1>7, <1>8, <1>9, <1>10, <1>11, <1>12 DEF DownloadNext, TransferFails

-----------------------------------------------------------------------------
(* The firmware.                                                           *)

\* The parts do not disturb each other.
PartsInv ==
  /\ BusInv /\ MeantForThem /\ ExhaustionInv
  /\ WifiInv /\ FirstTry
  /\ NvsInv /\ OtaInv /\ HttpInv

\* A session moves its part or none.
LEMMA OnePartMoves ==
  [Next]_vars => /\ [BusNext]_busVars /\ [WifiNext]_wifiVars /\ [NvsNext]_nvsVars
                 /\ [OtaNext]_otaVars /\ [DownloadNext]_httpVars
BY DEF Next, vars, partVars

\* The invariants hold at power-up.
LEMMA PartsInitInv == Init => PartsInv
<1> SUFFICES ASSUME Init PROVE PartsInv
  OBVIOUS
<1>1. BusInv /\ MeantForThem /\ ExhaustionInv
  BY BusInitInv, BusInitRefines, NobodyIsShownAnything, ExhaustionInitInv DEF Init
<1>2. FirstTry
  BY DEF Init, WifiInit, PoweredUp, Tasks, FirstTry
<1>3. QED
  BY <1>1, <1>2, WifiInitInv, NvsInitInv, OtaInitInv, HttpInitInv DEF Init, PartsInv

\* Every step keeps them.
LEMMA PartsNextInv == PartsInv /\ [Next]_vars => PartsInv'
<1> SUFFICES ASSUME PartsInv, [Next]_vars PROVE PartsInv'
  OBVIOUS
<1>1. BusInv' /\ MeantForThem' /\ ExhaustionInv'
  BY OnePartMoves, BusNextInv, BusNextRefines, MailboxesMeanIt, ExhaustionNextInv DEF PartsInv
<1>2. WifiInv' /\ FirstTry'
  BY OnePartMoves, WifiNextInv, CommandRunsDown DEF PartsInv
<1>3. NvsInv'
  BY OnePartMoves, NvsNextInv DEF PartsInv
<1>4. OtaInv' /\ HttpInv'
  BY OnePartMoves, OtaNextInv, HttpNextInv DEF PartsInv
<1>5. QED
  BY <1>1, <1>2, <1>3, <1>4 DEF PartsInv

\* The parts' invariants hold in every state of every session.
THEOREM InductiveInvariant == Spec => []PartsInv
BY PartsInitInv, PartsNextInv, PTL DEF Spec

\* Every variable of every part keeps its type.
THEOREM TypeCorrect == Spec => []TypeOK
<1>1. PartsInv => TypeOK
  BY DEF PartsInv, BusInv, WifiInv, NvsInv, OtaInv, HttpInv, TypeOK
<1>2. QED
  BY <1>1, InductiveInvariant, PTL

\* However posts, ticks and the deletion of tasks interleave, a message slot is
\* free, in one mailbox, in one hand or lost for good.
THEOREM SlotsHaveOneOwner == Spec => []EverySlotHasOneOwner
<1>1. PartsInv => EverySlotHasOneOwner
  BY OwnedByOne DEF PartsInv, BusInv
<1>2. QED
  BY <1>1, InductiveInvariant, PTL

\* With a slot for every place where a message can be, as the two services of the
\* firmware leave it, an allocation fails only after a task was deleted with a
\* message in hand.
THEOREM PoolIsEnough == Spec => []ExhaustionTellsOfLoss
<1>1. PartsInv => ExhaustionTellsOfLoss
  BY DEF PartsInv, ExhaustionInv
<1>2. QED
  BY <1>1, InductiveInvariant, PTL

\* The pool of slots shared by all mailboxes implements mailboxes that keep their
\* messages, in order.
THEOREM BusRefinement == Spec => ImplementsMailboxes
<1>1. Init => Abstract!Init
  BY BusInitRefines DEF Init
<1>2. PartsInv /\ [Next]_vars => [Abstract!Next]_(Abstract!vars)
  BY OnePartMoves, BusNextRefines DEF PartsInv
<1>3. QED
  BY <1>1, <1>2, InductiveInvariant, PTL DEF Spec, ImplementsMailboxes, Abstract!Spec

\* A service is never shown a message it did not subscribe to: what Mailboxes
\* promises, for the slots behind the messages.
THEOREM MessagesReachTheirReaders == Spec => []ServicesReadTheirOwn
<1>1. PartsInv => ServicesReadTheirOwn
  BY MeantForTheirReaders DEF PartsInv
<1>2. QED
  BY <1>1, InductiveInvariant, PTL

\* The station is never shown as connected without a link or the report of its
\* end still to come.
THEOREM ConnectionsAreReal == Spec => []ConnectedHasLink
<1>1. PartsInv => ConnectedHasLink
  BY WifiInvImplies DEF PartsInv
<1>2. QED
  BY <1>1, InductiveInvariant, PTL

\* A wifi command that failed or cleared leaves neither credentials nor a link.
THEOREM FailuresForget == Spec => []FailedMeansForgotten
<1>1. PartsInv => FailedMeansForgotten
  BY WifiInvImplies DEF PartsInv
<1>2. QED
  BY <1>1, InductiveInvariant, PTL

\* Out of ACTIVE the radio is on only after one of two races.
THEOREM RadioStaysOff == Spec => []RadioOffUnlessLate
<1>1. PartsInv => RadioOffUnlessLate
  BY WifiInvImplies DEF PartsInv
<1>2. QED
  BY <1>1, InductiveInvariant, PTL

\* A wifi command takes at most 18 steps of the console task, whatever the driver,
\* the scanner, the power policy and a lock that is never given back do in
\* between.  With the fairness of WifiConsole this is why ConsoleReturns holds.
THEOREM CommandsAreShort ==
  Spec => /\ [](CommandSteps \in 0 .. 18)
          /\ [][/\ ConsoleStep /\ session = "wifi" => CommandSteps' < CommandSteps
                /\ at["console"] # "idle" => CommandSteps' <= CommandSteps]_vars
<1>1. PartsInv => CommandSteps \in 0 .. 18
  BY CommandStepsBounded DEF PartsInv, WifiInv
<1>2. PartsInv /\ [Next]_vars =>
        [/\ ConsoleStep /\ session = "wifi" => CommandSteps' < CommandSteps
         /\ at["console"] # "idle" => CommandSteps' <= CommandSteps]_vars
  BY OnePartMoves, CommandRunsDown DEF PartsInv
<1>3. QED
  BY <1>1, <1>2, InductiveInvariant, PTL DEF Spec

\* The journal in NVS implements durable configuration, erasures aside.
THEOREM NvsRefinement == Spec => DurableUnlessErased
<1>1. Init => Durable!Init
  BY DEF Init, NvsInit, Durable!Init
<1>2. PartsInv /\ [Next]_vars => [Durable!Next \/ Erased]_<<live, acked, tried>>
  BY OnePartMoves, NvsNextInv DEF PartsInv
<1>3. QED
  BY <1>1, <1>2, InductiveInvariant, PTL DEF Spec, DurableUnlessErased

\* What is selected for booting is the image whose signature was verified, unless
\* a later update has begun to overwrite it.
THEOREM SelectionIsVerified == Spec => []SelectedIsVerified
<1>1. PartsInv => SelectedIsVerified
  BY OtaInvImplies DEF PartsInv
<1>2. QED
  BY <1>1, InductiveInvariant, PTL

\* There is always an image to boot, and one to fall back to during a trial.
THEOREM DeviceCanBoot == Spec => []AlwaysBootable
<1>1. PartsInv => AlwaysBootable
  BY OtaInvImplies DEF PartsInv
<1>2. QED
  BY <1>1, InductiveInvariant, PTL

\* An unconfirmed image is left at the next reset, for a whole one on the other
\* partition.
THEOREM TrialsEnd == Spec => UnconfirmedRollsBack
<1>1. OtaInv /\ Restart /\ otastate[running] = "PENDING" =>
        image[Target] # Broken /\ running' = Target /\ boot' = Target
  <2> SUFFICES ASSUME OtaInv, Restart, otastate[running] = "PENDING"
               PROVE  image[Target] # Broken /\ running' = Target /\ boot' = Target
    OBVIOUS
  <2>1. boot = running /\ boot \in Part /\ image[1 - running] # Broken
    BY DEF OtaInv, OtaType, TrialInv, AlwaysBootable
  <2>2. QED
    BY <2>1 DEF Restart, Target
<1>2. PartsInv /\ [Next]_vars =>
        [Restart /\ otastate[running] = "PENDING" =>
           image[Target] # Broken /\ running' = Target /\ boot' = Target]_otaVars
  BY <1>1 DEF PartsInv
<1>3. QED
  BY <1>2, InductiveInvariant, PTL DEF Spec, UnconfirmedRollsBack

\* An update never selects a release that was selected before, or an older one.
THEOREM ReplaysAreRefused == Spec => ReplayRefused
<1>1. PartsInv /\ [Next]_vars =>
        [Select /\ job.kind = "update" /\ boot' = Target /\ otastate'[Target] = "NEW" =>
           job.manifest.sequence > Max({seen, image[running]})]_otaVars
  BY OtaInvImplies DEF PartsInv
<1>2. QED
  BY <1>1, InductiveInvariant, PTL DEF Spec, ReplayRefused

\* An accepted download is exactly the one that was asked for.
THEOREM DownloadsAreExact == Spec => []AcceptedIsExact
<1>1. PartsInv => AcceptedIsExact
  BY DEF PartsInv, HttpInv
<1>2. QED
  BY <1>1, InductiveInvariant, PTL

-----------------------------------------------------------------------------
(* The checks of a release, of OtaPolicy, for every input: what each       *)
(* accepts, said without the order in which it looks.                      *)

\* A nonempty set of numbers has a least element, and Min is it.
LEMMA MinIsLeast ==
  ASSUME NEW S \in SUBSET Nat, S # {}
  PROVE  Min(S) \in S /\ \A n \in S : Min(S) <= n
<1> DEFINE Less == {p \in Nat \X Nat : p[1] < p[2]}
<1>1. IsWellFoundedOn(Less, Nat)
  BY NatLessThanWellFounded DEF OpToRel
<1>2. \E n \in S : \A m \in S : <<m, n>> \notin Less
  <2> HIDE DEF Less
  <2>1. QED
    BY <1>1, WFMin
<1>3. \E n \in S : \A m \in S : n <= m
  <2>1. PICK n \in S : \A m \in S : <<m, n>> \notin Less
    BY <1>2
  <2>2. ASSUME NEW m \in S PROVE n <= m
    <3>1. n \in Nat /\ m \in Nat /\ <<m, n>> \notin Less
      BY <2>1
    <3>2. ~(m < n)
      BY <3>1
    <3>3. QED
      BY <3>1, <3>2
  <2>3. QED
    BY <2>2
<1>4. QED
  BY <1>3 DEF Min

\* text[i], ..., text[j] is a numeral: digits, the first of several not a zero.
Numeral(text, i, j) ==
  /\ i <= j
  /\ \A k \in i .. j : text[k] \in Digit
  /\ text[i] = "0" => i = j

\* v, three numerals, a dot between each two, at most VersionMax characters.
IsRelease(text) ==
  /\ Len(text) <= VersionMax
  /\ text[1] = "v"
  /\ \E dot1, dot2 \in 1 .. Len(text) :
       /\ text[dot1] = "." /\ text[dot2] = "."
       /\ Numeral(text, 2, dot1 - 1)
       /\ Numeral(text, dot1 + 1, dot2 - 1)
       /\ Numeral(text, dot2 + 1, Len(text))

\* A run of digits is followed by the end or by something else.
LEMMA RunEndIs ==
  ASSUME NEW text, Len(text) \in Nat, NEW i \in 1 .. Len(text) + 1
  PROVE  /\ RunEnd(text, i) \in i .. Len(text) + 1
         /\ \A k \in i .. RunEnd(text, i) - 1 : text[k] \in Digit
         /\ RunEnd(text, i) = Len(text) + 1 \/ text[RunEnd(text, i)] \notin Digit
         /\ \A e \in i .. Len(text) + 1 :
              /\ \A k \in i .. e - 1 : text[k] \in Digit
              /\ e = Len(text) + 1 \/ text[e] \notin Digit
              => e = RunEnd(text, i)
<1> DEFINE S == {j \in i .. Len(text) + 1 : j = Len(text) + 1 \/ text[j] \notin Digit}
           n == RunEnd(text, i)
<1>1. S \in SUBSET Nat /\ Len(text) + 1 \in S
  OBVIOUS
<1>2. n = Min(S)
  BY DEF RunEnd
<1>3. n \in S /\ \A j \in S : n <= j
  <2> HIDE DEF S, n
  <2>1. QED
    BY <1>1, <1>2, MinIsLeast
<1>4. \A k \in i .. n - 1 : text[k] \in Digit
  <2> SUFFICES ASSUME NEW k \in i .. n - 1, text[k] \notin Digit PROVE FALSE
    OBVIOUS
  <2>1. n \in i .. Len(text) + 1 /\ k \in i .. Len(text) + 1 /\ k < n
    BY <1>3
  <2>2. k \in S
    BY <2>1
  <2> HIDE DEF S, n
  <2>3. QED
    BY <1>3, <2>1, <2>2
<1>5. ASSUME NEW e \in i .. Len(text) + 1,
             \A k \in i .. e - 1 : text[k] \in Digit,
             e = Len(text) + 1 \/ text[e] \notin Digit
      PROVE  e = n
  <2>1. e \in S /\ n \in i .. Len(text) + 1
    BY <1>3, <1>5
  <2>2. n <= e
    BY <1>3, <2>1
  <2>3. ~(n < e)
    <3> SUFFICES ASSUME n < e PROVE FALSE
      OBVIOUS
    <3>1. n \in i .. e - 1 /\ n # Len(text) + 1
      BY <2>1, <1>5
    <3>2. text[n] \in Digit
      BY <3>1, <1>5
    <3>3. QED
      BY <1>3, <3>1, <3>2
  <2> HIDE DEF S, n
  <2>4. QED
    BY <2>1, <2>2, <2>3
<1>6. QED
  BY <1>3, <1>4, <1>5

\* A component is a numeral with no digit after it.
LEMMA ComponentIs ==
  ASSUME NEW text, Len(text) \in Nat, NEW i \in 1 .. Len(text) + 1, NEW e \in Nat \ {0}
  PROVE  e = ComponentEnd(text, i) <=>
           /\ e \in 1 .. Len(text) + 1
           /\ Numeral(text, i, e - 1)
           /\ e = Len(text) + 1 \/ text[e] \notin Digit
<1> DEFINE n == RunEnd(text, i)
<1>1. /\ n \in i .. Len(text) + 1
      /\ \A k \in i .. n - 1 : text[k] \in Digit
      /\ n = Len(text) + 1 \/ text[n] \notin Digit
  BY RunEndIs
<1>2. ASSUME e = ComponentEnd(text, i)
      PROVE  /\ e \in 1 .. Len(text) + 1 /\ Numeral(text, i, e - 1)
             /\ e = Len(text) + 1 \/ text[e] \notin Digit
  <2>1. /\ e = n /\ n # i /\ i <= Len(text)
        /\ ~(i < Len(text) /\ text[i] = "0" /\ text[i + 1] \in Digit)
    BY <1>2 DEF ComponentEnd
  <2> HIDE DEF n
  <2>2. text[i] = "0" => i = n - 1
    <3> SUFFICES ASSUME text[i] = "0", i # n - 1 PROVE FALSE
      OBVIOUS
    <3>1. i + 1 \in i .. n - 1 /\ i < Len(text)
      BY <1>1, <2>1
    <3>2. QED
      BY <1>1, <2>1, <3>1
  <2>3. QED
    BY <1>1, <2>1, <2>2 DEF Numeral
<1>3. ASSUME e \in 1 .. Len(text) + 1, Numeral(text, i, e - 1),
             e = Len(text) + 1 \/ text[e] \notin Digit
      PROVE  e = ComponentEnd(text, i)
  <2>1. e \in i .. Len(text) + 1 /\ e # i /\ i <= Len(text)
    BY <1>3 DEF Numeral
  <2>2. e = n
    BY <1>3, <2>1, RunEndIs DEF Numeral
  <2>3. ~(i < Len(text) /\ text[i] = "0" /\ text[i + 1] \in Digit)
    BY <1>3, <2>1 DEF Numeral
  <2>4. QED
    BY <2>1, <2>2, <2>3 DEF ComponentEnd
<1>4. QED
  BY <1>2, <1>3

\* cirvane_ota_release_version_valid accepts a text if and only if it is of the
\* grammar of release names, for texts of every length over the kinds of
\* character OtaPolicy tells apart: v, dot, zero, another digit, anything else.
THEOREM VersionsAreExact ==
  ASSUME NEW text \in Seq({"v", ".", "0", "1", "x"})
  PROVE  ReleaseVersionValid(text) <=> IsRelease(text)
<1> DEFINE len == Len(text)
<1>1. len \in Nat
  BY LenProperties
<1>2. text # <<>> <=> len > 0
  BY <1>1, EmptySeq
<1>3. ASSUME ReleaseVersionValid(text) PROVE IsRelease(text)
  <2> DEFINE major == ComponentEnd(text, 2)
             minor == NextComponentEnd(text, major)
  <2>1. /\ text[1] = "v" /\ len \in 6 .. VersionMax
        /\ NextComponentEnd(text, minor) = len + 1
    BY <1>3 DEF ReleaseVersionValid
  <2>2. /\ minor # 0 /\ ~(minor > len) /\ text[minor] = "."
        /\ ComponentEnd(text, minor + 1) = len + 1
    BY <1>1, <2>1 DEF NextComponentEnd
  <2>3. /\ major # 0 /\ ~(major > len) /\ text[major] = "."
        /\ ComponentEnd(text, major + 1) = minor
    BY <2>2 DEF NextComponentEnd
  <2>4. major \in Nat
    <3>1. RunEnd(text, 2) \in 2 .. len + 1
      BY <1>1, <2>1, RunEndIs
    <3>2. QED
      BY <1>1, <3>1 DEF ComponentEnd
  <2>5. major \in 1 .. len /\ Numeral(text, 2, major - 1)
    <3> HIDE DEF major, minor
    <3>1. major \in Nat \ {0} /\ 2 \in 1 .. len + 1
      BY <1>1, <2>1, <2>3, <2>4
    <3>2. QED
      BY <1>1, <2>3, <3>1, ComponentIs DEF major
  <2>6. minor \in Nat
    <3> HIDE DEF major, minor
    <3>1. major + 1 \in 1 .. len + 1
      BY <1>1, <2>5
    <3>2. RunEnd(text, major + 1) \in 1 .. len + 1
      BY <1>1, <3>1, RunEndIs
    <3>3. QED
      BY <1>1, <2>3, <3>2 DEF ComponentEnd
  <2>7. minor \in 1 .. len /\ Numeral(text, major + 1, minor - 1)
    <3> HIDE DEF major, minor
    <3>1. minor \in Nat \ {0} /\ major + 1 \in 1 .. len + 1
      BY <1>1, <2>2, <2>5, <2>6
    <3>2. QED
      BY <1>1, <2>2, <2>3, <3>1, ComponentIs
  <2>8. Numeral(text, minor + 1, len)
    <3> HIDE DEF major, minor
    <3>1. len + 1 \in Nat \ {0} /\ minor + 1 \in 1 .. len + 1 /\ (len + 1) - 1 = len
      BY <1>1, <2>7
    <3>2. Numeral(text, minor + 1, (len + 1) - 1)
      BY <1>1, <2>2, <3>1, ComponentIs
    <3>3. QED
      BY <3>1, <3>2
  <2>9. QED
    <3> HIDE DEF major, minor
    <3>1. QED
      BY <1>1, <2>1, <2>2, <2>3, <2>5, <2>7, <2>8 DEF IsRelease
<1>4. ASSUME IsRelease(text) PROVE ReleaseVersionValid(text)
  <2>1. PICK dot1 \in 1 .. len, dot2 \in 1 .. len :
          /\ text[dot1] = "." /\ text[dot2] = "."
          /\ Numeral(text, 2, dot1 - 1)
          /\ Numeral(text, dot1 + 1, dot2 - 1)
          /\ Numeral(text, dot2 + 1, len)
    BY <1>4 DEF IsRelease
  <2>2. 3 <= dot1 /\ dot1 + 2 <= dot2 /\ dot2 + 1 <= len /\ "." \notin Digit
    BY <1>1, <2>1 DEF Numeral, Digit
  <2>3. ComponentEnd(text, 2) = dot1
    BY <1>1, <2>1, <2>2, ComponentIs
  <2>4. ComponentEnd(text, dot1 + 1) = dot2
    BY <1>1, <2>1, <2>2, ComponentIs
  <2>5. ComponentEnd(text, dot2 + 1) = len + 1
    <3>1. len + 1 \in Nat \ {0} /\ (len + 1) - 1 = len /\ dot2 + 1 \in 1 .. len + 1
      BY <1>1
    <3>2. Numeral(text, dot2 + 1, (len + 1) - 1) /\ len + 1 \in 1 .. len + 1
      BY <1>1, <2>1, <3>1
    <3>3. QED
      BY <1>1, <3>1, <3>2, ComponentIs
  <2>6. NextComponentEnd(text, dot1) = dot2 /\ NextComponentEnd(text, dot2) = len + 1
    BY <1>1, <2>1, <2>4, <2>5 DEF NextComponentEnd
  <2>7. len \in 6 .. VersionMax /\ text[1] = "v"
    <3>1. len <= VersionMax /\ text[1] = "v"
      BY <1>4 DEF IsRelease
    <3>2. len >= 6
      BY <1>1, <2>2
    <3>3. len \in 6 .. VersionMax
      <4> HIDE DEF len
      <4>1. QED
        BY <1>1, <3>1, <3>2 DEF VersionMax
    <3>4. QED
      BY <3>1, <3>3
  <2>8. QED
    BY <1>1, <1>2, <2>3, <2>6, <2>7 DEF ReleaseVersionValid
<1>5. QED
  BY <1>3, <1>4

\* The ten lines of a manifest, in order and all good.
TheManifest == [i \in 1 .. 10 |-> [field |-> Fields[i].field, good |-> TRUE]]

LEMMA FieldsAre ==
  /\ Len(Fields) = 10
  /\ \A i \in 1 .. 10 : Fields[i].verdict # "OK"
<1>1. Len(Fields) = 10
  BY DEF Fields
<1>2. ASSUME NEW i \in 1 .. 10 PROVE Fields[i].verdict # "OK"
  <2>1. i \in {1, 2, 3, 4, 5, 6, 7, 8, 9, 10}
    OBVIOUS
  <2>2. QED
    BY <2>1 DEF Fields
<1>3. QED
  BY <1>1, <1>2

\* cirvane_ota_manifest_parse accepts the ten lines in their order and nothing else: no
\* sequence with a line missing, repeated, moved, damaged or left over.
THEOREM ManifestsAreExact ==
  ASSUME NEW Line, NEW lines \in Seq(Line)
  PROVE  ManifestParse(lines) = "OK" <=> lines = TheManifest
<1> DEFINE wrong == {i \in 1 .. Len(Fields) :
                       i > Len(lines) \/ lines[i] # [field |-> Fields[i].field, good |-> TRUE]}
           parse == IF wrong = {} THEN (IF Len(lines) = Len(Fields) THEN "OK" ELSE "MALFORMED")
                    ELSE IF Min(wrong) > Len(lines) THEN "MALFORMED"
                    ELSE Fields[Min(wrong)].verdict
<1>1. ManifestParse(lines) = parse
  BY DEF ManifestParse
<1>2. Len(Fields) = 10 /\ \A i \in 1 .. 10 : Fields[i].verdict # "OK"
  BY FieldsAre
<1>3. Len(lines) \in Nat /\ lines = [i \in 1 .. Len(lines) |-> lines[i]]
  BY LenProperties
<1>4. ASSUME parse = "OK" PROVE lines = TheManifest
  <2>1. wrong = {}
    <3> SUFFICES ASSUME wrong # {} PROVE FALSE
      OBVIOUS
    <3>1. wrong \subseteq 1 .. 10
      BY <1>2
    <3>2. Min(wrong) \in 1 .. 10
      <4> HIDE DEF wrong
      <4>1. wrong \in SUBSET Nat
        BY <3>1
      <4>2. Min(wrong) \in wrong
        BY <4>1, MinIsLeast
      <4>3. QED
        BY <3>1, <4>2
    <3> HIDE DEF wrong
    <3>3. QED
      BY <1>2, <1>4, <3>2
  <2>2. Len(lines) = 10
    <3> HIDE DEF wrong
    <3>1. QED
      BY <1>2, <1>4, <2>1
  <2>3. \A i \in 1 .. 10 : lines[i] = [field |-> Fields[i].field, good |-> TRUE]
    BY <1>2, <2>1, <2>2
  <2>4. QED
    BY <1>3, <2>2, <2>3 DEF TheManifest
<1>5. ASSUME lines = TheManifest PROVE parse = "OK"
  <2>1. /\ DOMAIN lines = 1 .. 10
        /\ \A i \in 1 .. 10 : lines[i] = [field |-> Fields[i].field, good |-> TRUE]
    BY <1>5 DEF TheManifest
  <2>2. Len(lines) = 10
    <3>1. 1 .. Len(lines) = 1 .. 10
      BY <2>1, LenProperties
    <3>2. 10 \in 1 .. Len(lines) /\ (Len(lines) \in 1 .. 10 \/ Len(lines) = 0)
      BY <1>3, <3>1
    <3>3. QED
      BY <1>3, <3>2
  <2>3. wrong = {}
    <3>1. \A i \in 1 .. 10 :
            ~(i > Len(lines) \/ lines[i] # [field |-> Fields[i].field, good |-> TRUE])
      <4> HIDE DEF wrong
      <4>1. ASSUME NEW i \in 1 .. 10
            PROVE  ~(i > Len(lines)) /\ lines[i] = [field |-> Fields[i].field, good |-> TRUE]
        <5>1. ~(i > Len(lines))
          BY <2>2
        <5>2. lines[i] = [field |-> Fields[i].field, good |-> TRUE]
          BY <2>1
        <5>3. QED
          BY <5>1, <5>2
      <4>2. QED
        BY <4>1
    <3>2. QED
      BY <1>2, <3>1
  <2> HIDE DEF wrong
  <2>4. QED
    BY <1>2, <2>2, <2>3
<1>6. QED
  BY <1>1, <1>4, <1>5

\* The comparison of cirvane_ota_chunk_fits, made without adding, is that of the
\* sum with the limit, and what it subtracts never exceeds what it subtracts from.
THEOREM ChunksFitExactly ==
  ASSUME NEW received \in Nat, NEW size \in Nat, NEW limit \in Nat
  PROVE  ChunkFits(received, size, limit) <=> size > 0 /\ received + size <= limit
BY DEF ChunkFits

-----------------------------------------------------------------------------
(* The bounded lines of Console, for every capacity and whatever is typed: *)
(* n keys make n turns of the loop, so that what holds of the line after   *)
(* every number of keys is proved by counting up to it.                    *)

\* A prefix of a prefix is a prefix.
LEMMA PrefixOfPrefix ==
  ASSUME NEW S, NEW s \in Seq(S), NEW m \in 0 .. Len(s), NEW n \in 0 .. m
  PROVE  SubSeq(SubSeq(s, 1, m), 1, n) = SubSeq(s, 1, n)
<1>1. Len(s) \in Nat /\ \A i \in 1 .. Len(s) : s[i] \in S
  BY LenProperties, ElementOfSeq
<1>2. /\ \A i \in 1 .. m : s[i] \in S
      /\ \A i \in 1 .. n : s[i] \in S
      /\ m \in Nat /\ n \in Nat
  BY <1>1
<1>3. \A i \in 1 .. m : SubSeq(s, 1, m)[i] = s[i]
  BY <1>2, SubSeqProperties
<1>4. \A i \in 1 .. n : SubSeq(s, 1, m)[i] \in S
  BY <1>2, <1>3
<1>5. /\ SubSeq(SubSeq(s, 1, m), 1, n) \in Seq(S) /\ SubSeq(s, 1, n) \in Seq(S)
      /\ Len(SubSeq(SubSeq(s, 1, m), 1, n)) = Len(SubSeq(s, 1, n))
      /\ Len(SubSeq(s, 1, n)) = n
  BY <1>2, <1>4, SubSeqProperties
<1>6. \A i \in 1 .. n : SubSeq(SubSeq(s, 1, m), 1, n)[i] = SubSeq(s, 1, n)[i]
  BY <1>2, <1>3, <1>4, SubSeqProperties
<1>7. QED
  BY <1>5, <1>6, SeqEqual

\* What is put at the back of a sequence is in no prefix of the sequence.
LEMMA PrefixOfLonger ==
  ASSUME NEW S, NEW s \in Seq(S), NEW e \in S, NEW n \in 0 .. Len(s)
  PROVE  SubSeq(Append(s, e), 1, n) = SubSeq(s, 1, n)
<1>1. /\ Len(s) \in Nat /\ \A i \in 1 .. Len(s) : s[i] \in S
      /\ Append(s, e) \in Seq(S) /\ Len(Append(s, e)) = Len(s) + 1
      /\ \A i \in 1 .. Len(s) : Append(s, e)[i] = s[i]
  BY LenProperties, ElementOfSeq, AppendProperties
<1>2. SubSeq(Append(s, e), 1, Len(s)) = s
  <2>1. SubSeq(Append(s, e), 1, Len(s)) = SubSeq(s, 1, Len(s))
    <3>1. /\ \A i \in 1 .. Len(s) : Append(s, e)[i] \in S
      BY <1>1
    <3>2. /\ SubSeq(Append(s, e), 1, Len(s)) \in Seq(S) /\ SubSeq(s, 1, Len(s)) \in Seq(S)
          /\ Len(SubSeq(Append(s, e), 1, Len(s))) = Len(SubSeq(s, 1, Len(s)))
          /\ Len(SubSeq(s, 1, Len(s))) = Len(s)
          /\ \A i \in 1 .. Len(s) : SubSeq(Append(s, e), 1, Len(s))[i] = SubSeq(s, 1, Len(s))[i]
      BY <1>1, <3>1, SubSeqProperties
    <3>3. QED
      BY <3>2, SeqEqual
  <2>2. QED
    BY <2>1, SubSeqFull
<1>3. n \in 0 .. Len(s) /\ Len(s) \in 0 .. Len(Append(s, e))
  BY <1>1
<1>4. SubSeq(SubSeq(Append(s, e), 1, Len(s)), 1, n) = SubSeq(Append(s, e), 1, n)
  BY <1>1, <1>3, PrefixOfPrefix
<1>5. QED
  BY <1>2, <1>4

\* A prefix grows by the element that follows it.
LEMMA PrefixGrows ==
  ASSUME NEW S, NEW s \in Seq(S), NEW n \in 1 .. Len(s)
  PROVE  Append(SubSeq(s, 1, n - 1), s[n]) = SubSeq(s, 1, n)
<1>1. /\ Len(s) \in Nat /\ \A i \in 1 .. Len(s) : s[i] \in S
      /\ n \in Nat \ {0} /\ s[n] \in S
  BY LenProperties, ElementOfSeq
<1>2. /\ \A i \in 1 .. n : s[i] \in S
      /\ \A i \in 1 .. n - 1 : s[i] \in S
  BY <1>1
<1>3. /\ SubSeq(s, 1, n - 1) \in Seq(S)
      /\ Len(SubSeq(s, 1, n - 1)) = IF 1 <= n - 1 THEN n - 1 - 1 + 1 ELSE 0
      /\ \A i \in 1 .. n - 1 - 1 + 1 : SubSeq(s, 1, n - 1)[i] = s[1 + i - 1]
  BY <1>1, <1>2, SubSeqProperties
<1>4. /\ SubSeq(s, 1, n) \in Seq(S)
      /\ Len(SubSeq(s, 1, n)) = n
      /\ \A i \in 1 .. n : SubSeq(s, 1, n)[i] = s[i]
  BY <1>1, <1>2, SubSeqProperties
<1> DEFINE prefix == SubSeq(s, 1, n - 1)
<1>5. prefix \in Seq(S) /\ Len(prefix) = n - 1 /\ \A i \in 1 .. n - 1 : prefix[i] = s[i]
  <2> HIDE DEF prefix
  <2>1. prefix \in Seq(S) /\ Len(prefix) = IF 1 <= n - 1 THEN n - 1 - 1 + 1 ELSE 0
    BY <1>3 DEF prefix
  <2>2. \A i \in 1 .. n - 1 : prefix[i] = s[i]
    BY <1>1, <1>3 DEF prefix
  <2>3. QED
    BY <1>1, <2>1, <2>2
<1> HIDE DEF prefix
<1>6. /\ Append(prefix, s[n]) \in Seq(S) /\ Len(Append(prefix, s[n])) = n
      /\ \A i \in 1 .. n - 1 : Append(prefix, s[n])[i] = s[i]
      /\ Append(prefix, s[n])[n] = s[n]
  BY <1>1, <1>5, AppendProperties
<1>7. \A i \in 1 .. n : Append(prefix, s[n])[i] = s[i]
  BY <1>1, <1>6
<1>8. Append(prefix, s[n]) = SubSeq(s, 1, n)
  BY <1>4, <1>6, <1>7, SeqEqual
<1>9. QED
  BY <1>8 DEF prefix

\* A set of numbers that has 0 and the successor of each of its members up to N has
\* all numbers up to N.
LEMMA CountingUp ==
  ASSUME NEW N \in Nat, NEW Good \in SUBSET Nat, 0 \in Good,
         \A n \in 1 .. N : n - 1 \in Good => n \in Good
  PROVE  0 .. N \subseteq Good
<1> SUFFICES ASSUME ~(0 .. N \subseteq Good) PROVE FALSE
  OBVIOUS
<1> DEFINE Bad == {n \in 0 .. N : n \notin Good}
<1>1. Bad \in SUBSET Nat /\ Bad # {}
  OBVIOUS
<1>2. Min(Bad) \in Bad /\ \A n \in Bad : Min(Bad) <= n
  <2> HIDE DEF Bad
  <2>1. QED
    BY <1>1, MinIsLeast
<1>3. Min(Bad) \in 1 .. N /\ Min(Bad) \notin Good
  BY <1>2
<1>4. Min(Bad) - 1 \notin Bad /\ Min(Bad) - 1 \in 0 .. N
  <2> HIDE DEF Bad
  <2>1. QED
    BY <1>2, <1>3
<1>5. Min(Bad) - 1 \in Good
  BY <1>4
<1>6. QED
  BY <1>3, <1>5

\* What a key that does not end the line makes of the text typed so far.
Typed(text, key) ==
  CASE key = "rubout"  -> IF text = <<>> THEN text ELSE SubSeq(text, 1, Len(text) - 1)
    [] key = "control" -> text
    [] OTHER           -> Append(text, key)

\* lines[n] is the line and texts[n] the text typed after n of the keys.
IsReading(lines, texts, keys, capacity) ==
  /\ lines[0] = EmptyLine /\ texts[0] = <<>>
  /\ \A n \in 1 .. Len(keys) :
       /\ lines[n] = KeyIn(lines[n - 1], keys[n], capacity)
       /\ texts[n] = Typed(texts[n - 1], keys[n])

\* The line keeps of a text what there is room for, and counts the rest.
Keeps(line, text, capacity) ==
  LET room == IF Len(text) < capacity THEN Len(text) ELSE capacity - 1
  IN  line = [entered |-> Len(text), out |-> SubSeq(text, 1, room), result |-> "open"]

\* One turn of the loop: the line goes on keeping what was typed.
LEMMA KeyKeeps ==
  ASSUME NEW Key, NEW text \in Seq(Key), NEW key \in Key, key \notin {"enter", "cancel"},
         NEW capacity \in Nat, capacity >= 2, NEW line, Keeps(line, text, capacity)
  PROVE  /\ Typed(text, key) \in Seq(Key)
         /\ Keeps(KeyIn(line, key, capacity), Typed(text, key), capacity)
<1> DEFINE len == Len(text)
           room == IF len < capacity THEN len ELSE capacity - 1
<1>1. /\ len \in Nat /\ room \in 0 .. len /\ room < capacity
      /\ \A i \in 1 .. len : text[i] \in Key
      /\ SubSeq(text, 1, len) = text
  BY LenProperties, ElementOfSeq, SubSeqFull
<1>2. line = [entered |-> len, out |-> SubSeq(text, 1, room), result |-> "open"]
  BY DEF Keeps
<1>3. SubSeq(text, 1, room) \in Seq(Key) /\ Len(SubSeq(text, 1, room)) = room
  <2>1. \A i \in 1 .. room : text[i] \in Key
    BY <1>1
  <2>2. Len(SubSeq(text, 1, room)) = IF 1 <= room THEN room - 1 + 1 ELSE 0
    BY <1>1, <2>1, SubSeqProperties
  <2>3. SubSeq(text, 1, room) \in Seq(Key)
    BY <1>1, <2>1, SubSeqProperties
  <2> HIDE DEF room
  <2>4. QED
    BY <1>1, <2>2, <2>3
<1>4. CASE key = "rubout" /\ len > 0
  <2> DEFINE shorter == SubSeq(text, 1, len - 1)
             less == IF len - 1 < capacity THEN len - 1 ELSE capacity - 1
  <2>1. Typed(text, key) = shorter
    BY <1>1, <1>4, EmptySeq DEF Typed
  <2>2. shorter \in Seq(Key) /\ Len(shorter) = len - 1
    <3>1. \A i \in 1 .. len - 1 : text[i] \in Key
      BY <1>1
    <3>2. Len(shorter) = IF 1 <= len - 1 THEN len - 1 - 1 + 1 ELSE 0
      BY <1>1, <3>1, SubSeqProperties
    <3>3. shorter \in Seq(Key)
      BY <1>1, <3>1, SubSeqProperties
    <3> HIDE DEF len, shorter
    <3>4. QED
      BY <1>1, <1>4, <3>2, <3>3
  <2>3. less \in 0 .. len - 1 /\ less <= room
        /\ (room > len - 1 => room = len /\ less = len - 1)
        /\ (room <= len - 1 => less = room)
    <3> HIDE DEF len
    <3>1. QED
      BY <1>1, <1>4
  <2>4. SubSeq(shorter, 1, less) = SubSeq(text, 1, less)
    <3> HIDE DEF less
    <3>1. len - 1 \in 0 .. Len(text)
      BY <1>1, <1>4
    <3>2. less \in 0 .. len - 1
      BY <2>3
    <3>3. QED
      BY <3>1, <3>2, PrefixOfPrefix
  <2>5. KeyIn(line, key, capacity) =
          [entered |-> len - 1, out |-> SubSeq(text, 1, less), result |-> "open"]
    <3> HIDE DEF len, room, less
    <3>1. /\ line.entered = len /\ line.out = SubSeq(text, 1, room) /\ line.result = "open"
          /\ Len(line.out) = room
      BY <1>2, <1>3
    <3>2. KeyIn(line, key, capacity) =
            [line EXCEPT !.entered = line.entered - 1,
                         !.out = IF Len(line.out) > line.entered - 1
                                 THEN SubSeq(line.out, 1, line.entered - 1) ELSE line.out]
      <4>1. line.entered > 0 /\ key = "rubout" /\ line.result = "open"
        BY <1>4, <3>1
      <4>2. QED
        BY <4>1 DEF KeyIn
    <3>3. (IF Len(line.out) > line.entered - 1
           THEN SubSeq(line.out, 1, line.entered - 1) ELSE line.out) = SubSeq(text, 1, less)
      <4>1. CASE room > len - 1
        <5>1. room = len /\ less = len - 1
          BY <2>3, <4>1
        <5>2. line.out = text
          BY <1>1, <3>1, <5>1
        <5>3. QED
          BY <3>1, <4>1, <5>1, <5>2
      <4>2. CASE ~(room > len - 1)
        <5>1. less = room
          BY <1>1, <2>3, <4>2
        <5>2. QED
          BY <3>1, <4>2, <5>1
      <4>3. QED
        BY <4>1, <4>2
    <3>4. QED
      BY <1>2, <3>1, <3>2, <3>3
  <2>6. QED
    <3> HIDE DEF len, shorter
    <3>1. QED
      BY <2>1, <2>2, <2>4, <2>5 DEF Keeps, less
<1>5. CASE key = "control" \/ (key = "rubout" /\ ~(len > 0))
  <2>1. Typed(text, key) = text
    <3>1. CASE key = "control"
      BY <3>1 DEF Typed
    <3>2. CASE key = "rubout" /\ ~(len > 0)
      <4>1. text = <<>>
        BY <1>1, <3>2, EmptySeq
      <4>2. QED
        BY <3>2, <4>1 DEF Typed
    <3>3. QED
      BY <1>5, <3>1, <3>2
  <2>2. KeyIn(line, key, capacity) = line
    BY <1>1, <1>2, <1>5 DEF KeyIn
  <2>3. QED
    BY <2>1, <2>2
<1>6. CASE key \notin {"rubout", "control"}
  <2> DEFINE longer == Append(text, key)
             more == IF len + 1 < capacity THEN len + 1 ELSE capacity - 1
  <2>1. Typed(text, key) = longer
    BY <1>6 DEF Typed
  <2>2. longer \in Seq(Key) /\ Len(longer) = len + 1
    BY AppendProperties
  <2>3. KeyIn(line, key, capacity) =
          [entered |-> len + 1,
           out |-> IF len + 1 < capacity THEN Append(SubSeq(text, 1, room), key)
                   ELSE SubSeq(text, 1, room),
           result |-> "open"]
    <3> HIDE DEF len, room
    <3>1. QED
      BY <1>2, <1>6 DEF KeyIn
  <2>4. CASE len + 1 < capacity
    <3>1. room = len /\ more = len + 1
      BY <1>1, <2>4
    <3>2. SubSeq(longer, 1, more) = longer
      BY <2>2, <3>1, SubSeqFull
    <3>3. KeyIn(line, key, capacity) =
            [entered |-> len + 1, out |-> longer, result |-> "open"]
      BY <1>1, <2>3, <2>4, <3>1
    <3> HIDE DEF len, longer
    <3>4. QED
      BY <2>1, <2>2, <3>2, <3>3 DEF Keeps, more
  <2>5. CASE ~(len + 1 < capacity)
    <3>1. room = capacity - 1 /\ more = capacity - 1 /\ room <= len
      BY <1>1, <2>5
    <3>2. SubSeq(longer, 1, room) = SubSeq(text, 1, room)
      BY <1>1, <3>1, PrefixOfLonger
    <3>3. KeyIn(line, key, capacity) =
            [entered |-> len + 1, out |-> SubSeq(text, 1, room), result |-> "open"]
      BY <2>3, <2>5
    <3> HIDE DEF len, room, longer
    <3>4. QED
      BY <2>1, <2>2, <2>5, <3>1, <3>2, <3>3 DEF Keeps, more
  <2>6. QED
    BY <2>4, <2>5
<1>7. QED
  BY <1>4, <1>5, <1>6

\* After every key the line keeps what was typed.
LEMMA ReadingKeeps ==
  ASSUME NEW Key, NEW keys \in Seq(Key \ {"enter", "cancel"}),
         NEW capacity \in Nat, capacity >= 2,
         NEW lines, NEW texts, IsReading(lines, texts, keys, capacity)
  PROVE  /\ texts[Len(keys)] \in Seq(Key)
         /\ Keeps(lines[Len(keys)], texts[Len(keys)], capacity)
<1> DEFINE Good == {n \in Nat : texts[n] \in Seq(Key) /\ Keeps(lines[n], texts[n], capacity)}
<1>1. Len(keys) \in Nat /\ \A n \in 1 .. Len(keys) : keys[n] \in Key \ {"enter", "cancel"}
  BY LenProperties, ElementOfSeq
<1>2. 0 \in Good
  <2>1. texts[0] = <<>> /\ <<>> \in Seq(Key) /\ Len(<<>>) = 0
    BY EmptySeq DEF IsReading
  <2>2. SubSeq(<<>>, 1, 0) = <<>>
    BY SubSeqEmpty
  <2>3. lines[0] = [entered |-> 0, out |-> <<>>, result |-> "open"]
    BY DEF IsReading, EmptyLine
  <2>4. QED
    BY <2>1, <2>2, <2>3 DEF Keeps
<1>3. ASSUME NEW n \in 1 .. Len(keys), n - 1 \in Good PROVE n \in Good
  <2>1. /\ lines[n] = KeyIn(lines[n - 1], keys[n], capacity)
        /\ texts[n] = Typed(texts[n - 1], keys[n])
    BY DEF IsReading
  <2>2. keys[n] \in Key /\ keys[n] \notin {"enter", "cancel"}
    BY <1>1
  <2>3. /\ texts[n] \in Seq(Key)
        /\ Keeps(lines[n], texts[n], capacity)
    BY <1>3, <2>1, <2>2, KeyKeeps
  <2>4. n \in Nat
    BY <1>1
  <2>5. QED
    BY <2>3, <2>4
<1>4. Len(keys) \in Good
  <2> HIDE DEF Good
  <2>1. Good \in SUBSET Nat
    BY DEF Good
  <2>2. 0 .. Len(keys) \subseteq Good
    BY <1>1, <1>2, <1>3, <2>1, CountingUp
  <2>3. QED
    BY <1>1, <2>2
<1>5. QED
  BY <1>4

\* read_console_line returns exactly what was typed, rubouts carried out, if the
\* buffer has room for it and the terminator, and otherwise refuses the line,
\* wherever it was too long on the way; it never has more in the buffer than fits.
THEOREM LinesAreExact ==
  ASSUME NEW Key, NEW keys \in Seq(Key \ {"enter", "cancel"}),
         NEW capacity \in Nat, capacity >= 2,
         NEW lines, NEW texts, IsReading(lines, texts, keys, capacity)
  PROVE  LET line  == KeyIn(lines[Len(keys)], "enter", capacity)
             typed == texts[Len(keys)]
         IN  /\ Len(typed) < capacity => line.result = "ok" /\ line.out = typed
             /\ Len(typed) >= capacity => line.result = "long"
             /\ Len(lines[Len(keys)].out) < capacity
<1> DEFINE before == lines[Len(keys)]
           line   == KeyIn(before, "enter", capacity)
           typed  == texts[Len(keys)]
           room   == IF Len(typed) < capacity THEN Len(typed) ELSE capacity - 1
<1>1. typed \in Seq(Key) /\ Keeps(before, typed, capacity)
  BY ReadingKeeps
<1> HIDE DEF before, typed
<1>2. /\ before = [entered |-> Len(typed), out |-> SubSeq(typed, 1, room), result |-> "open"]
      /\ Len(typed) \in Nat
  BY <1>1, LenProperties DEF Keeps
<1>3. line = [before EXCEPT !.result = IF before.entered >= capacity THEN "long" ELSE "ok"]
  BY <1>2 DEF KeyIn
<1>4. line.out = before.out /\ line.result = IF Len(typed) >= capacity THEN "long" ELSE "ok"
  BY <1>2, <1>3
<1>5. ASSUME Len(typed) < capacity PROVE line.result = "ok" /\ line.out = typed
  <2>1. room = Len(typed) /\ ~(Len(typed) >= capacity)
    BY <1>2, <1>5
  <2>2. before.out = typed
    BY <1>1, <1>2, <2>1, SubSeqFull
  <2>3. QED
    BY <1>4, <2>1, <2>2
<1>6. Len(before.out) < capacity
  <2>1. room \in 0 .. Len(typed) /\ room < capacity
    BY <1>2
  <2>2. \A i \in 1 .. room : typed[i] \in Key
    BY <1>1, <2>1, ElementOfSeq
  <2>3. Len(SubSeq(typed, 1, room)) = IF 1 <= room THEN room - 1 + 1 ELSE 0
    BY <2>1, <2>2, SubSeqProperties
  <2> HIDE DEF room
  <2>4. QED
    BY <1>2, <2>1, <2>3
<1>7. QED
  BY <1>4, <1>5, <1>6 DEF before, typed

\* shells[n] is the shell after n of the bytes.
IsTyping(shells, bytes, size) ==
  /\ shells[0] = EmptyShell
  /\ \A n \in 1 .. Len(bytes) : shells[n] = ShellPush(shells[n - 1], bytes[n], size)

\* After n bytes the shell holds them all, or as many as fit and the mark that it
\* has dropped some.
Holds(sh, bytes, n, size) ==
  IF n < size THEN sh = [buf |-> SubSeq(bytes, 1, n), overflow |-> FALSE, ready |-> FALSE]
  ELSE sh = [buf |-> SubSeq(bytes, 1, size - 1), overflow |-> TRUE, ready |-> FALSE]

\* One byte is stored, or marks the line as cut.
LEMMA PushHolds ==
  ASSUME NEW Byte, NEW bytes \in Seq(Byte), NEW size \in Nat \ {0},
         NEW n \in 1 .. Len(bytes), bytes[n] # "enter",
         NEW sh, Holds(sh, bytes, n - 1, size)
  PROVE  Holds(ShellPush(sh, bytes[n], size), bytes, n, size)
<1>1. /\ Len(bytes) \in Nat /\ \A i \in 1 .. Len(bytes) : bytes[i] \in Byte
      /\ n \in Nat /\ n >= 1 /\ n <= Len(bytes)
  BY LenProperties, ElementOfSeq
<1>2. CASE n <= size
  <2>1. n - 1 < size /\ n - 1 \in 0 .. Len(bytes)
    BY <1>1, <1>2
  <2>2. sh = [buf |-> SubSeq(bytes, 1, n - 1), overflow |-> FALSE, ready |-> FALSE]
    BY <2>1 DEF Holds
  <2>3. Len(sh.buf) = n - 1
    <3>1. \A i \in 1 .. n - 1 : bytes[i] \in Byte
      BY <1>1
    <3>2. Len(SubSeq(bytes, 1, n - 1)) = IF 1 <= n - 1 THEN n - 1 - 1 + 1 ELSE 0
      BY <1>1, <3>1, SubSeqProperties
    <3>3. QED
      BY <1>1, <2>2, <3>2
  <2>4. CASE n < size
    <3>1. sh.overflow = FALSE /\ ~(Len(sh.buf) >= size - 1)
      BY <1>1, <2>2, <2>3, <2>4
    <3>2. ShellPush(sh, bytes[n], size) = [sh EXCEPT !.buf = Append(sh.buf, bytes[n])]
      BY <3>1 DEF ShellPush
    <3>3. Append(SubSeq(bytes, 1, n - 1), bytes[n]) = SubSeq(bytes, 1, n)
      BY PrefixGrows
    <3>4. ShellPush(sh, bytes[n], size) =
            [buf |-> SubSeq(bytes, 1, n), overflow |-> FALSE, ready |-> FALSE]
      BY <2>2, <3>2, <3>3
    <3>5. QED
      BY <2>4, <3>4 DEF Holds
  <2>5. CASE n = size
    <3>1. Len(sh.buf) >= size - 1
      BY <2>3, <2>5
    <3>2. ShellPush(sh, bytes[n], size) = [sh EXCEPT !.overflow = TRUE]
      BY <3>1 DEF ShellPush
    <3>3. ShellPush(sh, bytes[n], size) =
            [buf |-> SubSeq(bytes, 1, size - 1), overflow |-> TRUE, ready |-> FALSE]
      BY <2>2, <2>5, <3>2
    <3>4. ~(n < size)
      BY <2>5
    <3>5. QED
      BY <3>3, <3>4 DEF Holds
  <2>6. QED
    BY <1>1, <1>2, <2>4, <2>5
<1>3. CASE ~(n <= size)
  <2>1. ~(n - 1 < size) /\ ~(n < size)
    BY <1>1, <1>3
  <2>2. sh = [buf |-> SubSeq(bytes, 1, size - 1), overflow |-> TRUE, ready |-> FALSE]
    BY <2>1 DEF Holds
  <2>3. sh.overflow
    BY <2>2
  <2>4. ShellPush(sh, bytes[n], size) = [sh EXCEPT !.overflow = TRUE]
    BY <2>3 DEF ShellPush
  <2>5. ShellPush(sh, bytes[n], size) = sh
    BY <2>2, <2>4
  <2>6. QED
    BY <2>1, <2>2, <2>5 DEF Holds
<1>4. QED
  BY <1>2, <1>3

\* The kernel's shell runs a command only if it is the whole of what was typed:
\* a line that was cut is refused even if what was kept of it is a command.
THEOREM CutLinesAreRefused ==
  ASSUME NEW Byte, NEW bytes \in Seq(Byte \ {"enter"}), NEW size \in Nat \ {0},
         NEW shells, IsTyping(shells, bytes, size), NEW commands
  PROVE  ShellRun(ShellPush(shells[Len(bytes)], "enter", size), commands) =
           IF Len(bytes) >= size THEN "refuse"
           ELSE IF bytes = <<>> THEN "nothing"
           ELSE IF bytes \in commands THEN bytes ELSE "refuse"
<1> DEFINE Good == {n \in Nat : Holds(shells[n], bytes, n, size)}
<1>1. Len(bytes) \in Nat /\ \A n \in 1 .. Len(bytes) : bytes[n] # "enter"
  BY LenProperties, ElementOfSeq
<1>2. 0 \in Good
  <2>1. SubSeq(bytes, 1, 0) = <<>>
    BY SubSeqEmpty
  <2>2. shells[0] = [buf |-> <<>>, overflow |-> FALSE, ready |-> FALSE]
    BY DEF IsTyping, EmptyShell
  <2>3. Holds(shells[0], bytes, 0, size)
    <3>1. 0 < size
      OBVIOUS
    <3>2. QED
      BY <2>1, <2>2, <3>1 DEF Holds
  <2>4. QED
    BY <2>3
<1>3. ASSUME NEW n \in 1 .. Len(bytes), n - 1 \in Good PROVE n \in Good
  <2>1. shells[n] = ShellPush(shells[n - 1], bytes[n], size) /\ bytes[n] # "enter" /\ n \in Nat
    BY <1>1 DEF IsTyping
  <2>2. QED
    BY <1>3, <2>1, PushHolds
<1>4. Len(bytes) \in Good
  <2> HIDE DEF Good
  <2>1. Good \in SUBSET Nat
    BY DEF Good
  <2>2. 0 .. Len(bytes) \subseteq Good
    BY <1>1, <1>2, <1>3, <2>1, CountingUp
  <2>3. QED
    BY <1>1, <2>2
<1> DEFINE sh == shells[Len(bytes)]
           entered == ShellPush(sh, "enter", size)
<1>5. Holds(sh, bytes, Len(bytes), size)
  BY <1>4
<1> HIDE DEF sh, Good
<1>6. entered = [sh EXCEPT !.ready = TRUE]
  BY DEF ShellPush
<1>7. CASE Len(bytes) >= size
  <2>1. entered.overflow
    <3>1. ~(Len(bytes) < size)
      BY <1>1, <1>7
    <3>2. sh = [buf |-> SubSeq(bytes, 1, size - 1), overflow |-> TRUE, ready |-> FALSE]
      BY <1>5, <3>1 DEF Holds
    <3>3. QED
      BY <1>6, <3>2
  <2>2. QED
    BY <1>7, <2>1 DEF ShellRun, sh
<1>8. CASE ~(Len(bytes) >= size)
  <2>1. Len(bytes) < size /\ SubSeq(bytes, 1, Len(bytes)) = bytes
    BY <1>1, <1>8, SubSeqFull
  <2>2. sh = [buf |-> bytes, overflow |-> FALSE, ready |-> FALSE]
    BY <1>5, <2>1 DEF Holds
  <2>3. entered.buf = bytes /\ entered.overflow = FALSE
    BY <1>6, <2>2
  <2>4. QED
    BY <1>8, <2>3 DEF ShellRun, sh
<1>9. QED
  BY <1>7, <1>8

=============================================================================
