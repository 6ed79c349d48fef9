------------------------------ MODULE Firmware ------------------------------
(***************************************************************************)
(* The parts of the firmware beside its service manager (Supervisor).      *)
(* They share no variable: a command of one does not change another's      *)
(* state, and where they meet (a scan request is a message, an update needs *)
(* Wi-Fi) the one's model leaves the other's answer open.  So a session    *)
(* exercises one part, and every behaviour of a part is one of a session.  *)
(***************************************************************************)
EXTENDS Bus, WifiControl, NvsConfig, RemoteOta, Download

VARIABLE session

partVars == <<busVars, wifiVars, nvsVars, otaVars, httpVars>>
vars     == <<session, partVars>>

\* A part the session leaves alone starts in one of its initial states.
Init ==
  /\ session \in {"bus", "wifi", "config", "ota", "download"}
  /\ BusInit /\ WifiInit /\ NvsInit /\ OtaInit /\ DownloadInit
  /\ session # "ota" => image[0] = 0
  /\ session # "download" => http.expected_length = 0

WifiConsole ==
  /\ session = "wifi" /\ ConsoleStep
  /\ UNCHANGED <<session, busVars, nvsVars, otaVars, httpVars>>

Next ==
  /\ \/ /\ session = "bus" /\ BusNext
        /\ UNCHANGED <<wifiVars, nvsVars, otaVars, httpVars>>
     \/ /\ session = "wifi" /\ WifiNext
        /\ UNCHANGED <<busVars, nvsVars, otaVars, httpVars>>
     \/ /\ session = "config" /\ NvsNext
        /\ UNCHANGED <<busVars, wifiVars, otaVars, httpVars>>
     \/ /\ session = "ota" /\ OtaNext
        /\ UNCHANGED <<busVars, wifiVars, nvsVars, httpVars>>
     \/ /\ session = "download" /\ DownloadNext
        /\ UNCHANGED <<busVars, wifiVars, nvsVars, otaVars>>
  /\ UNCHANGED session

\* The waits of a console command have time-outs, driver calls return, and the
\* tasks of higher priority block: the command goes on.
Spec == Init /\ [][Next]_vars /\ WF_vars(WifiConsole)

\* The state of every part holds what its C types may.
TypeOK == BusType /\ WifiType /\ NvsType /\ OtaType /\ DownloadType

=============================================================================
