------------------------------- MODULE Network -------------------------------
(***************************************************************************)
(* The parts of the firmware a client reaches over the network besides the *)
(* controller: Wi-Fi application, firmware update and the monitor they     *)
(* share, with everything that restarts the board.                         *)
(***************************************************************************)
EXTENDS WifiApp, OtaUpdate

CONSTANT MaxPowerCuts   \* bound: how often power is lost

ASSUME NetworkAssumption == MaxPowerCuts \in Nat

VARIABLES
  powerCuts,
  reason     \* history: why the board last booted

vars == <<monitorVars, wifiVars, otaVars, powerCuts, reason>>

Init ==
  /\ MonitorInit
  /\ WifiInit
  /\ OtaInit
  /\ powerCuts = 0
  /\ reason = "power"

\* app_main and wifi_app_start on what the flash holds
Boot(why) ==
  /\ httpd' = "off"
  /\ queue' = << >>
  /\ wifiStatus' = "none"
  /\ fwStatus' = "pending"
  /\ timer' = FALSE
  /\ app' = <<"start_http_server", "connect_to_sta">>
  /\ poll' = "none"
  /\ sem' = "free"
  /\ loaded' = [t \in Connectors |-> Blank]
  /\ conf' = Blank
  /\ want' = Blank
  /\ \E survivor \in [Kinds -> PairType] :
       /\ \A k \in Kinds, f \in {"ssid", "pwd"} :
            survivor[k][f] \in {store[k][f], flash[k][f]}
       /\ store' = survivor
       /\ flash' = survivor
       /\ apConf' = ApAtBoot(survivor["ap"])
  /\ recast' = FALSE
  /\ target' = Blank
  /\ link' = "down"
  /\ address' = FALSE
  /\ synced' = FALSE
  /\ OtaRestart
  /\ reason' = why
  /\ UNCHANGED <<requests, drops, acked>>

\* Power is lost, or an ESP_ERROR_CHECK of these parts aborts: an NVS call of
\* save_wifi_credentials or load_wifi_credentials, or the driver refuses the
\* station's configuration or the connection
PowerCut ==
  /\ powerCuts < MaxPowerCuts
  /\ powerCuts' = powerCuts + 1
  /\ Boot("power")

\* http_server_fw_update_reset_callback, eight seconds after the timer began
TimerExpires ==
  /\ timer
  /\ Boot("timer")
  /\ UNCHANGED powerCuts

TimerAbort ==
  /\ StartsTwice
  /\ Boot("abort")
  /\ UNCHANGED powerCuts

OfMonitor(A) == A /\ UNCHANGED <<wifiVars, otaVars, powerCuts, reason>>
OfWifi(A) == A /\ UNCHANGED <<otaVars, powerCuts, reason>>
OfOta(A) == A /\ UNCHANGED <<wifiVars, powerCuts, reason>>

Next ==
  \/ OfMonitor(MonitorStep)
  \/ OfWifi(WifiNext)
  \/ OfOta(OtaNext)
  \/ PowerCut
  \/ TimerExpires
  \/ TimerAbort

Spec == Init /\ [][Next]_vars

\* Every task of this part ends its work of a request or message and then
\* blocks, so each gets the processor; a semaphore hands over to its waiters
\* in turn; a receive times out; an association ends; a started timer
\* expires.  Nothing is assumed of clients, networks and power.
Fairness ==
  /\ WF_vars(OfMonitor(MonitorStep))
  /\ WF_vars(OfWifi(AppStep))
  /\ WF_vars(OfWifi(GotIp))
  /\ WF_vars(OfWifi(PollStep))
  /\ WF_vars(OfWifi(WifiHandlerStep))
  /\ SF_vars(OfWifi(TakeSemaphore("httpd")))
  /\ WF_vars(OfOta(UploadEnds))
  /\ WF_vars(OfWifi(DriverStep))
  /\ WF_vars(TimerExpires)

FairSpec == Spec /\ Fairness

-----------------------------------------------------------------------------
(* Properties *)

HandlerLabels ==
  {"off", "idle", "conf_pwd", "sta_ssid", "sta_pwd", "sta_commit",
   "disconnect", "take", "load_ssid", "load_pwd", "fill", "set_ap", "connect",
   "ap_ssid", "ap_pwd", "ap_commit", "ap_set", "ap_refused", "upload"}

\* Every variable has its type.
TypeOK ==
  /\ httpd \in HandlerLabels /\ requests \in 0 .. MaxRequests
  /\ queue \in Seq(Messages) /\ Len(queue) <= MonitorCap
  /\ wifiStatus \in {"none", "connecting", "failed", "success"}
  /\ fwStatus \in {"pending", "successful", "failed"}
  /\ timer \in BOOLEAN
  /\ app \in Seq({"start_http_server", "connect_to_sta", "got_ip"})
  /\ Len(app) <= AppCap
  /\ poll \in {"none", "look", "time", "take", "load_ssid",
                "load_pwd", "fill", "set_ap", "connect"}
  /\ sem \in Connectors \cup {"free"}
  /\ loaded \in [Connectors -> PairType]
  /\ conf \in PairType /\ want \in PairType
  /\ store \in [Kinds -> PairType] /\ flash \in [Kinds -> PairType]
  /\ apConf \in PairType /\ recast \in BOOLEAN /\ target \in PairType
  /\ link \in {"down", "connecting", "up"}
  /\ address \in BOOLEAN /\ synced \in BOOLEAN
  /\ acked \in [Kinds -> PairType]
  /\ drops \in 0 .. MaxDrops /\ powerCuts \in 0 .. MaxPowerCuts
  /\ whole \subseteq Partitions
  /\ boot \in Partitions /\ running \in Partitions
  /\ received \in {"none", "part", "all"}
  /\ verdict \in {"none", "open", "ok", "failed"}
  /\ reason \in {"power", "timer", "abort"}

\* The pair of an answered request is the pair in force until the next
\* request of its kind, through restarts: NVS holds it, the station joins with
\* it, although the poll loads and connects too and both write the one
\* wifi_config, and the access point announces it until connect_to_wifi, of
\* whichever task, sets it to what its ap_config holds.
AnsweredPairInForce ==
  /\ acked["sta"] # Blank =>
       /\ store["sta"] = acked["sta"] /\ flash["sta"] = acked["sta"]
       /\ target \in {acked["sta"], Blank}
  /\ acked["ap"] # Blank =>
       /\ store["ap"] = acked["ap"] /\ flash["ap"] = acked["ap"]
       /\ ~recast => apConf = acked["ap"]

\* The board always runs from a whole image, whatever an upload broke off and
\* whenever power went or the timer restarted it.
RunningIntact == running \in whole

\* After an upload answered with ok, the next restart, whatever its reason,
\* runs the new image, as long as no other upload has begun.
UpdateTakesEffect ==
  verdict = "ok" => boot # running /\ boot \in whole

\* An upload answered with ok is followed by a restart, or by another upload.
UpdateRestarts == verdict = "ok" ~> verdict \in {"none", "open"}

\* The station joins the network of an answered request, after restarts,
\* losses of the network and failed attempts of other tasks alike, unless
\* another request comes.
Reconnects ==
  \A p \in {q \in Pairs : Joinable(q)} :
    acked["sta"] = p ~> acked["sta"] # p \/ link = "up"

\* A connection that lasts is shown to clients as a success.
ConnectionReported ==
  link = "up" ~> link # "up" \/ wifiStatus = "success"

=============================================================================
