------------------------------- MODULE WifiApp -------------------------------
(***************************************************************************)
(* main/wifi_app.c with the two Wi-Fi handlers of main/http_server.c.      *)
(*                                                                         *)
(* Three tasks meet here: the server, which stores credentials and         *)
(* connects; check_sta_connection_state, which does the same with the      *)
(* stored credentials every 20 seconds; and wifi_app_task, which reports   *)
(* an address to the monitor.  A pair is an SSID and a password, the       *)
(* password of a network being right when it carries the network's name.   *)
(* The driver is external: it has a configuration and a link.              *)
(***************************************************************************)
EXTENDS Monitor

CONSTANTS
  Pairs,        \* pairs clients send to /wifiConnect.json, valid or not
  ApPairs,      \* pairs clients send to /api/ap_config
  Refused,      \* those whose lengths the handlers do not accept
  DefaultAp,    \* WIFI_AP_SSID and WIFI_AP_PASSWORD
  ConnectAp,    \* what the ap_config of connect_to_wifi may hold, which the
                \* source names and does not declare
  InRange,      \* names of networks in range
  Unset,        \* no string under this key, no bytes in this field
  AppCap,       \* capacity of wifi_app_queue_handle
  NvsFaults,    \* whether NVS calls of http_server_ap_config_handler may fail
  MaxDrops      \* bound: how often the network goes away

Blank == [ssid |-> Unset, pwd |-> Unset]
Names == {p.ssid : p \in Pairs \cup ApPairs \cup {DefaultAp, Blank}}
Passwords == {p.pwd : p \in Pairs \cup ApPairs \cup {DefaultAp, Blank}}
PairType == [ssid : Names, pwd : Passwords]
Kinds == {"sta", "ap"}
Connectors == {"httpd", "poll"}

ASSUME WifiAssumption ==
  /\ Refused \subseteq Pairs \cup ApPairs
  /\ \A p \in Pairs \cup ApPairs \cup {DefaultAp} :
       p \in PairType /\ p.ssid # Unset /\ p.pwd # Unset
  /\ ConnectAp \subseteq PairType
  /\ AppCap \in Nat /\ AppCap >= 2
  /\ NvsFaults \in BOOLEAN
  /\ MaxDrops \in Nat

VARIABLES
  app,       \* wifi_app_queue_handle
  poll,      \* where check_sta_connection_state is; "none" before it exists
  sem,       \* holder of mySemaphore
  loaded,    \* ssid and password of connect_to_wifi's stack frame
  conf,      \* *wifi_config, shared by all tasks
  want,      \* the request being served
  store,     \* NVS "storage" as nvs_get_str would return it
  flash,     \* NVS "storage" as of the last nvs_commit
  apConf,    \* the access point's configuration in the driver
  recast,    \* history: connect_to_wifi has set it since a pair was answered
  target,    \* the station's configuration in the driver
  link,      \* the station: "down", "connecting", "up"
  address,   \* IP_EVENT_STA_GOT_IP is in the event loop
  synced,    \* time_was_synchronized
  drops,
  acked      \* history: pair of the last request of each kind, Blank until
             \* it is answered with ok

driverVars == <<apConf, recast, target, link, address>>
connVars == <<sem, loaded, conf>>
nvsVars == <<store, flash>>
wifiVars == <<app, poll, connVars, want, nvsVars, driverVars, synced, drops,
              acked>>

\* What a boot makes of the stored strings: wifi_app_soft_ap_config starts
\* from the built-in pair and overwrites each string found in NVS
ApAtBoot(stored) ==
  [f \in {"ssid", "pwd"} |->
     IF stored[f] = Unset THEN DefaultAp[f] ELSE stored[f]]

WifiInit ==
  /\ app = <<"start_http_server", "connect_to_sta">>
  /\ poll = "none"
  /\ sem = "free"
  /\ loaded = [t \in Connectors |-> Blank]
  /\ conf = Blank
  /\ want = Blank
  /\ store = [k \in Kinds |-> Blank]
  /\ flash = store
  /\ apConf = DefaultAp
  /\ recast = FALSE
  /\ target = Blank
  /\ link = "down"
  /\ address = FALSE
  /\ synced = FALSE
  /\ drops = 0
  /\ acked = [k \in Kinds |-> Blank]

-----------------------------------------------------------------------------
(* wifi_app_task: its first two messages are its own. *)

StartHttpServer ==
  /\ app # << >> /\ Head(app) = "start_http_server"
  /\ app' = Tail(app)
  /\ httpd' = "idle"
  /\ UNCHANGED <<requests, queue, statusVars, poll, connVars, want, nvsVars, driverVars,
                 synced, drops, acked>>

ConnectToSta ==
  /\ app # << >> /\ Head(app) = "connect_to_sta"
  /\ app' = Tail(app)
  /\ poll' = "look"
  /\ UNCHANGED <<monitorVars, connVars, want, nvsVars, driverVars, synced,
                 drops, acked>>

\* Mutant: the colour is shown, the monitor is not told
ShowAddressOnly ==
  /\ app # << >> /\ Head(app) = "got_ip"
  /\ app' = Tail(app)
  /\ UNCHANGED <<monitorVars, poll, connVars, want, nvsVars, driverVars,
                 synced, drops, acked>>

ReportAddress ==
  /\ app # << >> /\ Head(app) = "got_ip"
  /\ app' = Tail(app)
  /\ Post("connect_success")
  /\ UNCHANGED <<requests, httpd, statusVars, poll, connVars, want, nvsVars, driverVars,
                 synced, drops, acked>>

AppStep == StartHttpServer \/ ConnectToSta \/ ReportAddress

\* wifi_app_event_handler runs in the event loop's task, waits for room in
\* the queue, and acts on nothing but an address
GotIp ==
  /\ address
  /\ Len(app) < AppCap
  /\ app' = Append(app, "got_ip")
  /\ address' = FALSE
  /\ UNCHANGED <<monitorVars, poll, connVars, want, nvsVars, apConf, recast, target,
                 link, synced, drops, acked>>

-----------------------------------------------------------------------------
(* connect_to_wifi, called by both tasks. *)

At(t, label) == IF t = "httpd" THEN httpd = label ELSE poll = label

Goto(t, label) ==
  IF t = "httpd"
  THEN httpd' = label /\ UNCHANGED poll
  ELSE poll' = label /\ UNCHANGED httpd

\* Mutant: the semaphore is not waited for
TakeAlways(t) == At(t, "take")

MayTake(t) == At(t, "take") /\ sem = "free"

TakeSemaphore(t) ==
  /\ MayTake(t)
  /\ sem' = t
  /\ Goto(t, "load_ssid")
  /\ UNCHANGED <<requests, queue, statusVars, app, loaded, conf, want, nvsVars,
                 driverVars, synced, drops, acked>>

\* load_wifi_credentials: two NVS calls, and NVS may change in between
LoadField(t, here, f, next) ==
  /\ At(t, here)
  /\ loaded' = [loaded EXCEPT ![t][f] = store["sta"][f]]
  /\ Goto(t, next)
  /\ UNCHANGED <<requests, queue, statusVars, app, sem, conf, want, nvsVars, driverVars,
                 synced, drops, acked>>

FillConf(t) ==
  /\ At(t, "fill")
  /\ conf' = loaded[t]
  /\ Goto(t, "set_ap")
  /\ UNCHANGED <<requests, queue, statusVars, app, sem, loaded, want, nvsVars,
                 driverVars, synced, drops, acked>>

\* esp_wifi_set_config of the access point, whose result nobody looks at
ConnectSetsAp(t) ==
  /\ At(t, "set_ap")
  /\ \/ apConf' \in ConnectAp /\ recast' = (acked["ap"] # Blank)
     \/ UNCHANGED <<apConf, recast>>
  /\ Goto(t, "connect")
  /\ UNCHANGED <<requests, queue, statusVars, app, connVars, want, nvsVars, target, link,
                 address, synced, drops, acked>>

\* wifi_app_connect_sta, the end of connect_to_wifi, and for the server the
\* answer
ConnectSta(t) ==
  /\ At(t, "connect")
  /\ target' = conf
  /\ link' = "connecting"
  /\ sem' = "free"
  /\ loaded' = [loaded EXCEPT ![t] = Blank]
  /\ Goto(t, IF t = "httpd" THEN "idle" ELSE "look")
  /\ IF t = "httpd"
     THEN acked' = [acked EXCEPT !["sta"] = want] /\ want' = Blank
     ELSE UNCHANGED <<acked, want>>
  /\ UNCHANGED <<requests, queue, statusVars, app, conf, nvsVars, apConf, recast,
                 address, synced, drops>>

Connect(t) ==
  \/ TakeSemaphore(t)
  \/ LoadField(t, "load_ssid", "ssid", "load_pwd")
  \/ LoadField(t, "load_pwd", "pwd", "fill")
  \/ FillConf(t)
  \/ ConnectSetsAp(t)
  \/ ConnectSta(t)

-----------------------------------------------------------------------------
(* check_sta_connection_state *)

\* Mutant: the keys of the access point instead of the station's
ApCredentialsExist == store["ap"].ssid # Unset /\ store["ap"].pwd # Unset

\* nvs_credentials_exist looks for both keys
CredentialsExist == store["sta"].ssid # Unset /\ store["sta"].pwd # Unset

\* Once every 20 seconds: vTaskDelay is part of the way to "look"
PollLook ==
  /\ poll = "look"
  /\ poll' = IF link = "up"
             THEN IF synced THEN "look" ELSE "time"
             ELSE IF CredentialsExist THEN "take" ELSE "look"
  /\ UNCHANGED <<monitorVars, app, connVars, want, nvsVars, driverVars, synced,
                 drops, acked>>

\* obtain_time gives up after nine looks at the clock
ObtainTime ==
  /\ poll = "time"
  /\ synced' \in {TRUE, synced}
  /\ poll' = "look"
  /\ UNCHANGED <<monitorVars, app, connVars, want, nvsVars, driverVars, drops,
                 acked>>

PollStep == PollLook \/ ObtainTime \/ Connect("poll")

-----------------------------------------------------------------------------
(* The handlers of /wifiConnect.json and /api/ap_config. *)

\* The shared configuration is written without the semaphore, field by field
WifiConnectRequest(p) ==
  /\ p \notin Refused
  /\ Serve("conf_pwd")
  /\ want' = p
  /\ conf' = [Blank EXCEPT !.ssid = p.ssid]
  /\ acked' = [acked EXCEPT !["sta"] = Blank]
  /\ UNCHANGED <<queue, statusVars, app, poll, sem, loaded, nvsVars,
                 driverVars, synced, drops>>

ConfPassword ==
  /\ httpd = "conf_pwd"
  /\ conf' = [conf EXCEPT !.pwd = want.pwd]
  /\ httpd' = "sta_ssid"
  /\ UNCHANGED <<requests, queue, statusVars, app, poll, sem, loaded, want, nvsVars,
                 driverVars, synced, drops, acked>>

ApConfigRequest(p) ==
  /\ p \notin Refused
  /\ Serve("ap_ssid")
  /\ want' = p
  /\ acked' = [acked EXCEPT !["ap"] = Blank]
  /\ UNCHANGED <<queue, statusVars, app, poll, connVars, nvsVars, driverVars,
                 synced, drops>>

\* nvs_set_str of one key, in save_wifi_credentials or the ap_config handler
StoreField(here, k, f, next) ==
  /\ httpd = here
  /\ store' = [store EXCEPT ![k][f] = want[f]]
  /\ httpd' = next
  /\ UNCHANGED <<requests, queue, statusVars, app, poll, connVars, want, flash,
                 driverVars, synced, drops, acked>>

CommitStore(here, next) ==
  /\ httpd = here
  /\ flash' = store
  /\ httpd' = next
  /\ UNCHANGED <<requests, queue, statusVars, app, poll, connVars, want, store,
                 driverVars, synced, drops, acked>>

\* An NVS error of the ap_config handler; one of save_wifi_credentials aborts
\* the program, which is a restart
ApStoreFails ==
  /\ NvsFaults
  /\ httpd \in {"ap_ssid", "ap_pwd", "ap_commit"}
  /\ httpd' = "ap_refused"
  /\ UNCHANGED <<requests, queue, statusVars, app, poll, connVars, want, nvsVars,
                 driverVars, synced, drops, acked>>

\* The access point changes even when the pair could not be stored; the answer
\* is ok when neither NVS nor the driver has failed
ApSetConfig ==
  /\ httpd \in {"ap_set", "ap_refused"}
  /\ apConf' = want
  /\ recast' = FALSE
  /\ acked' = [acked EXCEPT !["ap"] = IF httpd = "ap_set" THEN want ELSE Blank]
  /\ want' = Blank
  /\ httpd' = "idle"
  /\ UNCHANGED <<requests, queue, statusVars, app, poll, connVars, nvsVars, target, link,
                 address, synced, drops>>

\* The driver refuses the configuration: wifi_err
ApSetConfigFails ==
  /\ httpd \in {"ap_set", "ap_refused"}
  /\ want' = Blank
  /\ httpd' = "idle"
  /\ UNCHANGED <<requests, queue, statusVars, app, poll, connVars, nvsVars, driverVars,
                 synced, drops, acked>>

\* The status clients poll, then esp_wifi_disconnect
Disconnect ==
  /\ httpd = "disconnect"
  /\ wifiStatus' = "connecting"
  /\ link' = "down"
  /\ httpd' = "take"
  /\ UNCHANGED <<requests, queue, fwStatus, timer, app, poll, connVars, want, nvsVars,
                 apConf, recast, target, address, synced, drops, acked>>

WifiHandlerStep ==
  \/ ConfPassword
  \/ StoreField("sta_ssid", "sta", "ssid", "sta_pwd")
  \/ StoreField("sta_pwd", "sta", "pwd", "sta_commit")
  \/ CommitStore("sta_commit", "disconnect")
  \/ Disconnect
  \/ Connect("httpd")
  \/ StoreField("ap_ssid", "ap", "ssid", "ap_pwd")
  \/ StoreField("ap_pwd", "ap", "pwd", "ap_commit")
  \/ CommitStore("ap_commit", "ap_set")
  \/ ApStoreFails
  \/ ApSetConfig
  \/ ApSetConfigFails

-----------------------------------------------------------------------------
(* The driver and the air. *)

Joinable(p) == p.ssid \in InRange /\ p.pwd = p.ssid

\* Joining a network and getting an address takes seconds, in which the
\* reports of the last address get through
Reported == ~address /\ app = << >> /\ queue = << >>

Associate ==
  /\ link = "connecting" /\ Joinable(target) /\ Reported
  /\ link' = "up"
  /\ address' = TRUE
  /\ UNCHANGED <<monitorVars, app, poll, connVars, want, nvsVars, apConf,
                 recast, target, synced, drops, acked>>

\* WIFI_EVENT_STA_DISCONNECTED, which the event handler ignores
AssociationFails ==
  /\ link = "connecting" /\ ~Joinable(target)
  /\ link' = "down"
  /\ UNCHANGED <<monitorVars, app, poll, connVars, want, nvsVars, apConf,
                 recast, target, address, synced, drops, acked>>

LinkLost ==
  /\ link # "down" /\ drops < MaxDrops
  /\ link' = "down"
  /\ drops' = drops + 1
  /\ UNCHANGED <<monitorVars, app, poll, connVars, want, nvsVars, apConf,
                 recast, target, address, synced, acked>>

DriverStep == Associate \/ AssociationFails

WifiNext ==
  \/ AppStep
  \/ GotIp
  \/ PollStep
  \/ \E p \in Pairs : WifiConnectRequest(p)
  \/ \E p \in ApPairs : ApConfigRequest(p)
  \/ WifiHandlerStep
  \/ DriverStep
  \/ LinkLost

=============================================================================
