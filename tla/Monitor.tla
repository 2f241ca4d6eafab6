------------------------------- MODULE Monitor -------------------------------
(***************************************************************************)
(* The monitor of main/http_server.c: a task of priority 3 that turns      *)
(* messages of other tasks into the two status values clients ask for, and *)
(* restarts the board some time after a successful firmware update.        *)
(* esp_http_server serves one request at a time; httpd says which part of  *)
(* which handler it is in.                                                 *)
(***************************************************************************)
EXTENDS Naturals, Sequences

CONSTANTS
  MonitorCap,   \* capacity of http_server_monitor_queue_handle
  MaxRequests   \* bound: how many requests clients send

ASSUME MonitorAssumption ==
  MonitorCap \in Nat \ {0} /\ MaxRequests \in Nat

Messages == {"connect_init", "connect_success", "connect_fail",
             "ota_successful", "ota_failed"}

VARIABLES
  requests,     \* how many have come
  httpd,        \* the handler the server task is in, and where; "off" before
                \* http_server_start
  queue,        \* http_server_monitor_queue_handle
  wifiStatus,   \* g_wifi_connect_status
  fwStatus,     \* g_fw_update_status
  timer         \* fw_update_reset has been started

statusVars == <<wifiStatus, fwStatus, timer>>
monitorVars == <<requests, httpd, queue, statusVars>>

MonitorInit ==
  /\ requests = 0
  /\ httpd = "off"
  /\ queue = << >>
  /\ wifiStatus = "none"
  /\ fwStatus = "pending"
  /\ timer = FALSE

\* esp_http_server calls the handler of a request
Serve(label) ==
  /\ httpd = "idle" /\ requests < MaxRequests
  /\ requests' = requests + 1
  /\ httpd' = label

\* http_server_monitor_send_message: after 100 ms of a full queue the message
\* is dropped, and no caller looks at the result
Post(m) ==
  queue' = IF Len(queue) < MonitorCap THEN Append(queue, m) ELSE queue

Receive(m) ==
  /\ queue # << >> /\ Head(queue) = m
  /\ queue' = Tail(queue)
  /\ UNCHANGED <<requests, httpd>>

ReceiveWifi ==
  /\ \/ Receive("connect_init") /\ wifiStatus' = "connecting"
     \/ Receive("connect_success") /\ wifiStatus' = "success"
     \/ Receive("connect_fail") /\ wifiStatus' = "failed"
  /\ UNCHANGED <<fwStatus, timer>>

\* Mutant: success is shown but the restart is not scheduled
ReceiveOtaOnly ==
  /\ \/ /\ Receive("ota_successful")
        /\ fwStatus' = "successful"
     \/ /\ Receive("ota_failed")
        /\ fwStatus' = "failed"
  /\ UNCHANGED <<wifiStatus, timer>>

ReceiveOta ==
  /\ \/ /\ Receive("ota_successful") /\ ~timer
        /\ fwStatus' = "successful"
        /\ timer' = TRUE
     \/ /\ Receive("ota_failed")
        /\ fwStatus' = "failed"
        /\ UNCHANGED timer
  /\ UNCHANGED wifiStatus

MonitorStep == ReceiveWifi \/ ReceiveOta

\* esp_timer_start_once refuses a timer that is running, and ESP_ERROR_CHECK
\* aborts the program: the board restarts at once
StartsTwice == queue # << >> /\ Head(queue) = "ota_successful" /\ timer

=============================================================================
