------------------------------ MODULE OtaUpdate ------------------------------
(***************************************************************************)
(* http_server_OTA_update_handler of main/http_server.c: a firmware image  *)
(* is written chunk by chunk into the partition that is not running, then  *)
(* verified and made the one to boot from.  The app_update library and the *)
(* bootloader are external: a partition holds a whole image or it does     *)
(* not, and a board whose boot partition is broken runs the other one.     *)
(***************************************************************************)
EXTENDS Monitor

CONSTANTS
  FlashErrors   \* whether esp_ota_begin, write and set_boot may fail

\* ota_0 and ota_1 of partitions_two_ota.csv
Partitions == {0, 1}
Other(p) == 1 - p

ASSUME OtaAssumption == FlashErrors \in BOOLEAN

VARIABLES
  whole,     \* partitions that hold a complete, valid image
  boot,      \* the partition otadata selects
  running,   \* the partition this boot runs from
  received,  \* how much of the image the handler has written: "none",
             \* "part", "all" (more than one chunk makes no difference)
  verdict    \* history: how the last upload of this boot ended: "none",
             \* "ok", "failed", or "open" while it lasts

otaVars == <<whole, boot, running, received, verdict>>

OtaInit ==
  /\ running = 0
  /\ boot = running
  /\ whole = {running}
  /\ received = "none"
  /\ verdict = "none"

\* Mutant: the partition after the selected one, not after the running one
AfterBoot == Other(boot)

\* Mutant: no wrap-around after the last partition
NoWrap == running + 1

\* esp_ota_get_next_update_partition(NULL)
UpdatePartition == Other(running)

Uploading == httpd = "upload"

\* content_length is positive and there are two app partitions
UploadBegins ==
  /\ Serve("upload")
  /\ received' = "none"
  /\ verdict' = "open"
  /\ UNCHANGED <<queue, statusVars, whole, boot, running>>

\* The first chunk has a multipart header; esp_ota_begin erases the partition
FirstChunk ==
  /\ Uploading /\ received = "none"
  /\ whole' = whole \ {UpdatePartition}
  /\ received' \in {"part", "all"}
  /\ UNCHANGED <<monitorVars, boot, running, verdict>>

NextChunk ==
  /\ Uploading /\ received = "part"
  /\ received' \in {"part", "all"}
  /\ UNCHANGED <<monitorVars, whole, boot, running, verdict>>

\* httpd_req_recv fails, or the first chunk has no end of header
UploadFails ==
  /\ Uploading /\ received # "all"
  /\ httpd' = "idle"
  /\ verdict' = "failed"
  /\ Post("ota_failed")
  /\ UNCHANGED <<requests, statusVars, whole, boot, running, received>>

\* ESP_RETURN_ON_ERROR: the handler returns without a message; a failing
\* esp_ota_begin may have erased the partition
WriteFails ==
  /\ FlashErrors
  /\ Uploading /\ received # "all"
  /\ whole' \in {whole, whole \ {UpdatePartition}}
  /\ httpd' = "idle"
  /\ verdict' = "failed"
  /\ UNCHANGED <<requests, queue, statusVars, boot, running, received>>

\* Mutant: the partition is selected although esp_ota_end has refused it
EndIgnored(intact) == received # "none"

\* esp_ota_end accepts a whole image only
Accepted(intact) == received = "all" /\ intact

\* The loop is left: all is received, or the peer closed the connection, or
\* a receive timed out (the continue of the do-while tests its condition).
\* What was sent may be no firmware image at all.
UploadEnds ==
  /\ Uploading
  /\ \E intact \in BOOLEAN, selected \in {TRUE, ~FlashErrors} :
       LET good == Accepted(intact)
       IN  /\ whole' = IF received = "all" /\ intact
                       THEN whole \cup {UpdatePartition} ELSE whole
           /\ boot' = IF good /\ selected THEN UpdatePartition ELSE boot
           /\ verdict' = IF good /\ selected THEN "ok" ELSE "failed"
           /\ Post(IF good /\ selected THEN "ota_successful" ELSE "ota_failed")
  /\ httpd' = "idle"
  /\ UNCHANGED <<requests, statusVars, running, received>>

OtaHandlerStep ==
  \/ FirstChunk
  \/ NextChunk
  \/ UploadFails
  \/ WriteFails
  \/ UploadEnds

OtaNext == UploadBegins \/ OtaHandlerStep

\* The bootloader runs the selected partition, or the other if that is broken
OtaRestart ==
  /\ running' = IF boot \in whole THEN boot ELSE Other(boot)
  /\ received' = "none"
  /\ verdict' = "none"
  /\ UNCHANGED <<whole, boot>>

=============================================================================
