---------------------------- MODULE NetworkProofs ----------------------------
(* Theorems about Network, for any pairs and queues, and any number of       *)
(* requests, losses of the network and power cuts: types; the board runs     *)
(* whole images and updates take effect; the pair of an answered request is  *)
(* in force until the next one.                                              *)
EXTENDS Network, TLAPS

-----------------------------------------------------------------------------
(* The firmware update *)

\* The partition that runs is never erased, and a verdict of ok comes with a
\* whole image in the selected partition, which no upload touches since.
OtaInv ==
  /\ whole \subseteq Partitions /\ boot \in Partitions /\ running \in Partitions
  /\ received \in {"none", "part", "all"}
  /\ verdict \in {"none", "open", "ok", "failed"}
  /\ running \in whole
  /\ verdict = "ok" => boot # running /\ boot \in whole /\ httpd # "upload"

LEMMA OtaInvMonitor ==
  ASSUME OtaInv, MonitorStep, UNCHANGED <<wifiVars, otaVars>>
  PROVE  OtaInv'
BY DEF OtaInv, Partitions, Other, UpdatePartition, monitorVars, statusVars,
    wifiVars, connVars, nvsVars, driverVars, otaVars, MonitorStep,
    ReceiveWifi, Receive, ReceiveOta

LEMMA OtaInvWifi ==
  ASSUME OtaInv, WifiNext, UNCHANGED otaVars
  PROVE  OtaInv'
BY ZenonT(30) DEF OtaInv, Partitions, Other, UpdatePartition, monitorVars, statusVars,
    wifiVars, connVars, nvsVars, driverVars, otaVars, WifiNext, AppStep,
    PollStep, Connect, WifiHandlerStep, DriverStep, Connectors,
    StartHttpServer, ConnectToSta, ReportAddress, Post, GotIp, PollLook,
    ObtainTime, TakeSemaphore, MayTake, At, Goto, LoadField, FillConf,
    ConnectSetsAp, ConnectSta, WifiConnectRequest, Serve, ApConfigRequest,
    ConfPassword, StoreField, CommitStore, Disconnect, ApStoreFails, ApSetConfig,
    ApSetConfigFails, Associate, AssociationFails, LinkLost

LEMMA OtaInvOta ==
  ASSUME OtaInv, OtaNext, UNCHANGED wifiVars
  PROVE  OtaInv'
<1> USE DEF OtaInv, Partitions, Other, UpdatePartition,
           monitorVars, statusVars, wifiVars, connVars,
           nvsVars, driverVars, otaVars
<1>1. CASE UploadBegins
  BY <1>1 DEF UploadBegins, Serve
<1>2. CASE FirstChunk
  BY <1>2 DEF FirstChunk, Uploading
<1>3. CASE NextChunk
  BY <1>3 DEF NextChunk, Uploading
<1>4. CASE UploadFails
  BY <1>4 DEF UploadFails, Uploading, Post
<1>5. CASE WriteFails
  BY <1>5 DEF WriteFails, Uploading
<1>6. CASE UploadEnds
  BY <1>6 DEF UploadEnds, Uploading, Accepted, Post
<1>7. QED
  BY <1>1, <1>2, <1>3, <1>4, <1>5, <1>6
  DEF OtaNext, OtaHandlerStep

LEMMA OtaInvBoot ==
  ASSUME OtaInv, NEW why, Boot(why)
  PROVE  OtaInv'
BY DEF OtaInv, Partitions, Other, Boot, OtaRestart

-----------------------------------------------------------------------------
(* Pairs *)

PairsTyped ==
  /\ loaded \in [Connectors -> PairType]
  /\ conf \in PairType /\ want \in PairType
  /\ store \in [Kinds -> PairType] /\ flash \in [Kinds -> PairType]
  /\ apConf \in PairType /\ target \in PairType
  /\ acked \in [Kinds -> PairType]

Fields == {"ssid", "pwd"}

\* The two fields make the pair.
LEMMA SameFields ==
  ASSUME NEW p \in PairType, NEW q \in PairType, p.ssid = q.ssid, p.pwd = q.pwd
  PROVE  p = q
BY DEF PairType

\* Every pair a client sends is one, and so is what the code makes of pairs.
LEMMA PairsAreTyped ==
  /\ Blank \in PairType /\ DefaultAp \in PairType
  /\ \A p \in Pairs \cup ApPairs : p \in PairType
  /\ \A p \in Pairs : [Blank EXCEPT !.ssid = p.ssid] \in PairType
  /\ \A p, q \in PairType : [p EXCEPT !.pwd = q.pwd] \in PairType
BY WifiAssumption DEF Blank, PairType, Names, Passwords

\* A boot configures the access point with a pair.
LEMMA ApAtBootTyped ==
  ASSUME NEW p \in PairType
  PROVE  ApAtBoot(p) \in PairType
BY PairsAreTyped DEF ApAtBoot, PairType

\* load_wifi_credentials changes one field of one task's frame.
LEMMA FieldLoaded ==
  ASSUME PairsTyped, NEW t \in Connectors, NEW f \in Fields,
         NEW here, NEW next, LoadField(t, here, f, next)
  PROVE  /\ loaded' \in [Connectors -> PairType]
         /\ loaded'[t][f] = store["sta"][f]
         /\ \A g \in Fields \ {f} : loaded'[t][g] = loaded[t][g]
         /\ \A j \in Connectors \ {t} : loaded'[j] = loaded[j]
<1>1. loaded' = [loaded EXCEPT ![t][f] = store["sta"][f]]
  BY DEF LoadField
<1>2. loaded \in [Connectors -> PairType] /\ store["sta"] \in PairType
  BY DEF PairsTyped, Kinds
<1>3. \A j \in Connectors \ {t} : loaded'[j] = loaded[j]
  BY <1>1, <1>2
<1>4. PICK p \in PairType : p = loaded[t]
  BY <1>2
<1>5. PICK q \in PairType : q = store["sta"]
  BY <1>2
<1>6. PICK r : r = loaded'[t]
  OBVIOUS
<1>7. r = [p EXCEPT ![f] = q[f]]
  BY <1>1, <1>2, <1>4, <1>5, <1>6
<1>8. r \in PairType /\ r[f] = q[f] /\ \A g \in Fields \ {f} : r[g] = p[g]
  <2>1. CASE f = "ssid"
    BY <1>7, <2>1 DEF PairType, Fields
  <2>2. CASE f = "pwd"
    BY <1>7, <2>2 DEF PairType, Fields
  <2>3. QED
    BY <2>1, <2>2 DEF Fields
<1>9. loaded' \in [Connectors -> PairType]
  <2>1. /\ DOMAIN loaded' = Connectors
        /\ loaded' = [j \in Connectors |-> loaded'[j]]
    BY <1>1, <1>2
  <2>2. QED
    BY <1>2, <1>3, <1>6, <1>8, <2>1
<1>10. QED
  BY <1>3, <1>4, <1>5, <1>6, <1>8, <1>9

\* nvs_set_str changes one field of one pair.
LEMMA FieldStored ==
  ASSUME PairsTyped, NEW k \in Kinds, NEW f \in Fields,
         NEW here, NEW next, StoreField(here, k, f, next)
  PROVE  /\ store' \in [Kinds -> PairType]
         /\ store'[k][f] = want[f]
         /\ \A g \in Fields \ {f} : store'[k][g] = store[k][g]
         /\ \A j \in Kinds \ {k} : store'[j] = store[j]
<1>1. store' = [store EXCEPT ![k][f] = want[f]]
  BY DEF StoreField
<1>2. store \in [Kinds -> PairType] /\ want \in PairType
  BY DEF PairsTyped, Kinds
<1>3. \A j \in Kinds \ {k} : store'[j] = store[j]
  BY <1>1, <1>2
<1>4. PICK p \in PairType : p = store[k]
  BY <1>2
<1>5. PICK q \in PairType : q = want
  BY <1>2
<1>6. PICK r : r = store'[k]
  OBVIOUS
<1>7. r = [p EXCEPT ![f] = q[f]]
  BY <1>1, <1>2, <1>4, <1>5, <1>6
<1>8. r \in PairType /\ r[f] = q[f] /\ \A g \in Fields \ {f} : r[g] = p[g]
  <2>1. CASE f = "ssid"
    BY <1>7, <2>1 DEF PairType, Fields
  <2>2. CASE f = "pwd"
    BY <1>7, <2>2 DEF PairType, Fields
  <2>3. QED
    BY <2>1, <2>2 DEF Fields
<1>9. store' \in [Kinds -> PairType]
  <2>1. DOMAIN store' = Kinds /\ store' = [j \in Kinds |-> store'[j]]
    BY <1>1, <1>2
  <2>2. QED
    BY <1>2, <1>3, <1>6, <1>8, <2>1
<1>10. QED
  BY <1>3, <1>4, <1>5, <1>6, <1>8, <1>9

LEMMA PairsTypedMonitor ==
  ASSUME PairsTyped, MonitorStep, UNCHANGED <<wifiVars, otaVars>>
  PROVE  PairsTyped'
BY PairsAreTyped
  DEF PairsTyped, Connectors, Kinds, monitorVars, statusVars, wifiVars,
      connVars, nvsVars, driverVars, otaVars, MonitorStep, ReceiveWifi,
      Receive, ReceiveOta

LEMMA PairsTypedWifi ==
  ASSUME PairsTyped, WifiNext, UNCHANGED otaVars
  PROVE  PairsTyped'
<1> USE PairsAreTyped DEF PairsTyped, Connectors, Kinds,
           monitorVars, statusVars, wifiVars, connVars,
           nvsVars, driverVars, otaVars
<1>1. CASE StartHttpServer
  BY <1>1 DEF StartHttpServer
<1>2. CASE ConnectToSta
  BY <1>2 DEF ConnectToSta
<1>3. CASE ReportAddress
  BY <1>3 DEF ReportAddress, Post
<1>4. CASE GotIp
  BY <1>4 DEF GotIp
<1>5. CASE PollLook
  BY <1>5 DEF PollLook
<1>6. CASE ObtainTime
  BY <1>6 DEF ObtainTime
<1>7. ASSUME NEW t \in Connectors, TakeSemaphore(t)
      PROVE  PairsTyped'
  BY <1>7 DEF TakeSemaphore, MayTake, At, Goto
<1>8. ASSUME NEW t \in Connectors,
             LoadField(t, "load_ssid", "ssid", "load_pwd")
      PROVE  PairsTyped'
  <2>1. /\ loaded' \in [Connectors -> PairType]
        /\ loaded'[t]["ssid"] = store["sta"]["ssid"]
        /\ \A g \in Fields \ {"ssid"} : loaded'[t][g] = loaded[t][g]
        /\ \A j \in Connectors \ {t} : loaded'[j] = loaded[j]
    BY <1>8, FieldLoaded DEF Fields
  <2>2. /\ UNCHANGED <<conf, want, store, flash, apConf, target, acked>>
        /\ At(t, "load_ssid") /\ Goto(t, "load_pwd") /\ UNCHANGED sem
    BY <1>8 DEF LoadField
  <2>3. \A p \in PairType :
          loaded'[t].ssid = p.ssid /\ loaded'[t].pwd = p.pwd => loaded'[t] = p
    BY <2>1, SameFields
  <2>4. QED
    BY <2>1, <2>2, <2>3
<1>9. ASSUME NEW t \in Connectors,
             LoadField(t, "load_pwd", "pwd", "fill")
      PROVE  PairsTyped'
  <2>1. /\ loaded' \in [Connectors -> PairType]
        /\ loaded'[t]["pwd"] = store["sta"]["pwd"]
        /\ \A g \in Fields \ {"pwd"} : loaded'[t][g] = loaded[t][g]
        /\ \A j \in Connectors \ {t} : loaded'[j] = loaded[j]
    BY <1>9, FieldLoaded DEF Fields
  <2>2. /\ UNCHANGED <<conf, want, store, flash, apConf, target, acked>>
        /\ At(t, "load_pwd") /\ Goto(t, "fill") /\ UNCHANGED sem
    BY <1>9 DEF LoadField
  <2>3. \A p \in PairType :
          loaded'[t].ssid = p.ssid /\ loaded'[t].pwd = p.pwd => loaded'[t] = p
    BY <2>1, SameFields
  <2>4. QED
    BY <2>1, <2>2, <2>3
<1>10. ASSUME NEW t \in Connectors, FillConf(t)
      PROVE  PairsTyped'
  BY <1>10 DEF FillConf, At, Goto
<1>10a. ASSUME NEW t \in Connectors, ConnectSetsAp(t)
      PROVE  PairsTyped'
  BY <1>10a, WifiAssumption DEF ConnectSetsAp, At, Goto
<1>11. ASSUME NEW t \in Connectors, ConnectSta(t)
      PROVE  PairsTyped'
  BY <1>11 DEF ConnectSta, At, Goto
<1>12. ASSUME NEW p \in Pairs, WifiConnectRequest(p)
      PROVE  PairsTyped'
  BY <1>12 DEF WifiConnectRequest, Serve
<1>13. ASSUME NEW p \in ApPairs, ApConfigRequest(p)
      PROVE  PairsTyped'
  BY <1>13 DEF ApConfigRequest, Serve
<1>14. CASE ConfPassword
  BY <1>14 DEF ConfPassword
<1>15. CASE StoreField("sta_ssid", "sta", "ssid", "sta_pwd")
  <2>1. /\ store' \in [Kinds -> PairType]
        /\ store'["sta"]["ssid"] = want["ssid"]
        /\ \A g \in Fields \ {"ssid"} : store'["sta"][g] = store["sta"][g]
        /\ \A j \in Kinds \ {"sta"} : store'[j] = store[j]
    BY <1>15, FieldStored DEF Fields, Kinds
  <2>2. /\ UNCHANGED <<loaded, conf, want, flash, apConf, target, acked>>
        /\ httpd = "sta_ssid" /\ httpd' = "sta_pwd" /\ UNCHANGED <<poll, sem>>
    BY <1>15 DEF StoreField
  <2>3. \A p \in PairType :
          store'["sta"].ssid = p.ssid /\ store'["sta"].pwd = p.pwd =>
            store'["sta"] = p
    BY <2>1, SameFields DEF Kinds
  <2>4. QED
    BY <2>1, <2>2, <2>3
<1>16. CASE StoreField("sta_pwd", "sta", "pwd", "sta_commit")
  <2>1. /\ store' \in [Kinds -> PairType]
        /\ store'["sta"]["pwd"] = want["pwd"]
        /\ \A g \in Fields \ {"pwd"} : store'["sta"][g] = store["sta"][g]
        /\ \A j \in Kinds \ {"sta"} : store'[j] = store[j]
    BY <1>16, FieldStored DEF Fields, Kinds
  <2>2. /\ UNCHANGED <<loaded, conf, want, flash, apConf, target, acked>>
        /\ httpd = "sta_pwd" /\ httpd' = "sta_commit" /\ UNCHANGED <<poll, sem>>
    BY <1>16 DEF StoreField
  <2>3. \A p \in PairType :
          store'["sta"].ssid = p.ssid /\ store'["sta"].pwd = p.pwd =>
            store'["sta"] = p
    BY <2>1, SameFields DEF Kinds
  <2>4. QED
    BY <2>1, <2>2, <2>3
<1>17. CASE CommitStore("sta_commit", "disconnect")
  BY <1>17 DEF CommitStore
<1>18. CASE Disconnect
  BY <1>18 DEF Disconnect
<1>19. CASE StoreField("ap_ssid", "ap", "ssid", "ap_pwd")
  <2>1. /\ store' \in [Kinds -> PairType]
        /\ store'["ap"]["ssid"] = want["ssid"]
        /\ \A g \in Fields \ {"ssid"} : store'["ap"][g] = store["ap"][g]
        /\ \A j \in Kinds \ {"ap"} : store'[j] = store[j]
    BY <1>19, FieldStored DEF Fields, Kinds
  <2>2. /\ UNCHANGED <<loaded, conf, want, flash, apConf, target, acked>>
        /\ httpd = "ap_ssid" /\ httpd' = "ap_pwd" /\ UNCHANGED <<poll, sem>>
    BY <1>19 DEF StoreField
  <2>3. \A p \in PairType :
          store'["ap"].ssid = p.ssid /\ store'["ap"].pwd = p.pwd =>
            store'["ap"] = p
    BY <2>1, SameFields DEF Kinds
  <2>4. QED
    BY <2>1, <2>2, <2>3
<1>20. CASE StoreField("ap_pwd", "ap", "pwd", "ap_commit")
  <2>1. /\ store' \in [Kinds -> PairType]
        /\ store'["ap"]["pwd"] = want["pwd"]
        /\ \A g \in Fields \ {"pwd"} : store'["ap"][g] = store["ap"][g]
        /\ \A j \in Kinds \ {"ap"} : store'[j] = store[j]
    BY <1>20, FieldStored DEF Fields, Kinds
  <2>2. /\ UNCHANGED <<loaded, conf, want, flash, apConf, target, acked>>
        /\ httpd = "ap_pwd" /\ httpd' = "ap_commit" /\ UNCHANGED <<poll, sem>>
    BY <1>20 DEF StoreField
  <2>3. \A p \in PairType :
          store'["ap"].ssid = p.ssid /\ store'["ap"].pwd = p.pwd =>
            store'["ap"] = p
    BY <2>1, SameFields DEF Kinds
  <2>4. QED
    BY <2>1, <2>2, <2>3
<1>21. CASE CommitStore("ap_commit", "ap_set")
  BY <1>21 DEF CommitStore
<1>22. CASE ApStoreFails
  BY <1>22 DEF ApStoreFails
<1>23. CASE ApSetConfig
  BY <1>23 DEF ApSetConfig
<1>23a. CASE ApSetConfigFails
  BY <1>23a DEF ApSetConfigFails
<1>24. CASE Associate
  BY <1>24 DEF Associate
<1>25. CASE AssociationFails
  BY <1>25 DEF AssociationFails
<1>26. CASE LinkLost
  BY <1>26 DEF LinkLost
<1>27. QED
  BY <1>1, <1>2, <1>3, <1>4, <1>5, <1>6, <1>7, <1>8, <1>9, <1>10, <1>10a, <1>11,
     <1>12, <1>13, <1>14, <1>15, <1>16, <1>17, <1>18, <1>19, <1>20, <1>21,
     <1>22, <1>23, <1>23a, <1>24, <1>25, <1>26
  DEF WifiNext, AppStep, PollStep, Connect, WifiHandlerStep, DriverStep,
      Connectors

LEMMA PairsTypedOta ==
  ASSUME PairsTyped, OtaNext, UNCHANGED wifiVars
  PROVE  PairsTyped'
BY PairsAreTyped
  DEF PairsTyped, Connectors, Kinds, monitorVars, statusVars, wifiVars,
      connVars, nvsVars, driverVars, otaVars, OtaNext, OtaHandlerStep,
      UploadBegins, Serve, FirstChunk, Uploading, NextChunk, UploadFails,
      Post, WriteFails, UploadEnds, Accepted

LEMMA PairsTypedBoot ==
  ASSUME PairsTyped, NEW why, Boot(why)
  PROVE  PairsTyped'
BY PairsAreTyped, ApAtBootTyped DEF PairsTyped, Kinds, Boot

-----------------------------------------------------------------------------
(* The other variables *)

LabelsTyped ==
  /\ httpd \in HandlerLabels
  /\ poll \in {"none", "look", "time", "take", "load_ssid",
                "load_pwd", "fill", "set_ap", "connect"}
  /\ sem \in Connectors \cup {"free"}
  /\ link \in {"down", "connecting", "up"}
  /\ wifiStatus \in {"none", "connecting", "failed", "success"}
  /\ fwStatus \in {"pending", "successful", "failed"}

FlagsTyped ==
  timer \in BOOLEAN /\ recast \in BOOLEAN /\ address \in BOOLEAN /\ synced \in BOOLEAN

AppMessages == {"start_http_server", "connect_to_sta", "got_ip"}

QueuesTyped ==
  /\ queue \in Seq(Messages) /\ Len(queue) <= MonitorCap
  /\ app \in Seq(AppMessages) /\ Len(app) <= AppCap

CountsTyped == requests \in 0 .. MaxRequests /\ drops \in 0 .. MaxDrops

LEMMA LabelsTypedMonitor ==
  ASSUME LabelsTyped, MonitorStep, UNCHANGED <<wifiVars, otaVars>>
  PROVE  LabelsTyped'
<1> USE DEF LabelsTyped, HandlerLabels, Connectors,
           monitorVars, statusVars, wifiVars, connVars,
           nvsVars, driverVars, otaVars
<1>1. CASE ReceiveWifi
  BY <1>1 DEF ReceiveWifi, Receive
<1>2. CASE ReceiveOta
  BY <1>2 DEF ReceiveOta, Receive
<1>3. QED
  BY <1>1, <1>2
  DEF MonitorStep

LEMMA LabelsTypedWifi ==
  ASSUME LabelsTyped, WifiNext, UNCHANGED otaVars
  PROVE  LabelsTyped'
<1> USE DEF LabelsTyped, HandlerLabels, Connectors,
           monitorVars, statusVars, wifiVars, connVars,
           nvsVars, driverVars, otaVars
<1>1. CASE StartHttpServer
  BY <1>1 DEF StartHttpServer
<1>2. CASE ConnectToSta
  BY <1>2 DEF ConnectToSta
<1>3. CASE ReportAddress
  BY <1>3 DEF ReportAddress, Post
<1>4. CASE GotIp
  BY <1>4 DEF GotIp
<1>5. CASE PollLook
  BY <1>5 DEF PollLook
<1>6. CASE ObtainTime
  BY <1>6 DEF ObtainTime
<1>7. ASSUME NEW t \in Connectors, TakeSemaphore(t)
      PROVE  LabelsTyped'
  BY <1>7 DEF TakeSemaphore, MayTake, At, Goto
<1>8. ASSUME NEW t \in Connectors,
             LoadField(t, "load_ssid", "ssid", "load_pwd")
      PROVE  LabelsTyped'
  BY <1>8 DEF LoadField, At, Goto
<1>9. ASSUME NEW t \in Connectors,
             LoadField(t, "load_pwd", "pwd", "fill")
      PROVE  LabelsTyped'
  BY <1>9 DEF LoadField, At, Goto
<1>10. ASSUME NEW t \in Connectors, FillConf(t)
      PROVE  LabelsTyped'
  BY <1>10 DEF FillConf, At, Goto
<1>10a. ASSUME NEW t \in Connectors, ConnectSetsAp(t)
      PROVE  LabelsTyped'
  BY <1>10a DEF ConnectSetsAp, At, Goto
<1>11. ASSUME NEW t \in Connectors, ConnectSta(t)
      PROVE  LabelsTyped'
  BY <1>11 DEF ConnectSta, At, Goto
<1>12. ASSUME NEW p \in Pairs, WifiConnectRequest(p)
      PROVE  LabelsTyped'
  BY <1>12 DEF WifiConnectRequest, Serve
<1>13. ASSUME NEW p \in ApPairs, ApConfigRequest(p)
      PROVE  LabelsTyped'
  BY <1>13 DEF ApConfigRequest, Serve
<1>14. CASE ConfPassword
  BY <1>14 DEF ConfPassword
<1>15. CASE StoreField("sta_ssid", "sta", "ssid", "sta_pwd")
  BY <1>15 DEF StoreField
<1>16. CASE StoreField("sta_pwd", "sta", "pwd", "sta_commit")
  BY <1>16 DEF StoreField
<1>17. CASE CommitStore("sta_commit", "disconnect")
  BY <1>17 DEF CommitStore
<1>18. CASE Disconnect
  BY <1>18 DEF Disconnect
<1>19. CASE StoreField("ap_ssid", "ap", "ssid", "ap_pwd")
  BY <1>19 DEF StoreField
<1>20. CASE StoreField("ap_pwd", "ap", "pwd", "ap_commit")
  BY <1>20 DEF StoreField
<1>21. CASE CommitStore("ap_commit", "ap_set")
  BY <1>21 DEF CommitStore
<1>22. CASE ApStoreFails
  BY <1>22 DEF ApStoreFails
<1>23. CASE ApSetConfig
  BY <1>23 DEF ApSetConfig
<1>23a. CASE ApSetConfigFails
  BY <1>23a DEF ApSetConfigFails
<1>24. CASE Associate
  BY <1>24 DEF Associate
<1>25. CASE AssociationFails
  BY <1>25 DEF AssociationFails
<1>26. CASE LinkLost
  BY <1>26 DEF LinkLost
<1>27. QED
  BY <1>1, <1>2, <1>3, <1>4, <1>5, <1>6, <1>7, <1>8, <1>9, <1>10, <1>10a, <1>11,
     <1>12, <1>13, <1>14, <1>15, <1>16, <1>17, <1>18, <1>19, <1>20, <1>21,
     <1>22, <1>23, <1>23a, <1>24, <1>25, <1>26
  DEF WifiNext, AppStep, PollStep, Connect, WifiHandlerStep, DriverStep,
      Connectors

LEMMA LabelsTypedOta ==
  ASSUME LabelsTyped, OtaNext, UNCHANGED wifiVars
  PROVE  LabelsTyped'
<1> USE DEF LabelsTyped, HandlerLabels, Connectors,
           monitorVars, statusVars, wifiVars, connVars,
           nvsVars, driverVars, otaVars
<1>1. CASE UploadBegins
  BY <1>1 DEF UploadBegins, Serve
<1>2. CASE FirstChunk
  BY <1>2 DEF FirstChunk, Uploading
<1>3. CASE NextChunk
  BY <1>3 DEF NextChunk, Uploading
<1>4. CASE UploadFails
  BY <1>4 DEF UploadFails, Uploading, Post
<1>5. CASE WriteFails
  BY <1>5 DEF WriteFails, Uploading
<1>6. CASE UploadEnds
  BY <1>6 DEF UploadEnds, Uploading, Accepted, Post
<1>7. QED
  BY <1>1, <1>2, <1>3, <1>4, <1>5, <1>6
  DEF OtaNext, OtaHandlerStep

LEMMA LabelsTypedBoot ==
  ASSUME LabelsTyped, NEW why, Boot(why)
  PROVE  LabelsTyped'
BY DEF LabelsTyped, HandlerLabels, Boot

LEMMA FlagsTypedMonitor ==
  ASSUME FlagsTyped, MonitorStep, UNCHANGED <<wifiVars, otaVars>>
  PROVE  FlagsTyped'
BY DEF FlagsTyped, monitorVars, statusVars, wifiVars, connVars, nvsVars,
    driverVars, otaVars, MonitorStep, ReceiveWifi, Receive, ReceiveOta

LEMMA FlagsTypedWifi ==
  ASSUME FlagsTyped, WifiNext, UNCHANGED otaVars
  PROVE  FlagsTyped'
BY DEF FlagsTyped, monitorVars, statusVars, wifiVars, connVars, nvsVars,
    driverVars, otaVars, WifiNext, AppStep, PollStep, Connect,
    WifiHandlerStep, DriverStep, Connectors, StartHttpServer, ConnectToSta,
    ReportAddress, GotIp, PollLook, ObtainTime, TakeSemaphore, MayTake,
    LoadField, FillConf, ConnectSetsAp, ConnectSta, WifiConnectRequest, Serve,
    ApConfigRequest, ConfPassword, StoreField, CommitStore, Disconnect,
    ApStoreFails, ApSetConfig, ApSetConfigFails, Associate, AssociationFails, LinkLost

LEMMA FlagsTypedOta ==
  ASSUME FlagsTyped, OtaNext, UNCHANGED wifiVars
  PROVE  FlagsTyped'
BY DEF FlagsTyped, monitorVars, statusVars, wifiVars, connVars, nvsVars,
    driverVars, otaVars, OtaNext, OtaHandlerStep, UploadBegins, Serve,
    FirstChunk, Uploading, NextChunk, UploadFails, WriteFails, UploadEnds,
    Accepted

LEMMA FlagsTypedBoot ==
  ASSUME FlagsTyped, NEW why, Boot(why)
  PROVE  FlagsTyped'
BY DEF FlagsTyped, Boot

\* Sending and receiving keep a queue a queue.
LEMMA Posted ==
  ASSUME QueuesTyped, NEW m \in Messages, Post(m)
  PROVE  queue' \in Seq(Messages) /\ Len(queue') <= MonitorCap
BY MonitorAssumption DEF QueuesTyped, Post

LEMMA Received ==
  ASSUME QueuesTyped, NEW m, Receive(m)
  PROVE  queue' \in Seq(Messages) /\ Len(queue') <= MonitorCap
BY MonitorAssumption DEF QueuesTyped, Receive

LEMMA AppReceived ==
  ASSUME QueuesTyped, app # << >>, app' = Tail(app)
  PROVE  app' \in Seq(AppMessages) /\ Len(app') <= AppCap
BY WifiAssumption DEF QueuesTyped

LEMMA QueuesTypedMonitor ==
  ASSUME QueuesTyped, MonitorStep, UNCHANGED <<wifiVars, otaVars>>
  PROVE  QueuesTyped'
<1> USE DEF QueuesTyped,
           monitorVars, statusVars, wifiVars, connVars,
           nvsVars, driverVars, otaVars
<1>1. CASE ReceiveWifi
  <2>1. \E m \in Messages : Receive(m)
    BY <1>1 DEF ReceiveWifi, Messages
  <2>2. UNCHANGED app
    OBVIOUS
  <2>3. QED
    BY <2>1, <2>2, Received
<1>2. CASE ReceiveOta
  <2>1. \E m \in Messages : Receive(m)
    BY <1>2 DEF ReceiveOta, Messages
  <2>2. UNCHANGED app
    OBVIOUS
  <2>3. QED
    BY <2>1, <2>2, Received
<1>3. QED
  BY <1>1, <1>2
  DEF MonitorStep

LEMMA QueuesTypedWifi ==
  ASSUME QueuesTyped, WifiNext, UNCHANGED otaVars
  PROVE  QueuesTyped'
<1> USE DEF QueuesTyped,
           monitorVars, statusVars, wifiVars, connVars,
           nvsVars, driverVars, otaVars
<1>1. CASE StartHttpServer
  BY <1>1, AppReceived DEF StartHttpServer
<1>2. CASE ConnectToSta
  BY <1>2, AppReceived DEF ConnectToSta
<1>3. CASE ReportAddress
  <2>1. app' \in Seq(AppMessages) /\ Len(app') <= AppCap
    BY <1>3, AppReceived DEF ReportAddress
  <2>2. Post("connect_success")
    BY <1>3 DEF ReportAddress
  <2>3. QED
    BY <2>1, <2>2, Posted DEF Messages
<1>4. CASE GotIp
  <2>1. "got_ip" \in AppMessages
    BY DEF AppMessages
  <2>2. app' \in Seq(AppMessages) /\ Len(app') <= AppCap
    BY <1>4, <2>1, WifiAssumption DEF GotIp
  <2>3. QED
    BY <1>4, <2>2 DEF GotIp
<1>5. CASE PollLook
  BY <1>5 DEF PollLook
<1>6. CASE ObtainTime
  BY <1>6 DEF ObtainTime
<1>7. ASSUME NEW t \in Connectors, TakeSemaphore(t)
      PROVE  QueuesTyped'
  BY <1>7 DEF TakeSemaphore, MayTake
<1>8. ASSUME NEW t \in Connectors,
             LoadField(t, "load_ssid", "ssid", "load_pwd")
      PROVE  QueuesTyped'
  BY <1>8 DEF LoadField
<1>9. ASSUME NEW t \in Connectors,
             LoadField(t, "load_pwd", "pwd", "fill")
      PROVE  QueuesTyped'
  BY <1>9 DEF LoadField
<1>10. ASSUME NEW t \in Connectors, FillConf(t)
      PROVE  QueuesTyped'
  BY <1>10 DEF FillConf
<1>10a. ASSUME NEW t \in Connectors, ConnectSetsAp(t)
      PROVE  QueuesTyped'
  BY <1>10a DEF ConnectSetsAp
<1>11. ASSUME NEW t \in Connectors, ConnectSta(t)
      PROVE  QueuesTyped'
  BY <1>11 DEF ConnectSta
<1>12. ASSUME NEW p \in Pairs, WifiConnectRequest(p)
      PROVE  QueuesTyped'
  BY <1>12 DEF WifiConnectRequest, Serve
<1>13. ASSUME NEW p \in ApPairs, ApConfigRequest(p)
      PROVE  QueuesTyped'
  BY <1>13 DEF ApConfigRequest, Serve
<1>14. CASE ConfPassword
  BY <1>14 DEF ConfPassword
<1>15. CASE StoreField("sta_ssid", "sta", "ssid", "sta_pwd")
  BY <1>15 DEF StoreField
<1>16. CASE StoreField("sta_pwd", "sta", "pwd", "sta_commit")
  BY <1>16 DEF StoreField
<1>17. CASE CommitStore("sta_commit", "disconnect")
  BY <1>17 DEF CommitStore
<1>18. CASE Disconnect
  BY <1>18 DEF Disconnect
<1>19. CASE StoreField("ap_ssid", "ap", "ssid", "ap_pwd")
  BY <1>19 DEF StoreField
<1>20. CASE StoreField("ap_pwd", "ap", "pwd", "ap_commit")
  BY <1>20 DEF StoreField
<1>21. CASE CommitStore("ap_commit", "ap_set")
  BY <1>21 DEF CommitStore
<1>22. CASE ApStoreFails
  BY <1>22 DEF ApStoreFails
<1>23. CASE ApSetConfig
  BY <1>23 DEF ApSetConfig
<1>23a. CASE ApSetConfigFails
  BY <1>23a DEF ApSetConfigFails
<1>24. CASE Associate
  BY <1>24 DEF Associate
<1>25. CASE AssociationFails
  BY <1>25 DEF AssociationFails
<1>26. CASE LinkLost
  BY <1>26 DEF LinkLost
<1>27. QED
  BY <1>1, <1>2, <1>3, <1>4, <1>5, <1>6, <1>7, <1>8, <1>9, <1>10, <1>10a, <1>11,
     <1>12, <1>13, <1>14, <1>15, <1>16, <1>17, <1>18, <1>19, <1>20, <1>21,
     <1>22, <1>23, <1>23a, <1>24, <1>25, <1>26
  DEF WifiNext, AppStep, PollStep, Connect, WifiHandlerStep, DriverStep,
      Connectors

LEMMA QueuesTypedOta ==
  ASSUME QueuesTyped, OtaNext, UNCHANGED wifiVars
  PROVE  QueuesTyped'
<1> USE DEF QueuesTyped,
           monitorVars, statusVars, wifiVars, connVars,
           nvsVars, driverVars, otaVars
<1>1. CASE UploadBegins
  BY <1>1 DEF UploadBegins, Serve
<1>2. CASE FirstChunk
  BY <1>2 DEF FirstChunk, Uploading
<1>3. CASE NextChunk
  BY <1>3 DEF NextChunk, Uploading
<1>4. CASE UploadFails
  <2>1. Post("ota_failed") /\ UNCHANGED app
    BY <1>4 DEF UploadFails
  <2>2. QED
    BY <2>1, Posted DEF Messages
<1>5. CASE WriteFails
  BY <1>5 DEF WriteFails, Uploading
<1>6. CASE UploadEnds
  <2>1. (\E m \in Messages : Post(m)) /\ UNCHANGED app
    BY <1>6 DEF UploadEnds, Messages
  <2>2. QED
    BY <2>1, Posted
<1>7. QED
  BY <1>1, <1>2, <1>3, <1>4, <1>5, <1>6
  DEF OtaNext, OtaHandlerStep

LEMMA QueuesTypedBoot ==
  ASSUME QueuesTyped, NEW why, Boot(why)
  PROVE  QueuesTyped'
<1>1. <<>> \in Seq(Messages)
  OBVIOUS
<1>2. <<"start_http_server", "connect_to_sta">> \in Seq(AppMessages)
  BY DEF AppMessages
<1>3. QED
  BY <1>1, <1>2, MonitorAssumption, WifiAssumption DEF QueuesTyped, Boot

LEMMA CountsTypedMonitor ==
  ASSUME CountsTyped, MonitorStep, UNCHANGED <<wifiVars, otaVars>>
  PROVE  CountsTyped'
BY MonitorAssumption, WifiAssumption
  DEF CountsTyped, monitorVars, statusVars, wifiVars, connVars, nvsVars,
      driverVars, otaVars, MonitorStep, ReceiveWifi, Receive, ReceiveOta

LEMMA CountsTypedWifi ==
  ASSUME CountsTyped, WifiNext, UNCHANGED otaVars
  PROVE  CountsTyped'
<1> USE MonitorAssumption, WifiAssumption DEF CountsTyped,
           monitorVars, statusVars, wifiVars, connVars,
           nvsVars, driverVars, otaVars
<1>1. CASE StartHttpServer
  BY <1>1 DEF StartHttpServer
<1>2. CASE ConnectToSta
  BY <1>2 DEF ConnectToSta
<1>3. CASE ReportAddress
  BY <1>3 DEF ReportAddress
<1>4. CASE GotIp
  BY <1>4 DEF GotIp
<1>5. CASE PollLook
  BY <1>5 DEF PollLook
<1>6. CASE ObtainTime
  BY <1>6 DEF ObtainTime
<1>7. ASSUME NEW t \in Connectors, TakeSemaphore(t)
      PROVE  CountsTyped'
  BY <1>7 DEF TakeSemaphore, MayTake
<1>8. ASSUME NEW t \in Connectors,
             LoadField(t, "load_ssid", "ssid", "load_pwd")
      PROVE  CountsTyped'
  BY <1>8 DEF LoadField
<1>9. ASSUME NEW t \in Connectors,
             LoadField(t, "load_pwd", "pwd", "fill")
      PROVE  CountsTyped'
  BY <1>9 DEF LoadField
<1>10. ASSUME NEW t \in Connectors, FillConf(t)
      PROVE  CountsTyped'
  BY <1>10 DEF FillConf
<1>10a. ASSUME NEW t \in Connectors, ConnectSetsAp(t)
      PROVE  CountsTyped'
  BY <1>10a DEF ConnectSetsAp
<1>11. ASSUME NEW t \in Connectors, ConnectSta(t)
      PROVE  CountsTyped'
  BY <1>11 DEF ConnectSta
<1>12. ASSUME NEW p \in Pairs, WifiConnectRequest(p)
      PROVE  CountsTyped'
  BY <1>12 DEF WifiConnectRequest, Serve
<1>13. ASSUME NEW p \in ApPairs, ApConfigRequest(p)
      PROVE  CountsTyped'
  BY <1>13 DEF ApConfigRequest, Serve
<1>14. CASE ConfPassword
  BY <1>14 DEF ConfPassword
<1>15. CASE StoreField("sta_ssid", "sta", "ssid", "sta_pwd")
  BY <1>15 DEF StoreField
<1>16. CASE StoreField("sta_pwd", "sta", "pwd", "sta_commit")
  BY <1>16 DEF StoreField
<1>17. CASE CommitStore("sta_commit", "disconnect")
  BY <1>17 DEF CommitStore
<1>18. CASE Disconnect
  BY <1>18 DEF Disconnect
<1>19. CASE StoreField("ap_ssid", "ap", "ssid", "ap_pwd")
  BY <1>19 DEF StoreField
<1>20. CASE StoreField("ap_pwd", "ap", "pwd", "ap_commit")
  BY <1>20 DEF StoreField
<1>21. CASE CommitStore("ap_commit", "ap_set")
  BY <1>21 DEF CommitStore
<1>22. CASE ApStoreFails
  BY <1>22 DEF ApStoreFails
<1>23. CASE ApSetConfig
  BY <1>23 DEF ApSetConfig
<1>23a. CASE ApSetConfigFails
  BY <1>23a DEF ApSetConfigFails
<1>24. CASE Associate
  BY <1>24 DEF Associate
<1>25. CASE AssociationFails
  BY <1>25 DEF AssociationFails
<1>26. CASE LinkLost
  BY <1>26 DEF LinkLost
<1>27. QED
  BY <1>1, <1>2, <1>3, <1>4, <1>5, <1>6, <1>7, <1>8, <1>9, <1>10, <1>10a, <1>11,
     <1>12, <1>13, <1>14, <1>15, <1>16, <1>17, <1>18, <1>19, <1>20, <1>21,
     <1>22, <1>23, <1>23a, <1>24, <1>25, <1>26
  DEF WifiNext, AppStep, PollStep, Connect, WifiHandlerStep, DriverStep,
      Connectors

LEMMA CountsTypedOta ==
  ASSUME CountsTyped, OtaNext, UNCHANGED wifiVars
  PROVE  CountsTyped'
BY MonitorAssumption, WifiAssumption
  DEF CountsTyped, monitorVars, statusVars, wifiVars, connVars, nvsVars,
      driverVars, otaVars, OtaNext, OtaHandlerStep, UploadBegins, Serve,
      FirstChunk, Uploading, NextChunk, UploadFails, WriteFails, UploadEnds,
      Accepted

LEMMA CountsTypedBoot ==
  ASSUME CountsTyped, NEW why, Boot(why)
  PROVE  CountsTyped'
BY DEF CountsTyped, Boot

-----------------------------------------------------------------------------
(* Requests and their pairs *)

HeldLabels == {"load_ssid", "load_pwd", "fill", "set_ap", "connect"}

\* connect_to_wifi runs from its load to its connection with the semaphore.
SemInv ==
  /\ httpd \in HeldLabels <=> sem = "httpd"
  /\ poll \in HeldLabels <=> sem = "poll"

StaLabels ==
  {"conf_pwd", "sta_ssid", "sta_pwd", "sta_commit", "disconnect", "take"}
    \cup HeldLabels

\* How far a request for the station has come.
StaServed ==
  httpd \in StaLabels =>
    /\ acked["sta"] = Blank
    /\ httpd = "sta_pwd" => store["sta"].ssid = want.ssid
    /\ httpd = "sta_commit" => store["sta"] = want
    /\ httpd \in {"disconnect", "take"} \cup HeldLabels =>
         store["sta"] = want /\ flash["sta"] = want
    /\ httpd = "load_pwd" => loaded["httpd"].ssid = want.ssid
    /\ httpd = "fill" => loaded["httpd"] = want
    /\ httpd \in {"set_ap", "connect"} => conf = want

\* Once it is answered, the poll loads and joins with the same pair.
StaAnswered ==
  acked["sta"] # Blank =>
    /\ httpd \notin StaLabels
    /\ store["sta"] = acked["sta"] /\ flash["sta"] = acked["sta"]
    /\ target \in {acked["sta"], Blank}
    /\ poll = "load_pwd" => loaded["poll"].ssid = acked["sta"].ssid
    /\ poll = "fill" => loaded["poll"] = acked["sta"]
    /\ poll \in {"set_ap", "connect"} => conf = acked["sta"]

StaInv == SemInv /\ StaServed /\ StaAnswered

ApLabels == {"ap_ssid", "ap_pwd", "ap_commit", "ap_set", "ap_refused"}

Given(p) == p.ssid # Unset /\ p.pwd # Unset

\* How far a request for the access point has come.
ApServed ==
  httpd \in ApLabels =>
    /\ acked["ap"] = Blank
    /\ Given(want)
    /\ httpd = "ap_pwd" => store["ap"].ssid = want.ssid
    /\ httpd = "ap_commit" => store["ap"] = want
    /\ httpd = "ap_set" => store["ap"] = want /\ flash["ap"] = want

\* A boot finds both strings in NVS, so it does not take the built-in ones.
ApAnswered ==
  acked["ap"] # Blank =>
    /\ httpd \notin ApLabels
    /\ Given(acked["ap"])
    /\ store["ap"] = acked["ap"] /\ flash["ap"] = acked["ap"]
    /\ ~recast => apConf = acked["ap"]

ApInv == ApServed /\ ApAnswered

\* wifi_app_task starts the server and the poll once, as its first two messages.
StartInv ==
  \A i \in 1 .. Len(app) :
    /\ app[i] = "start_http_server" => i = 1 /\ httpd = "off"
    /\ app[i] = "connect_to_sta" =>
         poll = "none" /\ (i = 1 \/ (i = 2 /\ app[1] = "start_http_server"))

LEMMA StartInvMonitor ==
  ASSUME QueuesTyped, StartInv, MonitorStep, UNCHANGED <<wifiVars, otaVars>>
  PROVE  StartInv'
BY DEF StartInv, QueuesTyped, monitorVars, statusVars, wifiVars, connVars,
    nvsVars, driverVars, otaVars, MonitorStep, ReceiveWifi, Receive,
    ReceiveOta

LEMMA StartInvWifi ==
  ASSUME QueuesTyped, StartInv, WifiNext, UNCHANGED otaVars
  PROVE  StartInv'
<1> USE DEF StartInv, QueuesTyped,
           monitorVars, statusVars, wifiVars, connVars,
           nvsVars, driverVars, otaVars
<1>1. CASE StartHttpServer
  BY <1>1 DEF StartHttpServer
<1>2. CASE ConnectToSta
  BY <1>2 DEF ConnectToSta
<1>3. CASE ReportAddress
  BY <1>3 DEF ReportAddress
<1>4. CASE GotIp
  BY <1>4 DEF GotIp
<1>5. CASE PollLook
  BY <1>5 DEF PollLook
<1>6. CASE ObtainTime
  BY <1>6 DEF ObtainTime
<1>7. ASSUME NEW t \in Connectors, TakeSemaphore(t)
      PROVE  StartInv'
  BY <1>7 DEF TakeSemaphore, MayTake, At, Goto
<1>8. ASSUME NEW t \in Connectors,
             LoadField(t, "load_ssid", "ssid", "load_pwd")
      PROVE  StartInv'
  BY <1>8 DEF LoadField, At, Goto
<1>9. ASSUME NEW t \in Connectors,
             LoadField(t, "load_pwd", "pwd", "fill")
      PROVE  StartInv'
  BY <1>9 DEF LoadField, At, Goto
<1>10. ASSUME NEW t \in Connectors, FillConf(t)
      PROVE  StartInv'
  BY <1>10 DEF FillConf, At, Goto
<1>10a. ASSUME NEW t \in Connectors, ConnectSetsAp(t)
      PROVE  StartInv'
  BY <1>10a DEF ConnectSetsAp, At, Goto
<1>11. ASSUME NEW t \in Connectors, ConnectSta(t)
      PROVE  StartInv'
  BY <1>11 DEF ConnectSta, At, Goto
<1>12. ASSUME NEW p \in Pairs, WifiConnectRequest(p)
      PROVE  StartInv'
  BY <1>12 DEF WifiConnectRequest, Serve
<1>13. ASSUME NEW p \in ApPairs, ApConfigRequest(p)
      PROVE  StartInv'
  BY <1>13 DEF ApConfigRequest, Serve
<1>14. CASE ConfPassword
  BY <1>14 DEF ConfPassword
<1>15. CASE StoreField("sta_ssid", "sta", "ssid", "sta_pwd")
  BY <1>15 DEF StoreField
<1>16. CASE StoreField("sta_pwd", "sta", "pwd", "sta_commit")
  BY <1>16 DEF StoreField
<1>17. CASE CommitStore("sta_commit", "disconnect")
  BY <1>17 DEF CommitStore
<1>18. CASE Disconnect
  BY <1>18 DEF Disconnect
<1>19. CASE StoreField("ap_ssid", "ap", "ssid", "ap_pwd")
  BY <1>19 DEF StoreField
<1>20. CASE StoreField("ap_pwd", "ap", "pwd", "ap_commit")
  BY <1>20 DEF StoreField
<1>21. CASE CommitStore("ap_commit", "ap_set")
  BY <1>21 DEF CommitStore
<1>22. CASE ApStoreFails
  BY <1>22 DEF ApStoreFails
<1>23. CASE ApSetConfig
  BY <1>23 DEF ApSetConfig
<1>23a. CASE ApSetConfigFails
  BY <1>23a DEF ApSetConfigFails
<1>24. CASE Associate
  BY <1>24 DEF Associate
<1>25. CASE AssociationFails
  BY <1>25 DEF AssociationFails
<1>26. CASE LinkLost
  BY <1>26 DEF LinkLost
<1>27. QED
  BY <1>1, <1>2, <1>3, <1>4, <1>5, <1>6, <1>7, <1>8, <1>9, <1>10, <1>10a, <1>11,
     <1>12, <1>13, <1>14, <1>15, <1>16, <1>17, <1>18, <1>19, <1>20, <1>21,
     <1>22, <1>23, <1>23a, <1>24, <1>25, <1>26
  DEF WifiNext, AppStep, PollStep, Connect, WifiHandlerStep, DriverStep,
      Connectors

LEMMA StartInvOta ==
  ASSUME QueuesTyped, StartInv, OtaNext, UNCHANGED wifiVars
  PROVE  StartInv'
BY DEF StartInv, QueuesTyped, monitorVars, statusVars, wifiVars, connVars,
    nvsVars, driverVars, otaVars, OtaNext, OtaHandlerStep, UploadBegins,
    Serve, FirstChunk, Uploading, NextChunk, UploadFails, WriteFails,
    UploadEnds, Accepted

LEMMA StartInvBoot ==
  ASSUME StartInv, NEW why, Boot(why)
  PROVE  StartInv'
BY DEF StartInv, Boot

LEMMA StaInvMonitor ==
  ASSUME PairsTyped, QueuesTyped, StartInv, StaInv, MonitorStep,
         UNCHANGED <<wifiVars, otaVars>>
  PROVE  StaInv'
BY DEF StaInv, SemInv, StaServed, StaAnswered, StaLabels, HeldLabels,
    PairsTyped, Connectors, Kinds, monitorVars, statusVars, wifiVars,
    connVars, nvsVars, driverVars, otaVars, MonitorStep, ReceiveWifi, Receive,
    ReceiveOta

LEMMA StaInvWifi ==
  ASSUME PairsTyped, QueuesTyped, StartInv, StaInv, WifiNext, UNCHANGED otaVars
  PROVE  StaInv'
<1> USE DEF StaInv, SemInv, StaServed, StaAnswered, StaLabels, HeldLabels,
           PairsTyped, Connectors, Kinds,
           monitorVars, statusVars, wifiVars, connVars,
           nvsVars, driverVars, otaVars
<1>1. CASE StartHttpServer
  <2>1. httpd = "off"
    BY <1>1 DEF StartHttpServer, StartInv, QueuesTyped
  <2>2. QED
    BY <1>1, <2>1 DEF StartHttpServer
<1>2. CASE ConnectToSta
  <2>1. poll = "none"
    BY <1>2 DEF ConnectToSta, StartInv, QueuesTyped
  <2>2. QED
    BY <1>2, <2>1 DEF ConnectToSta
<1>3. CASE ReportAddress
  BY <1>3 DEF ReportAddress, Post
<1>4. CASE GotIp
  BY <1>4 DEF GotIp
<1>5. CASE PollLook
  BY <1>5 DEF PollLook
<1>6. CASE ObtainTime
  BY <1>6 DEF ObtainTime
<1>7. ASSUME NEW t \in Connectors, TakeSemaphore(t)
      PROVE  StaInv'
  BY <1>7 DEF TakeSemaphore, MayTake, At, Goto
<1>8. ASSUME NEW t \in Connectors,
             LoadField(t, "load_ssid", "ssid", "load_pwd")
      PROVE  StaInv'
  <2>1. /\ loaded' \in [Connectors -> PairType]
        /\ loaded'[t]["ssid"] = store["sta"]["ssid"]
        /\ \A g \in Fields \ {"ssid"} : loaded'[t][g] = loaded[t][g]
        /\ \A j \in Connectors \ {t} : loaded'[j] = loaded[j]
    BY <1>8, FieldLoaded DEF Fields
  <2>2. /\ UNCHANGED <<conf, want, store, flash, apConf, target, acked>>
        /\ At(t, "load_ssid") /\ Goto(t, "load_pwd") /\ UNCHANGED sem
    BY <1>8 DEF LoadField
  <2>3. \A p \in PairType :
          loaded'[t].ssid = p.ssid /\ loaded'[t].pwd = p.pwd => loaded'[t] = p
    BY <2>1, SameFields
  <2>4. QED
    BY <2>1, <2>2, <2>3 DEF At, Goto, Fields
<1>9. ASSUME NEW t \in Connectors,
             LoadField(t, "load_pwd", "pwd", "fill")
      PROVE  StaInv'
  <2>1. /\ loaded' \in [Connectors -> PairType]
        /\ loaded'[t]["pwd"] = store["sta"]["pwd"]
        /\ \A g \in Fields \ {"pwd"} : loaded'[t][g] = loaded[t][g]
        /\ \A j \in Connectors \ {t} : loaded'[j] = loaded[j]
    BY <1>9, FieldLoaded DEF Fields
  <2>2. /\ UNCHANGED <<conf, want, store, flash, apConf, target, acked>>
        /\ At(t, "load_pwd") /\ Goto(t, "fill") /\ UNCHANGED sem
    BY <1>9 DEF LoadField
  <2>3. \A p \in PairType :
          loaded'[t].ssid = p.ssid /\ loaded'[t].pwd = p.pwd => loaded'[t] = p
    BY <2>1, SameFields
  <2>4. QED
    BY <2>1, <2>2, <2>3 DEF At, Goto, Fields
<1>10. ASSUME NEW t \in Connectors, FillConf(t)
      PROVE  StaInv'
  BY <1>10 DEF FillConf, At, Goto
<1>10a. ASSUME NEW t \in Connectors, ConnectSetsAp(t)
      PROVE  StaInv'
  BY <1>10a DEF ConnectSetsAp, At, Goto
<1>11. ASSUME NEW t \in Connectors, ConnectSta(t)
      PROVE  StaInv'
  BY <1>11 DEF ConnectSta, At, Goto
<1>12. ASSUME NEW p \in Pairs, WifiConnectRequest(p)
      PROVE  StaInv'
  BY <1>12 DEF WifiConnectRequest, Serve
<1>13. ASSUME NEW p \in ApPairs, ApConfigRequest(p)
      PROVE  StaInv'
  BY <1>13 DEF ApConfigRequest, Serve
<1>14. CASE ConfPassword
  BY <1>14 DEF ConfPassword
<1>15. CASE StoreField("sta_ssid", "sta", "ssid", "sta_pwd")
  <2>1. /\ store' \in [Kinds -> PairType]
        /\ store'["sta"]["ssid"] = want["ssid"]
        /\ \A g \in Fields \ {"ssid"} : store'["sta"][g] = store["sta"][g]
        /\ \A j \in Kinds \ {"sta"} : store'[j] = store[j]
    BY <1>15, FieldStored DEF Fields, Kinds
  <2>2. /\ UNCHANGED <<loaded, conf, want, flash, apConf, target, acked>>
        /\ httpd = "sta_ssid" /\ httpd' = "sta_pwd" /\ UNCHANGED <<poll, sem>>
    BY <1>15 DEF StoreField
  <2>3. \A p \in PairType :
          store'["sta"].ssid = p.ssid /\ store'["sta"].pwd = p.pwd =>
            store'["sta"] = p
    BY <2>1, SameFields DEF Kinds
  <2>4. QED
    BY <2>1, <2>2, <2>3 DEF Fields
<1>16. CASE StoreField("sta_pwd", "sta", "pwd", "sta_commit")
  <2>1. /\ store' \in [Kinds -> PairType]
        /\ store'["sta"]["pwd"] = want["pwd"]
        /\ \A g \in Fields \ {"pwd"} : store'["sta"][g] = store["sta"][g]
        /\ \A j \in Kinds \ {"sta"} : store'[j] = store[j]
    BY <1>16, FieldStored DEF Fields, Kinds
  <2>2. /\ UNCHANGED <<loaded, conf, want, flash, apConf, target, acked>>
        /\ httpd = "sta_pwd" /\ httpd' = "sta_commit" /\ UNCHANGED <<poll, sem>>
    BY <1>16 DEF StoreField
  <2>3. \A p \in PairType :
          store'["sta"].ssid = p.ssid /\ store'["sta"].pwd = p.pwd =>
            store'["sta"] = p
    BY <2>1, SameFields DEF Kinds
  <2>4. QED
    BY <2>1, <2>2, <2>3 DEF Fields
<1>17. CASE CommitStore("sta_commit", "disconnect")
  BY <1>17 DEF CommitStore
<1>18. CASE Disconnect
  BY <1>18 DEF Disconnect
<1>19. CASE StoreField("ap_ssid", "ap", "ssid", "ap_pwd")
  <2>1. /\ store' \in [Kinds -> PairType]
        /\ store'["ap"]["ssid"] = want["ssid"]
        /\ \A g \in Fields \ {"ssid"} : store'["ap"][g] = store["ap"][g]
        /\ \A j \in Kinds \ {"ap"} : store'[j] = store[j]
    BY <1>19, FieldStored DEF Fields, Kinds
  <2>2. /\ UNCHANGED <<loaded, conf, want, flash, apConf, target, acked>>
        /\ httpd = "ap_ssid" /\ httpd' = "ap_pwd" /\ UNCHANGED <<poll, sem>>
    BY <1>19 DEF StoreField
  <2>3. \A p \in PairType :
          store'["ap"].ssid = p.ssid /\ store'["ap"].pwd = p.pwd =>
            store'["ap"] = p
    BY <2>1, SameFields DEF Kinds
  <2>4. QED
    BY <2>1, <2>2, <2>3 DEF Fields
<1>20. CASE StoreField("ap_pwd", "ap", "pwd", "ap_commit")
  <2>1. /\ store' \in [Kinds -> PairType]
        /\ store'["ap"]["pwd"] = want["pwd"]
        /\ \A g \in Fields \ {"pwd"} : store'["ap"][g] = store["ap"][g]
        /\ \A j \in Kinds \ {"ap"} : store'[j] = store[j]
    BY <1>20, FieldStored DEF Fields, Kinds
  <2>2. /\ UNCHANGED <<loaded, conf, want, flash, apConf, target, acked>>
        /\ httpd = "ap_pwd" /\ httpd' = "ap_commit" /\ UNCHANGED <<poll, sem>>
    BY <1>20 DEF StoreField
  <2>3. \A p \in PairType :
          store'["ap"].ssid = p.ssid /\ store'["ap"].pwd = p.pwd =>
            store'["ap"] = p
    BY <2>1, SameFields DEF Kinds
  <2>4. QED
    BY <2>1, <2>2, <2>3 DEF Fields
<1>21. CASE CommitStore("ap_commit", "ap_set")
  BY <1>21 DEF CommitStore
<1>22. CASE ApStoreFails
  BY <1>22 DEF ApStoreFails
<1>23. CASE ApSetConfig
  BY <1>23 DEF ApSetConfig
<1>23a. CASE ApSetConfigFails
  BY <1>23a DEF ApSetConfigFails
<1>24. CASE Associate
  BY <1>24 DEF Associate
<1>25. CASE AssociationFails
  BY <1>25 DEF AssociationFails
<1>26. CASE LinkLost
  BY <1>26 DEF LinkLost
<1>27. QED
  BY <1>1, <1>2, <1>3, <1>4, <1>5, <1>6, <1>7, <1>8, <1>9, <1>10, <1>10a, <1>11,
     <1>12, <1>13, <1>14, <1>15, <1>16, <1>17, <1>18, <1>19, <1>20, <1>21,
     <1>22, <1>23, <1>23a, <1>24, <1>25, <1>26
  DEF WifiNext, AppStep, PollStep, Connect, WifiHandlerStep, DriverStep,
      Connectors

LEMMA StaInvOta ==
  ASSUME PairsTyped, QueuesTyped, StartInv, StaInv, OtaNext, UNCHANGED wifiVars
  PROVE  StaInv'
BY DEF StaInv, SemInv, StaServed, StaAnswered, StaLabels, HeldLabels,
    PairsTyped, Connectors, Kinds, monitorVars, statusVars, wifiVars,
    connVars, nvsVars, driverVars, otaVars, OtaNext, OtaHandlerStep,
    UploadBegins, Serve, FirstChunk, Uploading, NextChunk, UploadFails, Post,
    WriteFails, UploadEnds, Accepted

LEMMA StaInvBoot ==
  ASSUME PairsTyped, StaInv, NEW why, Boot(why)
  PROVE  StaInv'
<1>1. httpd' = "off" /\ poll' = "none" /\ sem' = "free" /\ target' = Blank
        /\ UNCHANGED acked
  BY DEF Boot
<1>2. PICK survivor \in [Kinds -> PairType] :
        /\ \A k \in Kinds, f \in {"ssid", "pwd"} :
             survivor[k][f] \in {store[k][f], flash[k][f]}
        /\ store' = survivor /\ flash' = survivor
  BY DEF Boot
<1>3. acked["sta"] # Blank => survivor["sta"] = acked["sta"]
  <2>1. acked["sta"] # Blank =>
          /\ survivor["sta"].ssid = acked["sta"].ssid
          /\ survivor["sta"].pwd = acked["sta"].pwd
    BY <1>2 DEF StaInv, StaAnswered, Kinds
  <2>2. survivor["sta"] \in PairType /\ acked["sta"] \in PairType
    BY <1>2 DEF PairsTyped, Kinds
  <2>3. QED
    BY <2>1, <2>2, SameFields
<1>4. QED
  BY <1>1, <1>2, <1>3
  DEF StaInv, SemInv, StaServed, StaAnswered, StaLabels, HeldLabels

LEMMA ApInvMonitor ==
  ASSUME PairsTyped, QueuesTyped, StartInv, ApInv, MonitorStep,
         UNCHANGED <<wifiVars, otaVars>>
  PROVE  ApInv'
BY WifiAssumption
  DEF ApInv, ApServed, ApAnswered, ApLabels, Given, PairsTyped, Connectors,
      Kinds, monitorVars, statusVars, wifiVars, connVars, nvsVars, driverVars,
      otaVars, MonitorStep, ReceiveWifi, Receive, ReceiveOta

LEMMA ApInvWifi ==
  ASSUME PairsTyped, QueuesTyped, StartInv, ApInv, WifiNext, UNCHANGED otaVars
  PROVE  ApInv'
<1> USE WifiAssumption
    DEF ApInv, ApServed, ApAnswered, ApLabels, Given, PairsTyped,
           Connectors, Kinds,
           monitorVars, statusVars, wifiVars, connVars,
           nvsVars, driverVars, otaVars
<1>1. CASE StartHttpServer
  <2>1. httpd = "off"
    BY <1>1 DEF StartHttpServer, StartInv, QueuesTyped
  <2>2. QED
    BY <1>1, <2>1 DEF StartHttpServer
<1>2. CASE ConnectToSta
  <2>1. poll = "none"
    BY <1>2 DEF ConnectToSta, StartInv, QueuesTyped
  <2>2. QED
    BY <1>2, <2>1 DEF ConnectToSta
<1>3. CASE ReportAddress
  BY <1>3 DEF ReportAddress, Post
<1>4. CASE GotIp
  BY <1>4 DEF GotIp
<1>5. CASE PollLook
  BY <1>5 DEF PollLook
<1>6. CASE ObtainTime
  BY <1>6 DEF ObtainTime
<1>7. ASSUME NEW t \in Connectors, TakeSemaphore(t)
      PROVE  ApInv'
  BY <1>7 DEF TakeSemaphore, MayTake, At, Goto
<1>8. ASSUME NEW t \in Connectors,
             LoadField(t, "load_ssid", "ssid", "load_pwd")
      PROVE  ApInv'
  <2>1. /\ loaded' \in [Connectors -> PairType]
        /\ loaded'[t]["ssid"] = store["sta"]["ssid"]
        /\ \A g \in Fields \ {"ssid"} : loaded'[t][g] = loaded[t][g]
        /\ \A j \in Connectors \ {t} : loaded'[j] = loaded[j]
    BY <1>8, FieldLoaded DEF Fields
  <2>2. /\ UNCHANGED <<conf, want, store, flash, apConf, recast, target, acked>>
        /\ At(t, "load_ssid") /\ Goto(t, "load_pwd") /\ UNCHANGED sem
    BY <1>8 DEF LoadField
  <2>3. \A p \in PairType :
          loaded'[t].ssid = p.ssid /\ loaded'[t].pwd = p.pwd => loaded'[t] = p
    BY <2>1, SameFields
  <2>4. QED
    BY <2>1, <2>2, <2>3 DEF At, Goto, Fields
<1>9. ASSUME NEW t \in Connectors,
             LoadField(t, "load_pwd", "pwd", "fill")
      PROVE  ApInv'
  <2>1. /\ loaded' \in [Connectors -> PairType]
        /\ loaded'[t]["pwd"] = store["sta"]["pwd"]
        /\ \A g \in Fields \ {"pwd"} : loaded'[t][g] = loaded[t][g]
        /\ \A j \in Connectors \ {t} : loaded'[j] = loaded[j]
    BY <1>9, FieldLoaded DEF Fields
  <2>2. /\ UNCHANGED <<conf, want, store, flash, apConf, recast, target, acked>>
        /\ At(t, "load_pwd") /\ Goto(t, "fill") /\ UNCHANGED sem
    BY <1>9 DEF LoadField
  <2>3. \A p \in PairType :
          loaded'[t].ssid = p.ssid /\ loaded'[t].pwd = p.pwd => loaded'[t] = p
    BY <2>1, SameFields
  <2>4. QED
    BY <2>1, <2>2, <2>3 DEF At, Goto, Fields
<1>10. ASSUME NEW t \in Connectors, FillConf(t)
      PROVE  ApInv'
  BY <1>10 DEF FillConf, At, Goto
<1>10a. ASSUME NEW t \in Connectors, ConnectSetsAp(t)
      PROVE  ApInv'
  <2>1. acked["ap"] # Blank /\ ~recast' => apConf' = apConf /\ ~recast
    BY <1>10a DEF ConnectSetsAp
  <2>2. /\ UNCHANGED <<want, store, flash, acked>>
        /\ At(t, "set_ap") /\ Goto(t, "connect")
    BY <1>10a DEF ConnectSetsAp
  <2>3. httpd' \in ApLabels => httpd' = httpd
    BY <2>2 DEF At, Goto
  <2>4. QED
    BY <2>1, <2>2, <2>3
<1>11. ASSUME NEW t \in Connectors, ConnectSta(t)
      PROVE  ApInv'
  BY <1>11 DEF ConnectSta, At, Goto
<1>12. ASSUME NEW p \in Pairs, WifiConnectRequest(p)
      PROVE  ApInv'
  BY <1>12 DEF WifiConnectRequest, Serve
<1>13. ASSUME NEW p \in ApPairs, ApConfigRequest(p)
      PROVE  ApInv'
  BY <1>13 DEF ApConfigRequest, Serve
<1>14. CASE ConfPassword
  BY <1>14 DEF ConfPassword
<1>15. CASE StoreField("sta_ssid", "sta", "ssid", "sta_pwd")
  <2>1. /\ store' \in [Kinds -> PairType]
        /\ store'["sta"]["ssid"] = want["ssid"]
        /\ \A g \in Fields \ {"ssid"} : store'["sta"][g] = store["sta"][g]
        /\ \A j \in Kinds \ {"sta"} : store'[j] = store[j]
    BY <1>15, FieldStored DEF Fields, Kinds
  <2>2. /\ UNCHANGED <<loaded, conf, want, flash, apConf, recast, target, acked>>
        /\ httpd = "sta_ssid" /\ httpd' = "sta_pwd" /\ UNCHANGED <<poll, sem>>
    BY <1>15 DEF StoreField
  <2>3. \A p \in PairType :
          store'["sta"].ssid = p.ssid /\ store'["sta"].pwd = p.pwd =>
            store'["sta"] = p
    BY <2>1, SameFields DEF Kinds
  <2>4. QED
    BY <2>1, <2>2, <2>3 DEF Fields
<1>16. CASE StoreField("sta_pwd", "sta", "pwd", "sta_commit")
  <2>1. /\ store' \in [Kinds -> PairType]
        /\ store'["sta"]["pwd"] = want["pwd"]
        /\ \A g \in Fields \ {"pwd"} : store'["sta"][g] = store["sta"][g]
        /\ \A j \in Kinds \ {"sta"} : store'[j] = store[j]
    BY <1>16, FieldStored DEF Fields, Kinds
  <2>2. /\ UNCHANGED <<loaded, conf, want, flash, apConf, recast, target, acked>>
        /\ httpd = "sta_pwd" /\ httpd' = "sta_commit" /\ UNCHANGED <<poll, sem>>
    BY <1>16 DEF StoreField
  <2>3. \A p \in PairType :
          store'["sta"].ssid = p.ssid /\ store'["sta"].pwd = p.pwd =>
            store'["sta"] = p
    BY <2>1, SameFields DEF Kinds
  <2>4. QED
    BY <2>1, <2>2, <2>3 DEF Fields
<1>17. CASE CommitStore("sta_commit", "disconnect")
  BY <1>17 DEF CommitStore
<1>18. CASE Disconnect
  BY <1>18 DEF Disconnect
<1>19. CASE StoreField("ap_ssid", "ap", "ssid", "ap_pwd")
  <2>1. /\ store' \in [Kinds -> PairType]
        /\ store'["ap"]["ssid"] = want["ssid"]
        /\ \A g \in Fields \ {"ssid"} : store'["ap"][g] = store["ap"][g]
        /\ \A j \in Kinds \ {"ap"} : store'[j] = store[j]
    BY <1>19, FieldStored DEF Fields, Kinds
  <2>2. /\ UNCHANGED <<loaded, conf, want, flash, apConf, recast, target, acked>>
        /\ httpd = "ap_ssid" /\ httpd' = "ap_pwd" /\ UNCHANGED <<poll, sem>>
    BY <1>19 DEF StoreField
  <2>3. \A p \in PairType :
          store'["ap"].ssid = p.ssid /\ store'["ap"].pwd = p.pwd =>
            store'["ap"] = p
    BY <2>1, SameFields DEF Kinds
  <2>4. QED
    BY <2>1, <2>2, <2>3 DEF Fields
<1>20. CASE StoreField("ap_pwd", "ap", "pwd", "ap_commit")
  <2>1. /\ store' \in [Kinds -> PairType]
        /\ store'["ap"]["pwd"] = want["pwd"]
        /\ \A g \in Fields \ {"pwd"} : store'["ap"][g] = store["ap"][g]
        /\ \A j \in Kinds \ {"ap"} : store'[j] = store[j]
    BY <1>20, FieldStored DEF Fields, Kinds
  <2>2. /\ UNCHANGED <<loaded, conf, want, flash, apConf, recast, target, acked>>
        /\ httpd = "ap_pwd" /\ httpd' = "ap_commit" /\ UNCHANGED <<poll, sem>>
    BY <1>20 DEF StoreField
  <2>3. \A p \in PairType :
          store'["ap"].ssid = p.ssid /\ store'["ap"].pwd = p.pwd =>
            store'["ap"] = p
    BY <2>1, SameFields DEF Kinds
  <2>4. QED
    BY <2>1, <2>2, <2>3 DEF Fields
<1>21. CASE CommitStore("ap_commit", "ap_set")
  BY <1>21 DEF CommitStore
<1>22. CASE ApStoreFails
  BY <1>22 DEF ApStoreFails
<1>23. CASE ApSetConfig
  BY <1>23 DEF ApSetConfig
<1>23a. CASE ApSetConfigFails
  BY <1>23a DEF ApSetConfigFails
<1>24. CASE Associate
  BY <1>24 DEF Associate
<1>25. CASE AssociationFails
  BY <1>25 DEF AssociationFails
<1>26. CASE LinkLost
  BY <1>26 DEF LinkLost
<1>27. QED
  BY <1>1, <1>2, <1>3, <1>4, <1>5, <1>6, <1>7, <1>8, <1>9, <1>10, <1>10a, <1>11,
     <1>12, <1>13, <1>14, <1>15, <1>16, <1>17, <1>18, <1>19, <1>20, <1>21,
     <1>22, <1>23, <1>23a, <1>24, <1>25, <1>26
  DEF WifiNext, AppStep, PollStep, Connect, WifiHandlerStep, DriverStep,
      Connectors

LEMMA ApInvOta ==
  ASSUME PairsTyped, QueuesTyped, StartInv, ApInv, OtaNext, UNCHANGED wifiVars
  PROVE  ApInv'
BY WifiAssumption
  DEF ApInv, ApServed, ApAnswered, ApLabels, Given, PairsTyped, Connectors,
      Kinds, monitorVars, statusVars, wifiVars, connVars, nvsVars, driverVars,
      otaVars, OtaNext, OtaHandlerStep, UploadBegins, Serve, FirstChunk,
      Uploading, NextChunk, UploadFails, Post, WriteFails, UploadEnds,
      Accepted

LEMMA ApInvBoot ==
  ASSUME PairsTyped, ApInv, NEW why, Boot(why)
  PROVE  ApInv'
<1>1. httpd' = "off" /\ UNCHANGED acked
  BY DEF Boot
<1>2. PICK survivor \in [Kinds -> PairType] :
        /\ \A k \in Kinds, f \in {"ssid", "pwd"} :
             survivor[k][f] \in {store[k][f], flash[k][f]}
        /\ store' = survivor /\ flash' = survivor
        /\ apConf' = ApAtBoot(survivor["ap"])
  BY DEF Boot
<1>3. survivor["ap"] \in PairType /\ acked["ap"] \in PairType
  BY <1>2 DEF PairsTyped, Kinds
<1>4. acked["ap"] # Blank => survivor["ap"] = acked["ap"]
  <2>1. acked["ap"] # Blank =>
          /\ survivor["ap"].ssid = acked["ap"].ssid
          /\ survivor["ap"].pwd = acked["ap"].pwd
    BY <1>2 DEF ApInv, ApAnswered, Kinds
  <2>2. QED
    BY <1>3, <2>1, SameFields
<1>5. ASSUME NEW p \in PairType, Given(p)
      PROVE  ApAtBoot(p) = p
  <2>1. ApAtBoot(p).ssid = p.ssid /\ ApAtBoot(p).pwd = p.pwd
    BY <1>5 DEF ApAtBoot, Given
  <2>2. QED
    BY <2>1, ApAtBootTyped, SameFields
<1>6. QED
  BY <1>1, <1>2, <1>3, <1>4, <1>5 DEF ApInv, ApServed, ApAnswered, ApLabels

-----------------------------------------------------------------------------
(* Theorems *)

NetworkInv ==
  /\ OtaInv /\ PairsTyped /\ LabelsTyped /\ FlagsTyped /\ QueuesTyped
  /\ CountsTyped /\ StartInv /\ StaInv /\ ApInv
  /\ powerCuts \in 0 .. MaxPowerCuts /\ reason \in {"power", "timer", "abort"}

LEMMA NetworkInvInit == Init => NetworkInv
<1> SUFFICES ASSUME Init PROVE NetworkInv
  OBVIOUS
<1> USE DEF Init, MonitorInit, WifiInit, OtaInit
<1>1. OtaInv
  BY DEF OtaInv, Partitions
<1>2. PairsTyped
  BY PairsAreTyped DEF PairsTyped, Kinds, Connectors
<1>3. LabelsTyped /\ FlagsTyped
  BY DEF LabelsTyped, FlagsTyped, HandlerLabels, Connectors
<1>4. QueuesTyped
  <2>1. <<>> \in Seq(Messages) /\ Len(<<>>) = 0
    OBVIOUS
  <2>2. <<"start_http_server", "connect_to_sta">> \in Seq(AppMessages)
    BY DEF AppMessages
  <2>3. QED
    BY <2>1, <2>2, MonitorAssumption, WifiAssumption DEF QueuesTyped
<1>5. CountsTyped /\ powerCuts \in 0 .. MaxPowerCuts
  BY MonitorAssumption, WifiAssumption, NetworkAssumption DEF CountsTyped
<1>6. StartInv
  BY DEF StartInv
<1>7. StaInv /\ ApInv
  BY DEF StaInv, SemInv, StaServed, StaAnswered, StaLabels, HeldLabels, ApInv,
         ApServed, ApAnswered, ApLabels, Kinds
<1>8. QED
  BY <1>1, <1>2, <1>3, <1>4, <1>5, <1>6, <1>7 DEF NetworkInv

LEMMA NetworkInvNext == NetworkInv /\ [Next]_vars => NetworkInv'
<1> SUFFICES ASSUME NetworkInv, [Next]_vars PROVE NetworkInv'
  OBVIOUS
<1> USE DEF NetworkInv
<1>1. CASE OfMonitor(MonitorStep)
  BY <1>1, OtaInvMonitor, PairsTypedMonitor, LabelsTypedMonitor,
     FlagsTypedMonitor, QueuesTypedMonitor, CountsTypedMonitor,
     StartInvMonitor, StaInvMonitor, ApInvMonitor DEF OfMonitor
<1>2. CASE OfWifi(WifiNext)
  BY <1>2, OtaInvWifi, PairsTypedWifi, LabelsTypedWifi, FlagsTypedWifi,
     QueuesTypedWifi, CountsTypedWifi, StartInvWifi, StaInvWifi, ApInvWifi
  DEF OfWifi
<1>3. CASE OfOta(OtaNext)
  BY <1>3, OtaInvOta, PairsTypedOta, LabelsTypedOta, FlagsTypedOta,
     QueuesTypedOta, CountsTypedOta, StartInvOta, StaInvOta, ApInvOta DEF OfOta
<1>4. ASSUME NEW why \in {"power", "timer", "abort"}, Boot(why),
             powerCuts' \in 0 .. MaxPowerCuts
      PROVE  NetworkInv'
  <2>1. reason' = why
    BY <1>4 DEF Boot
  <2>2. QED
    BY <1>4, <2>1, OtaInvBoot, PairsTypedBoot, LabelsTypedBoot,
       FlagsTypedBoot, QueuesTypedBoot, CountsTypedBoot, StartInvBoot,
       StaInvBoot, ApInvBoot
<1>5. CASE PowerCut
  BY <1>4, <1>5, NetworkAssumption DEF PowerCut
<1>6. CASE TimerExpires
  BY <1>4, <1>6 DEF TimerExpires
<1>7. CASE TimerAbort
  BY <1>4, <1>7 DEF TimerAbort
<1>8. CASE UNCHANGED vars
  BY <1>8
  DEF vars, monitorVars, statusVars, wifiVars, connVars, nvsVars, driverVars,
      otaVars, OtaInv, PairsTyped, LabelsTyped, FlagsTyped, QueuesTyped,
      CountsTyped, StartInv, StaInv, SemInv, StaServed, StaAnswered, ApInv,
      ApServed, ApAnswered
<1>9. QED
  BY <1>1, <1>2, <1>3, <1>5, <1>6, <1>7, <1>8 DEF Next

\* The invariant holds.
THEOREM NetworkInvariant == Spec => []NetworkInv
<1>1. QED
  BY NetworkInvInit, NetworkInvNext, PTL DEF Spec

\* Every variable has its type.
THEOREM TypeCorrect == Spec => []TypeOK
<1>1. NetworkInv => TypeOK
  BY DEF NetworkInv, OtaInv, PairsTyped, LabelsTyped, FlagsTyped, QueuesTyped,
         CountsTyped, AppMessages, TypeOK
<1>2. QED
  BY <1>1, NetworkInvariant, PTL

\* The board always runs from a whole image, whatever upload breaks off and
\* whenever it restarts (http_server_OTA_update_handler).
THEOREM AlwaysIntact == Spec => []RunningIntact
<1>1. NetworkInv => RunningIntact
  BY DEF NetworkInv, OtaInv, RunningIntact
<1>2. QED
  BY <1>1, NetworkInvariant, PTL

\* An upload answered with ok has selected the other partition, which holds
\* a whole image until another upload begins.
THEOREM UpdatesTakeEffect == Spec => []UpdateTakesEffect
<1>1. NetworkInv => UpdateTakesEffect
  BY DEF NetworkInv, OtaInv, UpdateTakesEffect
<1>2. QED
  BY <1>1, NetworkInvariant, PTL

\* The pair of an answered request is in force until the next request of its
\* kind, though the poll and the handlers store, load and connect in turn
\* (save_wifi_credentials, connect_to_wifi, http_server_ap_config_handler).
THEOREM PairsInForce == Spec => []AnsweredPairInForce
<1>1. NetworkInv => AnsweredPairInForce
  BY DEF NetworkInv, StaInv, StaAnswered, ApInv, ApAnswered, AnsweredPairInForce
<1>2. QED
  BY <1>1, NetworkInvariant, PTL

=============================================================================
