------------------------------ MODULE MqttProofs ------------------------------
(* What holds of the MQTT client for every set of messages, every scenario, *)
(* any number of failures and both kinds of session.                       *)
EXTENDS MqttClient, FiniteSetTheorems, TLAPS

-----------------------------------------------------------------------------
(* The state of the client and of its connection.  esp_mqtt_abort_connection *)
(* closes the transport whenever it leaves the state "wait" behind.          *)

ClientTyped ==
  /\ state \in {"init", "disconnected", "connected", "wait"}
  /\ run \in BOOLEAN
  /\ task \in {"none", "starting", "entering", "clearing", "top", "connecting",
               "receive", "resend", "pubrel", "keepalive", "refresh", "polling",
               "ending"}
  /\ stopped \in BOOLEAN
  /\ bits \subseteq {"disconnect", "reconnect"}
  /\ caller \in {"idle", "reconnecting", "stopping"} \cup Requests
  /\ waitPing \in BOOLEAN
  /\ link \in {"closed", "open", "broken", "silent"}
  /\ use \in Scenarios
  /\ waitPing => state # "wait"
  /\ link # "closed" => state # "wait"

\* ... is kept by every step of the task, of the application and of the rest.
LEMMA ClientTypedLoop ==
  ASSUME ClientTyped, Loop
  PROVE  ClientTyped'
<1> USE DEF ClientTyped, clientVars, boxVars, netVars, brokerVars, pastVars
<1>1. CASE TaskStarts
  BY <1>1 DEF TaskStarts
<1>1a. CASE TaskEnters
  BY <1>1a DEF TaskEnters
<1>1b. CASE TaskClears
  BY <1>1b DEF TaskClears
<1>2. CASE EnterState
  BY <1>2 DEF EnterState, TakesLock
<1>3. CASE NoTransport
  BY <1>3 DEF NoTransport
<1>4. CASE ConnectFails
  BY <1>4 DEF ConnectFails, Abort
<1>5. CASE Connect
  BY <1>5 DEF Connect
<1>6. CASE ServeDisconnect
  BY <1>6 DEF ServeDisconnect, SendDisconnect, Abort, WriteOk, WriteFails
<1>7. CASE ReceiveNothing
  BY <1>7 DEF ReceiveNothing
<1>8. CASE ReceiveFails
  BY <1>8 DEF ReceiveFails, Abort
<1>9. CASE ReceiveSuback
  BY <1>9 DEF ReceiveSuback, FinalRest, Handled
<1>10. CASE ReceiveUnsuback
  BY <1>10 DEF ReceiveUnsuback, FinalRest, Handled
<1>11. CASE ReceivePublish
  BY <1>11 DEF ReceivePublish, Handled, WriteOrAbort, WriteOk, WriteFails,
         Connection, Abort
<1>12. CASE ReceivePuback
  BY <1>12 DEF ReceivePuback, FinalRest, Handled
<1>13. CASE ReceivePubrec
  BY <1>13 DEF ReceivePubrec, Handled, WriteOk, WriteFails
<1>14. CASE ReceivePubrel
  BY <1>14 DEF ReceivePubrel, Handled, WriteOk, WriteFails
<1>15. CASE ReceivePubcomp
  BY <1>15 DEF ReceivePubcomp, FinalRest, Handled
<1>16. CASE ReceivePingresp
  BY <1>16 DEF ReceivePingresp, Handled
<1>17. CASE SendQueued
  BY <1>17 DEF SendQueued, WriteOrAbort, WriteOk, WriteFails, Connection,
         Abort
<1>18. CASE NothingToResend
  BY <1>18 DEF NothingToResend
<1>19. CASE Retransmit
  BY <1>19 DEF Retransmit, WriteOrAbort, WriteOk, WriteFails, Connection,
         Abort
<1>20. CASE ResendPubrel
  BY <1>20 DEF ResendPubrel, WriteOrAbort, WriteOk, WriteFails, Connection,
         Abort
<1>21. CASE KeepAlive
  <2>1. task' \in {"refresh", "polling", "top"}
    BY <1>21 DEF KeepAlive, IterationEnds
  <2>2. CASE UNCHANGED Connection
    BY <1>21, <2>1, <2>2 DEF KeepAlive, Connection
  <2>3. CASE Ping /\ waitPing' = TRUE /\ UNCHANGED <<link, down, state>>
    BY <1>21, <2>1, <2>3 DEF KeepAlive, Ping, WriteOk
  <2>4. QED
    BY <1>21, <2>2, <2>3 DEF KeepAlive
<1>22. CASE KeepAliveFails
  BY <1>22 DEF KeepAliveFails, WriteFails, Abort
<1>23. CASE Refresh
  <2>1. task' \in {"polling", "top"}
    BY <1>23 DEF Refresh, IterationEnds
  <2>2. CASE UNCHANGED <<state, waitPing, netVars>>
    BY <1>23, <2>1, <2>2 DEF Refresh
  <2>3. CASE link' = "closed" /\ state' = "init" /\ waitPing' = FALSE
    BY <1>23, <2>1, <2>3 DEF Refresh
  <2>4. QED
    BY <1>23, <2>2, <2>3 DEF Refresh
<1>24. CASE PollEnds
  <2>1. CASE UNCHANGED Connection
    BY <1>24, <2>1 DEF PollEnds, Connection
  <2>2. CASE Abort
    BY <1>24, <2>2 DEF PollEnds, Abort
  <2>3. QED
    BY <1>24, <2>1, <2>2 DEF PollEnds
<1>25. CASE Reconnect
  BY <1>25 DEF Reconnect, TakesLock
<1>26. CASE KeepWaiting
  BY <1>26 DEF KeepWaiting, TakesLock
<1>27. CASE LoopEnds
  BY <1>27 DEF LoopEnds
<1>28. CASE TaskEnds
  BY <1>28 DEF TaskEnds
<1>29. QED
  BY <1>1, <1>1a, <1>1b, <1>2, <1>3, <1>4, <1>5, <1>6, <1>7, <1>8, <1>9, <1>10, <1>11,
     <1>12, <1>13, <1>14, <1>15, <1>16, <1>17, <1>18, <1>19, <1>20, <1>21,
     <1>22, <1>23, <1>24, <1>25, <1>26, <1>27, <1>28
  DEF Loop, Receive, Resend

LEMMA ClientTypedApplication ==
  ASSUME ClientTyped, Application
  PROVE  ClientTyped'
<1> USE DEF ClientTyped, clientVars, boxVars, netVars, brokerVars, pastVars
<1>1. CASE Start
  BY <1>1 DEF Start
<1>2. CASE Stop
  BY <1>2 DEF Stop, SendDisconnect, WriteOk, WriteFails
<1>3. CASE StopReturns
  BY <1>3 DEF StopReturns
<1>4. CASE Disconnect
  BY <1>4 DEF Disconnect
<1>5. CASE ReconnectCheck
  BY <1>5 DEF ReconnectCheck
<1>6. CASE ReconnectSet
  BY <1>6 DEF ReconnectSet
<1>7. ASSUME NEW m \in Outgoing, Publish(m)
      PROVE  ClientTyped'
  BY <1>7, ZenonT(30) DEF Publish, Fresh, WriteOk, WriteFails, Connection, Abort
<1>8. ASSUME NEW m \in Outgoing, Enqueue(m)
      PROVE  ClientTyped'
  BY <1>8 DEF Enqueue, Fresh
<1>9. ASSUME NEW m \in Outgoing, SubscribeCheck(m)
      PROVE  ClientTyped'
  BY <1>9 DEF SubscribeCheck, Checked, Fresh, RequestRest, Requests
<1>10. ASSUME NEW m \in Outgoing, UnsubscribeCheck(m)
      PROVE  ClientTyped'
  BY <1>10 DEF UnsubscribeCheck, Checked, Fresh, RequestRest, Requests
<1>11. CASE RequestSend
  <2>1. caller' = "idle" /\ RequestRest
    BY <1>11 DEF RequestSend, Subscribe, Unsubscribe, SendRequest
  <2>2. QED
    BY <2>1 DEF RequestRest
<1>12. QED
  BY <1>1, <1>2, <1>3, <1>4, <1>5, <1>6, <1>7, <1>8, <1>9, <1>10, <1>11
  DEF Application

LEMMA ClientTypedBroker ==
  ASSUME ClientTyped, Broker \/ LinkFails \/ Tick
  PROVE  ClientTyped'
<1> USE DEF ClientTyped, clientVars, boxVars, netVars, brokerVars, pastVars
<1>1. CASE BrokerReadsPublish
  BY <1>1 DEF BrokerReadsPublish
<1>2. CASE BrokerReadsPubrel
  BY <1>2 DEF BrokerReadsPubrel
<1>3. CASE BrokerReadsRequest
  BY <1>3 DEF BrokerReadsRequest
<1>4. CASE BrokerReadsOther
  BY <1>4 DEF BrokerReadsOther
<1>5. CASE BrokerReadsAnswer
  BY <1>5 DEF BrokerReadsAnswer
<1>6. CASE BrokerPublishes
  BY <1>6 DEF BrokerPublishes
<1>7. CASE LinkFails
  BY <1>7 DEF LinkFails
<1>8. CASE Tick
  BY <1>8 DEF Tick
<1>9. QED
  BY <1>1, <1>2, <1>3, <1>4, <1>5, <1>6, <1>7, <1>8
  DEF Broker

-----------------------------------------------------------------------------
(* Counters *)

CountsTyped ==
  /\ calls \in Nat
  /\ silence \in 0 .. 2
  /\ faults \in Nat

LEMMA CountsTypedLoop ==
  ASSUME CountsTyped, Loop
  PROVE  CountsTyped'
<1> USE DEF CountsTyped, clientVars, boxVars, netVars, brokerVars, pastVars
<1>1. CASE TaskStarts
  BY <1>1 DEF TaskStarts
<1>1a. CASE TaskEnters
  BY <1>1a DEF TaskEnters
<1>1b. CASE TaskClears
  BY <1>1b DEF TaskClears
<1>2. CASE EnterState
  BY <1>2 DEF EnterState, TakesLock
<1>3. CASE NoTransport
  BY <1>3 DEF NoTransport
<1>4. CASE ConnectFails
  BY <1>4 DEF ConnectFails
<1>5. CASE Connect
  BY <1>5 DEF Connect
<1>6. CASE ServeDisconnect
  BY <1>6 DEF ServeDisconnect
<1>7. CASE ReceiveNothing
  BY <1>7 DEF ReceiveNothing
<1>8. CASE ReceiveFails
  BY <1>8 DEF ReceiveFails
<1>9. CASE ReceiveSuback
  BY <1>9 DEF ReceiveSuback, FinalRest, Handled
<1>10. CASE ReceiveUnsuback
  BY <1>10 DEF ReceiveUnsuback, FinalRest, Handled
<1>11. CASE ReceivePublish
  BY <1>11 DEF ReceivePublish, Handled
<1>12. CASE ReceivePuback
  BY <1>12 DEF ReceivePuback, FinalRest, Handled
<1>13. CASE ReceivePubrec
  BY <1>13 DEF ReceivePubrec, Handled
<1>14. CASE ReceivePubrel
  BY <1>14 DEF ReceivePubrel, Handled
<1>15. CASE ReceivePubcomp
  BY <1>15 DEF ReceivePubcomp, FinalRest, Handled
<1>16. CASE ReceivePingresp
  BY <1>16 DEF ReceivePingresp, Handled
<1>17. CASE SendQueued
  BY <1>17 DEF SendQueued
<1>18. CASE NothingToResend
  BY <1>18 DEF NothingToResend
<1>19. CASE Retransmit
  BY <1>19 DEF Retransmit
<1>20. CASE ResendPubrel
  BY <1>20 DEF ResendPubrel
<1>21. CASE KeepAlive
  BY <1>21 DEF KeepAlive
<1>22. CASE KeepAliveFails
  BY <1>22 DEF KeepAliveFails
<1>23. CASE Refresh
  BY <1>23 DEF Refresh
<1>24. CASE PollEnds
  BY <1>24 DEF PollEnds
<1>25. CASE Reconnect
  BY <1>25 DEF Reconnect, TakesLock
<1>26. CASE KeepWaiting
  BY <1>26 DEF KeepWaiting, TakesLock
<1>27. CASE LoopEnds
  BY <1>27 DEF LoopEnds
<1>28. CASE TaskEnds
  BY <1>28 DEF TaskEnds
<1>29. QED
  BY <1>1, <1>1a, <1>1b, <1>2, <1>3, <1>4, <1>5, <1>6, <1>7, <1>8, <1>9, <1>10, <1>11,
     <1>12, <1>13, <1>14, <1>15, <1>16, <1>17, <1>18, <1>19, <1>20, <1>21,
     <1>22, <1>23, <1>24, <1>25, <1>26, <1>27, <1>28
  DEF Loop, Receive, Resend

LEMMA CountsTypedApplication ==
  ASSUME CountsTyped, Application
  PROVE  CountsTyped'
<1> USE DEF CountsTyped, clientVars, boxVars, netVars, brokerVars, pastVars
<1>1. CASE Start
  BY <1>1 DEF Start, Calling
<1>2. CASE Stop
  BY <1>2 DEF Stop, Calling
<1>3. CASE StopReturns
  BY <1>3 DEF StopReturns
<1>4. CASE Disconnect
  BY <1>4 DEF Disconnect, Calling
<1>5. CASE ReconnectCheck
  BY <1>5 DEF ReconnectCheck, Calling
<1>6. CASE ReconnectSet
  BY <1>6 DEF ReconnectSet
<1>7. ASSUME NEW m \in Outgoing, Publish(m)
      PROVE  CountsTyped'
  BY <1>7 DEF Publish, Fresh
<1>8. ASSUME NEW m \in Outgoing, Enqueue(m)
      PROVE  CountsTyped'
  BY <1>8 DEF Enqueue, Fresh
<1>9. ASSUME NEW m \in Outgoing, SubscribeCheck(m)
      PROVE  CountsTyped'
  BY <1>9 DEF SubscribeCheck, Checked, Fresh, RequestRest
<1>10. ASSUME NEW m \in Outgoing, UnsubscribeCheck(m)
      PROVE  CountsTyped'
  BY <1>10 DEF UnsubscribeCheck, Checked, Fresh, RequestRest
<1>11. CASE RequestSend
  BY <1>11 DEF RequestSend, Subscribe, Unsubscribe, SendRequest, RequestRest
<1>12. QED
  BY <1>1, <1>2, <1>3, <1>4, <1>5, <1>6, <1>7, <1>8, <1>9, <1>10, <1>11
  DEF Application

LEMMA CountsTypedBroker ==
  ASSUME CountsTyped, Broker \/ LinkFails \/ Tick
  PROVE  CountsTyped'
<1> USE DEF CountsTyped, clientVars, boxVars, netVars, brokerVars, pastVars
<1>1. CASE BrokerReadsPublish
  BY <1>1 DEF BrokerReadsPublish
<1>2. CASE BrokerReadsPubrel
  BY <1>2 DEF BrokerReadsPubrel
<1>3. CASE BrokerReadsRequest
  BY <1>3 DEF BrokerReadsRequest
<1>4. CASE BrokerReadsOther
  BY <1>4 DEF BrokerReadsOther
<1>5. CASE BrokerReadsAnswer
  BY <1>5 DEF BrokerReadsAnswer
<1>6. CASE BrokerPublishes
  BY <1>6 DEF BrokerPublishes
<1>7. CASE LinkFails
  BY <1>7 DEF LinkFails
<1>8. CASE Tick
  BY <1>8 DEF Tick
<1>9. QED
  BY <1>1, <1>2, <1>3, <1>4, <1>5, <1>6, <1>7, <1>8
  DEF Broker

-----------------------------------------------------------------------------
(* The outbox and the history of the messages *)

BoxTyped ==
  /\ outbox \subseteq issued
  /\ pending \in [Outgoing -> {"queued", "transmitted", "acknowledged"}]
  /\ place \in [Outgoing -> Nat]
  /\ issued \subseteq Outgoing
  /\ accepted \subseteq issued
  /\ told \subseteq issued
  /\ gone \subseteq issued

\* The outbox numbers its items; their number is finite.
LEMMA PlaceTyped ==
  ASSUME BoxTyped, NEW m \in Outgoing
  PROVE  [place EXCEPT ![m] = 1 + Cardinality({n \in Outgoing : place[n] > 0})]
           \in [Outgoing -> Nat]
<1>1. IsFiniteSet({n \in Outgoing : place[n] > 0})
  BY FS_Subset, BoundsAssumption DEF Msgs
<1>2. Cardinality({n \in Outgoing : place[n] > 0}) \in Nat
  BY <1>1, FS_CardinalityType
<1>3. 1 + Cardinality({n \in Outgoing : place[n] > 0}) \in Nat
  BY <1>2
<1>4. QED
  BY <1>3 DEF BoxTyped

\* outbox_enqueue
LEMMA PutTyped ==
  ASSUME BoxTyped, NEW m \in Outgoing,
         NEW p \in {"queued", "transmitted", "acknowledged"}, Put(m, p),
         issued' = issued \cup {m}, accepted' \subseteq accepted \cup {m},
         UNCHANGED <<told, gone>>
  PROVE  BoxTyped'
BY PlaceTyped DEF BoxTyped, Put

LEMMA BoxTypedLoop ==
  ASSUME BoxTyped, Loop
  PROVE  BoxTyped'
<1> USE DEF BoxTyped, clientVars, boxVars, netVars, brokerVars, pastVars
<1>1. CASE TaskStarts
  BY <1>1 DEF TaskStarts
<1>1a. CASE TaskEnters
  BY <1>1a DEF TaskEnters
<1>1b. CASE TaskClears
  BY <1>1b DEF TaskClears
<1>2. CASE EnterState
  BY <1>2 DEF EnterState, TakesLock, DeleteExpired, Drop
<1>3. CASE NoTransport
  BY <1>3 DEF NoTransport
<1>4. CASE ConnectFails
  BY <1>4 DEF ConnectFails
<1>5. CASE Connect
  BY <1>5 DEF Connect
<1>6. CASE ServeDisconnect
  BY <1>6 DEF ServeDisconnect
<1>7. CASE ReceiveNothing
  BY <1>7 DEF ReceiveNothing
<1>8. CASE ReceiveFails
  BY <1>8 DEF ReceiveFails
<1>9. CASE ReceiveSuback
  BY <1>9 DEF ReceiveSuback, FinalRest, Finish, Delete, Drop
<1>10. CASE ReceiveUnsuback
  BY <1>10 DEF ReceiveUnsuback, FinalRest, Finish, Delete, Drop
<1>11. CASE ReceivePublish
  BY <1>11 DEF ReceivePublish
<1>12. CASE ReceivePuback
  BY <1>12 DEF ReceivePuback, FinalRest, Finish, Delete, Drop
<1>13. CASE ReceivePubrec
  BY <1>13 DEF ReceivePubrec, Mark, Get
<1>14. CASE ReceivePubrel
  BY <1>14 DEF ReceivePubrel
<1>15. CASE ReceivePubcomp
  BY <1>15 DEF ReceivePubcomp, FinalRest, Finish, Delete, Drop
<1>16. CASE ReceivePingresp
  BY <1>16 DEF ReceivePingresp
<1>17. CASE SendQueued
  BY <1>17 DEF SendQueued, DeleteItem, Drop, Mark, Get
<1>18. CASE NothingToResend
  BY <1>18 DEF NothingToResend
<1>19. CASE Retransmit
  BY <1>19 DEF Retransmit
<1>20. CASE ResendPubrel
  BY <1>20 DEF ResendPubrel
<1>21. CASE KeepAlive
  BY <1>21 DEF KeepAlive
<1>22. CASE KeepAliveFails
  BY <1>22 DEF KeepAliveFails
<1>23. CASE Refresh
  BY <1>23 DEF Refresh
<1>24. CASE PollEnds
  BY <1>24 DEF PollEnds
<1>25. CASE Reconnect
  BY <1>25 DEF Reconnect, TakesLock, DeleteExpired, Drop
<1>26. CASE KeepWaiting
  BY <1>26 DEF KeepWaiting, TakesLock, DeleteExpired, Drop
<1>27. CASE LoopEnds
  BY <1>27 DEF LoopEnds, DeleteAllItems, Drop
<1>28. CASE TaskEnds
  BY <1>28 DEF TaskEnds
<1>29. QED
  BY <1>1, <1>1a, <1>1b, <1>2, <1>3, <1>4, <1>5, <1>6, <1>7, <1>8, <1>9, <1>10, <1>11,
     <1>12, <1>13, <1>14, <1>15, <1>16, <1>17, <1>18, <1>19, <1>20, <1>21,
     <1>22, <1>23, <1>24, <1>25, <1>26, <1>27, <1>28
  DEF Loop, Receive, Resend

LEMMA BoxTypedApplication ==
  ASSUME BoxTyped, Application
  PROVE  BoxTyped'
<1> USE DEF BoxTyped, clientVars, boxVars, netVars, brokerVars, pastVars
<1>1. CASE Start
  BY <1>1 DEF Start
<1>2. CASE Stop
  BY <1>2 DEF Stop
<1>3. CASE StopReturns
  BY <1>3 DEF StopReturns
<1>4. CASE Disconnect
  BY <1>4 DEF Disconnect
<1>5. CASE ReconnectCheck
  BY <1>5 DEF ReconnectCheck
<1>6. CASE ReconnectSet
  BY <1>6 DEF ReconnectSet
<1>7. ASSUME NEW m \in Outgoing, Publish(m)
      PROVE  BoxTyped'
  <2>1. /\ issued' = issued \cup {m}
        /\ accepted' \subseteq accepted \cup {m}
        /\ UNCHANGED <<told, gone>>
    BY <1>7 DEF Publish
  <2>2. UNCHANGED boxVars \/ Put(m, "queued") \/ Put(m, "transmitted")
    BY <1>7 DEF Publish
  <2>3. QED
    BY <2>1, <2>2, PutTyped DEF BoxTyped, boxVars
<1>8. ASSUME NEW m \in Outgoing, Enqueue(m)
      PROVE  BoxTyped'
  BY <1>8, PutTyped DEF Enqueue
<1>9. ASSUME NEW m \in Outgoing, SubscribeCheck(m)
      PROVE  BoxTyped'
  BY <1>9 DEF SubscribeCheck, Checked, RequestRest
<1>10. ASSUME NEW m \in Outgoing, UnsubscribeCheck(m)
      PROVE  BoxTyped'
  BY <1>10 DEF UnsubscribeCheck, Checked, RequestRest
<1>11. CASE RequestSend
  <2>1. /\ caller \in Outgoing
        /\ Put(caller, "transmitted")
        /\ issued' = issued \cup {caller}
        /\ accepted' \subseteq accepted \cup {caller}
    BY <1>11 DEF RequestSend, Subscribe, Unsubscribe, SendRequest, Outgoing,
           Requests
  <2>2. UNCHANGED <<told, gone>>
    BY <1>11 DEF RequestSend, Subscribe, Unsubscribe, SendRequest, RequestRest
  <2>3. QED
    BY <2>1, <2>2, PutTyped
<1>12. QED
  BY <1>1, <1>2, <1>3, <1>4, <1>5, <1>6, <1>7, <1>8, <1>9, <1>10, <1>11
  DEF Application

LEMMA BoxTypedBroker ==
  ASSUME BoxTyped, Broker \/ LinkFails \/ Tick
  PROVE  BoxTyped'
<1> USE DEF BoxTyped, clientVars, boxVars, netVars, brokerVars, pastVars
<1>1. CASE BrokerReadsPublish
  BY <1>1 DEF BrokerReadsPublish
<1>2. CASE BrokerReadsPubrel
  BY <1>2 DEF BrokerReadsPubrel
<1>3. CASE BrokerReadsRequest
  BY <1>3 DEF BrokerReadsRequest
<1>4. CASE BrokerReadsOther
  BY <1>4 DEF BrokerReadsOther
<1>5. CASE BrokerReadsAnswer
  BY <1>5 DEF BrokerReadsAnswer
<1>6. CASE BrokerPublishes
  BY <1>6 DEF BrokerPublishes
<1>7. CASE LinkFails
  BY <1>7 DEF LinkFails
<1>8. CASE Tick
  BY <1>8 DEF Tick
<1>9. QED
  BY <1>1, <1>2, <1>3, <1>4, <1>5, <1>6, <1>7, <1>8
  DEF Broker

-----------------------------------------------------------------------------
(* The broker *)

BrokerTyped ==
  /\ held \subseteq Qos2
  /\ inbound \in [Incoming -> {"new", "sent", "received", "released", "done",
                               "lost"}]
  /\ got \in [Outgoing -> 0 .. 2]
  /\ seen \subseteq Incoming

\* The broker acts on a message
LEMMA ActedTyped ==
  ASSUME BrokerTyped, NEW m \in Outgoing
  PROVE [got EXCEPT ![m] = Often(@)] \in [Outgoing -> 0 .. 2]
BY DEF BrokerTyped, Often

LEMMA BrokerTypedLoop ==
  ASSUME BrokerTyped, Loop
  PROVE  BrokerTyped'
<1> USE DEF BrokerTyped, clientVars, boxVars, netVars, brokerVars, pastVars
<1>1. CASE TaskStarts
  BY <1>1 DEF TaskStarts
<1>1a. CASE TaskEnters
  BY <1>1a DEF TaskEnters
<1>1b. CASE TaskClears
  BY <1>1b DEF TaskClears
<1>2. CASE EnterState
  BY <1>2 DEF EnterState, TakesLock
<1>3. CASE NoTransport
  BY <1>3 DEF NoTransport
<1>4. CASE ConnectFails
  BY <1>4 DEF ConnectFails
<1>5. CASE Connect
  BY <1>5 DEF Connect, Resumed
<1>6. CASE ServeDisconnect
  BY <1>6 DEF ServeDisconnect
<1>7. CASE ReceiveNothing
  BY <1>7 DEF ReceiveNothing
<1>8. CASE ReceiveFails
  BY <1>8 DEF ReceiveFails
<1>9. CASE ReceiveSuback
  BY <1>9 DEF ReceiveSuback, FinalRest
<1>10. CASE ReceiveUnsuback
  BY <1>10 DEF ReceiveUnsuback, FinalRest
<1>11. CASE ReceivePublish
  BY <1>11 DEF ReceivePublish
<1>12. CASE ReceivePuback
  BY <1>12 DEF ReceivePuback, FinalRest
<1>13. CASE ReceivePubrec
  BY <1>13 DEF ReceivePubrec
<1>14. CASE ReceivePubrel
  BY <1>14 DEF ReceivePubrel
<1>15. CASE ReceivePubcomp
  BY <1>15 DEF ReceivePubcomp, FinalRest
<1>16. CASE ReceivePingresp
  BY <1>16 DEF ReceivePingresp
<1>17. CASE SendQueued
  BY <1>17 DEF SendQueued
<1>18. CASE NothingToResend
  BY <1>18 DEF NothingToResend
<1>19. CASE Retransmit
  BY <1>19 DEF Retransmit
<1>20. CASE ResendPubrel
  BY <1>20 DEF ResendPubrel
<1>21. CASE KeepAlive
  BY <1>21 DEF KeepAlive
<1>22. CASE KeepAliveFails
  BY <1>22 DEF KeepAliveFails
<1>23. CASE Refresh
  BY <1>23 DEF Refresh
<1>24. CASE PollEnds
  BY <1>24 DEF PollEnds
<1>25. CASE Reconnect
  BY <1>25 DEF Reconnect, TakesLock
<1>26. CASE KeepWaiting
  BY <1>26 DEF KeepWaiting, TakesLock
<1>27. CASE LoopEnds
  BY <1>27 DEF LoopEnds
<1>28. CASE TaskEnds
  BY <1>28 DEF TaskEnds
<1>29. QED
  BY <1>1, <1>1a, <1>1b, <1>2, <1>3, <1>4, <1>5, <1>6, <1>7, <1>8, <1>9, <1>10, <1>11,
     <1>12, <1>13, <1>14, <1>15, <1>16, <1>17, <1>18, <1>19, <1>20, <1>21,
     <1>22, <1>23, <1>24, <1>25, <1>26, <1>27, <1>28
  DEF Loop, Receive, Resend

LEMMA BrokerTypedApplication ==
  ASSUME BrokerTyped, Application
  PROVE  BrokerTyped'
<1> USE DEF BrokerTyped, clientVars, boxVars, netVars, brokerVars, pastVars
<1>1. CASE Start
  BY <1>1 DEF Start
<1>2. CASE Stop
  BY <1>2 DEF Stop
<1>3. CASE StopReturns
  BY <1>3 DEF StopReturns
<1>4. CASE Disconnect
  BY <1>4 DEF Disconnect
<1>5. CASE ReconnectCheck
  BY <1>5 DEF ReconnectCheck
<1>6. CASE ReconnectSet
  BY <1>6 DEF ReconnectSet
<1>7. ASSUME NEW m \in Outgoing, Publish(m)
      PROVE  BrokerTyped'
  BY <1>7 DEF Publish
<1>8. ASSUME NEW m \in Outgoing, Enqueue(m)
      PROVE  BrokerTyped'
  BY <1>8 DEF Enqueue
<1>9. ASSUME NEW m \in Outgoing, SubscribeCheck(m)
      PROVE  BrokerTyped'
  BY <1>9 DEF SubscribeCheck, Checked, RequestRest
<1>10. ASSUME NEW m \in Outgoing, UnsubscribeCheck(m)
      PROVE  BrokerTyped'
  BY <1>10 DEF UnsubscribeCheck, Checked, RequestRest
<1>11. CASE RequestSend
  BY <1>11 DEF RequestSend, Subscribe, Unsubscribe, SendRequest, RequestRest
<1>12. QED
  BY <1>1, <1>2, <1>3, <1>4, <1>5, <1>6, <1>7, <1>8, <1>9, <1>10, <1>11
  DEF Application

LEMMA BrokerTypedBroker ==
  ASSUME BrokerTyped, Broker \/ LinkFails \/ Tick
  PROVE  BrokerTyped'
<1> USE DEF BrokerTyped, clientVars, boxVars, netVars, brokerVars, pastVars
<1>1. CASE BrokerReadsPublish
  BY <1>1, ActedTyped DEF BrokerReadsPublish, BrokerTyped, Outgoing,
     Publishes, pastVars
<1>2. CASE BrokerReadsPubrel
  BY <1>2, ActedTyped DEF BrokerReadsPubrel, BrokerTyped, pastVars
<1>3. CASE BrokerReadsRequest
  BY <1>3, ActedTyped DEF BrokerReadsRequest, BrokerTyped, Outgoing, pastVars
<1>4. CASE BrokerReadsOther
  BY <1>4 DEF BrokerReadsOther
<1>5. CASE BrokerReadsAnswer
  BY <1>5 DEF BrokerReadsAnswer
<1>6. CASE BrokerPublishes
  BY <1>6 DEF BrokerPublishes
<1>7. CASE LinkFails
  BY <1>7 DEF LinkFails
<1>8. CASE Tick
  BY <1>8 DEF Tick
<1>9. QED
  BY <1>1, <1>2, <1>3, <1>4, <1>5, <1>6, <1>7, <1>8
  DEF Broker

-----------------------------------------------------------------------------
(* The packets *)

NetTyped ==
  /\ up \in Seq(Packets)
  /\ down \in Seq(Packets)
  /\ down # <<>> => link \in {"open", "silent"}

\* What the client and the broker write are packets.
LEMMA PacketTyped ==
  /\ \A m \in Outgoing : Packet(MsgType(m), m) \in Packets
  /\ \A m \in Msgs, t \in {"PUBLISH", "PUBACK", "PUBREC", "PUBREL", "PUBCOMP",
                           "SUBACK", "UNSUBACK"} :
       Packet(t, m) \in Packets
  /\ \A t \in {"PINGREQ", "PINGRESP", "DISCONNECT"} :
       Packet(t, None) \in Packets
BY DEF Packet, Packets, MsgType, Msgs

\* esp_mqtt_write
LEMMA WriteTyped ==
  ASSUME NetTyped, NEW p \in Packets,
         WriteOk(p) \/ WriteFails \/ WriteOrAbort(p)
  PROVE  up' \in Seq(Packets)
<1>1. up' = up \/ up' = Append(up, p)
  BY DEF WriteOk, WriteFails, WriteOrAbort
<1>2. up \in Seq(Packets) /\ Append(up, p) \in Seq(Packets)
  BY DEF NetTyped
<1>3. QED
  BY <1>1, <1>2

LEMMA ReplyTyped ==
  ASSUME NetTyped, NEW t, NEW m, Packet(t, m) \in Packets, Reply(t, m),
         UNCHANGED link
  PROVE  /\ down' \in Seq(Packets)
         /\ down' # <<>> => link' \in {"open", "silent"}
BY DEF NetTyped, Reply

LEMMA WriteOrAbortTyped ==
  ASSUME NetTyped, NEW p \in Packets, WriteOrAbort(p)
  PROVE  NetTyped'
<1>1. up' \in Seq(Packets)
  BY WriteTyped
<1>2. UNCHANGED <<link, down>> \/ down' = <<>>
  BY DEF WriteOrAbort, Abort, Connection
<1>3. <<>> \in Seq(Packets)
  OBVIOUS
<1>4. QED
  BY <1>1, <1>2, <1>3 DEF NetTyped

LEMMA NetTypedLoop ==
  ASSUME NetTyped, BoxTyped, Loop
  PROVE  NetTyped'
<1> USE PacketTyped, WriteTyped DEF NetTyped, Outgoing, Msgs, clientVars,
        boxVars, netVars, brokerVars, pastVars
<1>1. CASE TaskStarts
  BY <1>1 DEF TaskStarts
<1>1a. CASE TaskEnters
  BY <1>1a DEF TaskEnters
<1>1b. CASE TaskClears
  BY <1>1b DEF TaskClears
<1>2. CASE EnterState
  BY <1>2 DEF EnterState, TakesLock
<1>3. CASE NoTransport
  BY <1>3 DEF NoTransport
<1>4. CASE ConnectFails
  BY <1>4 DEF ConnectFails, Abort
<1>5. CASE Connect
  BY <1>5 DEF Connect
<1>6. CASE ServeDisconnect
  BY <1>6 DEF ServeDisconnect, SendDisconnect, Abort
<1>7. CASE ReceiveNothing
  BY <1>7 DEF ReceiveNothing
<1>8. CASE ReceiveFails
  BY <1>8 DEF ReceiveFails, Abort
<1>9. CASE ReceiveSuback
  BY <1>9 DEF ReceiveSuback, FinalRest, Handled, Receives
<1>10. CASE ReceiveUnsuback
  BY <1>10 DEF ReceiveUnsuback, FinalRest, Handled, Receives
<1>11. CASE ReceivePublish
  <2>1. PICK i \in Incoming :
          /\ Receives("PUBLISH", Packet("PUBLISH", i))
          /\ \/ WriteOk(Packet(IF i \in In1 THEN "PUBACK" ELSE "PUBREC", i))
             \/ WriteFails
          /\ (Handled /\ UNCHANGED link) \/ Abort
    BY <1>11 DEF ReceivePublish
  <2>2. Packet(IF i \in In1 THEN "PUBACK" ELSE "PUBREC", i) \in Packets
    BY DEF Msgs
  <2>3. up' \in Seq(Packets)
    BY <2>1, <2>2, WriteTyped
  <2>4. CASE Handled /\ UNCHANGED link
    BY <2>1, <2>3, <2>4 DEF NetTyped, Handled, Receives
  <2>5. CASE Abort
    <3>1. down' = <<>> /\ <<>> \in Seq(Packets)
      BY <2>5 DEF Abort
    <3>2. QED
      BY <2>3, <3>1 DEF NetTyped
  <2>6. QED
    BY <2>1, <2>4, <2>5
<1>12. CASE ReceivePuback
  BY <1>12 DEF ReceivePuback, FinalRest, Handled, Receives
<1>13. CASE ReceivePubrec
  BY <1>13 DEF ReceivePubrec, Handled, Receives
<1>14. CASE ReceivePubrel
  BY <1>14 DEF ReceivePubrel, Handled, Receives
<1>15. CASE ReceivePubcomp
  BY <1>15 DEF ReceivePubcomp, FinalRest, Handled, Receives
<1>16. CASE ReceivePingresp
  BY <1>16 DEF ReceivePingresp, Handled, Receives
<1>17. CASE SendQueued
  BY <1>17, WriteOrAbortTyped DEF SendQueued, BoxTyped
<1>18. CASE NothingToResend
  BY <1>18 DEF NothingToResend
<1>19. CASE Retransmit
  <2>1. \/ UNCHANGED <<link, up, down>>
        \/ \E m \in Outgoing : WriteOrAbort(Packet(MsgType(m), m))
    BY <1>19 DEF Retransmit, BoxTyped
  <2>2. CASE UNCHANGED <<link, up, down>>
    BY <2>2 DEF NetTyped
  <2>3. QED
    BY <2>1, <2>2, WriteOrAbortTyped
<1>20. CASE ResendPubrel
  BY <1>20, WriteOrAbortTyped DEF ResendPubrel, BoxTyped
<1>21. CASE KeepAlive
  BY <1>21 DEF KeepAlive, Connection, Ping
<1>22. CASE KeepAliveFails
  BY <1>22 DEF KeepAliveFails, Abort
<1>23. CASE Refresh
  <2>1. \/ UNCHANGED <<link, up, down>>
        \/ UNCHANGED up /\ down' = <<>>
    BY <1>23 DEF Refresh
  <2>2. CASE UNCHANGED <<link, up, down>>
    BY <2>2 DEF NetTyped
  <2>3. CASE UNCHANGED up /\ down' = <<>>
    <3>1. <<>> \in Seq(Packets)
      OBVIOUS
    <3>2. QED
      BY <2>3, <3>1 DEF NetTyped
  <2>4. QED
    BY <2>1, <2>2, <2>3
<1>24. CASE PollEnds
  BY <1>24 DEF PollEnds, Connection, Abort
<1>25. CASE Reconnect
  BY <1>25 DEF Reconnect, TakesLock
<1>26. CASE KeepWaiting
  BY <1>26 DEF KeepWaiting, TakesLock
<1>27. CASE LoopEnds
  BY <1>27 DEF LoopEnds
<1>28. CASE TaskEnds
  BY <1>28 DEF TaskEnds
<1>29. QED
  BY <1>1, <1>1a, <1>1b, <1>2, <1>3, <1>4, <1>5, <1>6, <1>7, <1>8, <1>9, <1>10, <1>11,
     <1>12, <1>13, <1>14, <1>15, <1>16, <1>17, <1>18, <1>19, <1>20, <1>21,
     <1>22, <1>23, <1>24, <1>25, <1>26, <1>27, <1>28
  DEF Loop, Receive, Resend

LEMMA NetTypedApplication ==
  ASSUME NetTyped, BoxTyped, Application
  PROVE  NetTyped'
<1> USE PacketTyped, WriteTyped DEF NetTyped, Outgoing, Msgs, clientVars,
        boxVars, netVars, brokerVars, pastVars
<1>1. CASE Start
  BY <1>1 DEF Start
<1>2. CASE Stop
  BY <1>2 DEF Stop, SendDisconnect
<1>3. CASE StopReturns
  BY <1>3 DEF StopReturns
<1>4. CASE Disconnect
  BY <1>4 DEF Disconnect
<1>5. CASE ReconnectCheck
  BY <1>5 DEF ReconnectCheck
<1>6. CASE ReconnectSet
  BY <1>6 DEF ReconnectSet
<1>7. ASSUME NEW m \in Outgoing, Publish(m) PROVE NetTyped'
  <2>1. UNCHANGED <<up, Connection>> \/ WriteOrAbort(Packet("PUBLISH", m))
    BY <1>7 DEF Publish, WriteOrAbort
  <2>2. QED
    BY <2>1, WriteOrAbortTyped DEF NetTyped, Connection
<1>8. ASSUME NEW m \in Outgoing, Enqueue(m)
      PROVE  NetTyped'
  BY <1>8 DEF Enqueue
<1>9. ASSUME NEW m \in Outgoing, SubscribeCheck(m)
      PROVE  NetTyped'
  BY <1>9 DEF SubscribeCheck, Checked, RequestRest
<1>10. ASSUME NEW m \in Outgoing, UnsubscribeCheck(m)
      PROVE  NetTyped'
  BY <1>10 DEF UnsubscribeCheck, Checked, RequestRest
<1>11. CASE RequestSend
  <2>1. caller \in Outgoing /\ RequestRest
        /\ (WriteOk(Packet(MsgType(caller), caller)) \/ WriteFails)
    BY <1>11 DEF RequestSend, Subscribe, Unsubscribe, SendRequest, Outgoing,
           Requests
  <2>2. up' \in Seq(Packets)
    BY <2>1, WriteTyped
  <2>3. QED
    BY <2>1, <2>2 DEF NetTyped, RequestRest
<1>12. QED
  BY <1>1, <1>2, <1>3, <1>4, <1>5, <1>6, <1>7, <1>8, <1>9, <1>10, <1>11
  DEF Application

LEMMA NetTypedBroker ==
  ASSUME NetTyped, BoxTyped, Broker \/ LinkFails \/ Tick
  PROVE  NetTyped'
<1> USE PacketTyped, ReplyTyped DEF NetTyped, Outgoing, Msgs, clientVars,
        boxVars, netVars, brokerVars, pastVars
<1>1. CASE BrokerReadsPublish
  BY <1>1 DEF BrokerReadsPublish, BrokerTakes
<1>2. CASE BrokerReadsPubrel
  BY <1>2 DEF BrokerReadsPubrel, BrokerTakes
<1>3. CASE BrokerReadsRequest
  BY <1>3 DEF BrokerReadsRequest, BrokerTakes
<1>4. CASE BrokerReadsOther
  <2>1. /\ up # <<>> /\ up' = Tail(up) /\ UNCHANGED link
        /\ Reply("PINGRESP", None) \/ UNCHANGED down
    BY <1>4 DEF BrokerReadsOther, BrokerTakes
  <2>2. QED
    BY <2>1, ReplyTyped DEF NetTyped
<1>5. CASE BrokerReadsAnswer
  BY <1>5 DEF BrokerReadsAnswer, BrokerTakes
<1>6. CASE BrokerPublishes
  <2>1. PICK p \in Packets : down' = Append(down, p)
    BY <1>6 DEF BrokerPublishes, Msgs
  <2>2. QED
    BY <1>6, <2>1 DEF NetTyped, BrokerPublishes
<1>7. CASE LinkFails
  BY <1>7 DEF LinkFails
<1>8. CASE Tick
  BY <1>8 DEF Tick
<1>9. QED
  BY <1>1, <1>2, <1>3, <1>4, <1>5, <1>6, <1>7, <1>8
  DEF Broker

-----------------------------------------------------------------------------
(* Stopping *)

\* A task that is not in its loop or at its head has run FALSE; STOPPED_BIT is
\* clear in the loop; and nobody starts a task while one is being stopped.
StopInv ==
  /\ task \in {"none", "starting", "ending"} => ~run
  /\ run /\ stopped => StaleBit
  /\ caller = "stopping" => ~run /\ task # "starting"
  /\ StoppedIsEnded

LEMMA StopInvLoop ==
  ASSUME StopInv, Loop
  PROVE  StopInv'
<1> USE DEF StopInv, StoppedIsEnded, StaleBit
<1>1. CASE TaskStarts
  BY <1>1 DEF TaskStarts
<1>1a. CASE TaskEnters
  BY <1>1a DEF TaskEnters
<1>1b. CASE TaskClears
  BY <1>1b DEF TaskClears
<1>2. CASE EnterState
  BY <1>2 DEF EnterState, TakesLock
<1>3. CASE NoTransport
  BY <1>3 DEF NoTransport
<1>4. CASE ConnectFails
  BY <1>4 DEF ConnectFails
<1>5. CASE Connect
  BY <1>5 DEF Connect
<1>6. CASE ServeDisconnect
  BY <1>6 DEF ServeDisconnect
<1>7. CASE ReceiveNothing
  BY <1>7 DEF ReceiveNothing
<1>8. CASE ReceiveFails
  BY <1>8 DEF ReceiveFails
<1>9. CASE ReceiveSuback
  BY <1>9 DEF ReceiveSuback, FinalRest, Handled, Receives
<1>10. CASE ReceiveUnsuback
  BY <1>10 DEF ReceiveUnsuback, FinalRest, Handled, Receives
<1>11. CASE ReceivePublish
  BY <1>11 DEF ReceivePublish, Handled, Receives
<1>12. CASE ReceivePuback
  BY <1>12 DEF ReceivePuback, FinalRest, Handled, Receives
<1>13. CASE ReceivePubrec
  BY <1>13 DEF ReceivePubrec, Handled, Receives
<1>14. CASE ReceivePubrel
  BY <1>14 DEF ReceivePubrel, Handled, Receives
<1>15. CASE ReceivePubcomp
  BY <1>15 DEF ReceivePubcomp, FinalRest, Handled, Receives
<1>16. CASE ReceivePingresp
  BY <1>16 DEF ReceivePingresp, Handled, Receives
<1>17. CASE SendQueued
  BY <1>17 DEF SendQueued
<1>18. CASE NothingToResend
  BY <1>18 DEF NothingToResend
<1>19. CASE Retransmit
  BY <1>19 DEF Retransmit
<1>20. CASE ResendPubrel
  BY <1>20 DEF ResendPubrel
<1>21. CASE KeepAlive
  BY <1>21 DEF KeepAlive, IterationEnds
<1>22. CASE KeepAliveFails
  BY <1>22 DEF KeepAliveFails
<1>23. CASE Refresh
  BY <1>23 DEF Refresh, IterationEnds
<1>24. CASE PollEnds
  BY <1>24 DEF PollEnds
<1>25. CASE Reconnect
  BY <1>25 DEF Reconnect, TakesLock
<1>26. CASE KeepWaiting
  BY <1>26 DEF KeepWaiting, TakesLock, clientVars
<1>27. CASE LoopEnds
  BY <1>27 DEF LoopEnds
<1>28. CASE TaskEnds
  BY <1>28 DEF TaskEnds
<1>29. QED
  BY <1>1, <1>1a, <1>1b, <1>2, <1>3, <1>4, <1>5, <1>6, <1>7, <1>8, <1>9, <1>10, <1>11,
     <1>12, <1>13, <1>14, <1>15, <1>16, <1>17, <1>18, <1>19, <1>20, <1>21,
     <1>22, <1>23, <1>24, <1>25, <1>26, <1>27, <1>28
  DEF Loop, Receive, Resend

LEMMA StopInvApplication ==
  ASSUME StopInv, Application
  PROVE  StopInv'
<1> USE DEF StopInv, StoppedIsEnded, StaleBit
<1>1. CASE Start
  BY <1>1 DEF Start, Calling
<1>2. CASE Stop
  BY <1>2 DEF Stop, Calling
<1>3. CASE StopReturns
  BY <1>3 DEF StopReturns
<1>4. CASE Disconnect
  BY <1>4 DEF Disconnect
<1>5. CASE ReconnectCheck \/ ReconnectSet
  BY <1>5 DEF ReconnectCheck, ReconnectSet, Calling
<1>6. ASSUME NEW m \in Outgoing, Publish(m) \/ Enqueue(m)
      PROVE  StopInv'
  BY <1>6 DEF Publish, Enqueue, clientVars
<1>7. ASSUME NEW m \in Outgoing, SubscribeCheck(m) \/ UnsubscribeCheck(m)
      PROVE  StopInv'
  BY <1>7, KindsAssumption DEF SubscribeCheck, UnsubscribeCheck, Checked,
     Fresh,
         RequestRest, Requests, Outgoing, Msgs
<1>8. CASE RequestSend
  BY <1>8 DEF RequestSend, Subscribe, Unsubscribe, SendRequest, RequestRest
<1>9. QED
  BY <1>1, <1>2, <1>3, <1>4, <1>5, <1>6, <1>7, <1>8 DEF Application

LEMMA StopInvBroker ==
  ASSUME StopInv, Broker \/ LinkFails \/ Tick
  PROVE  StopInv'
BY DEF StopInv, StoppedIsEnded, StaleBit, Broker, BrokerReadsPublish, BrokerReadsPubrel,
       BrokerReadsRequest, BrokerReadsOther, BrokerReadsAnswer,
       BrokerPublishes, LinkFails, Tick, clientVars

\* A caller for whom esp_mqtt_client_stop has returned finds that the task
\* has ended (STOPPED_BIT is its last store), or that it is at its head and
\* the bit is that of an earlier one.
THEOREM StopIsSafe == Spec => []StoppedIsEnded
<1>1. Init => StopInv
  BY DEF Init, StopInv, StoppedIsEnded, StaleBit
<1>2. StopInv /\ [Next]_vars => StopInv'
  <2>1. ASSUME StopInv, Next
        PROVE  StopInv'
    BY <2>1, StopInvLoop, StopInvApplication, StopInvBroker DEF Next
  <2>2. ASSUME StopInv, UNCHANGED vars
        PROVE  StopInv'
    BY <2>2 DEF StopInv, StoppedIsEnded, StaleBit, vars, clientVars
  <2>3. QED
    BY <2>1, <2>2
<1>3. StopInv => StoppedIsEnded
  BY DEF StopInv
<1>4. QED
  BY <1>1, <1>2, <1>3, PTL DEF Spec

-----------------------------------------------------------------------------
(* Type correctness *)

TypeInv == ClientTyped /\ CountsTyped /\ BoxTyped /\ BrokerTyped /\ NetTyped

LEMMA TypeInvImpliesTypeOK == TypeInv => TypeOK
BY DEF TypeInv, TypeOK, ClientTyped, CountsTyped, BoxTyped, BrokerTyped,
       NetTyped

LEMMA TypeInvInit == Init => TypeInv
<1> SUFFICES ASSUME Init
             PROVE  TypeInv
  OBVIOUS
<1>1. ClientTyped
  BY DEF Init, ClientTyped
<1>2. CountsTyped
  BY DEF Init, CountsTyped
<1>3. BoxTyped
  BY DEF Init, BoxTyped
<1>4. BrokerTyped
  BY DEF Init, BrokerTyped
<1>5. NetTyped
  BY DEF Init, NetTyped
<1>6. QED
  BY <1>1, <1>2, <1>3, <1>4, <1>5 DEF TypeInv

LEMMA TypeInvNext == TypeInv /\ [Next]_vars => TypeInv'
<1>1. ASSUME TypeInv, Next
      PROVE  TypeInv'
  <2> USE DEF TypeInv
  <2>1. CASE Loop
    BY <1>1, <2>1, ClientTypedLoop, CountsTypedLoop, BoxTypedLoop,
       BrokerTypedLoop, NetTypedLoop
  <2>2. CASE Application
    BY <1>1, <2>2, ClientTypedApplication, CountsTypedApplication,
       BoxTypedApplication, BrokerTypedApplication, NetTypedApplication
  <2>3. CASE Broker \/ LinkFails \/ Tick
    BY <1>1, <2>3, ClientTypedBroker, CountsTypedBroker, BoxTypedBroker,
       BrokerTypedBroker, NetTypedBroker
  <2>4. QED
    BY <1>1, <2>1, <2>2, <2>3 DEF Next
<1>2. ASSUME TypeInv, UNCHANGED vars
      PROVE  TypeInv'
  <2> USE <1>2 DEF TypeInv, vars, clientVars, boxVars, netVars, brokerVars,
                   pastVars
  <2>1. ClientTyped'
    BY DEF ClientTyped
  <2>2. CountsTyped'
    BY DEF CountsTyped
  <2>3. BoxTyped'
    BY DEF BoxTyped
  <2>4. BrokerTyped'
    BY DEF BrokerTyped
  <2>5. NetTyped'
    BY DEF NetTyped
  <2>6. QED
    BY <2>1, <2>2, <2>3, <2>4, <2>5
<1>3. QED
  BY <1>1, <1>2

\* Each part of the state keeps its type.
THEOREM TypesKept == Spec => []TypeInv
BY TypeInvInit, TypeInvNext, PTL DEF Spec

\* Every variable keeps its type, no ping is awaited while the task waits to
\* reconnect (esp_mqtt_abort_connection clears it), and nothing arrives
\* without a connection.
THEOREM TypeCorrect == Spec => []TypeOK
BY TypesKept, TypeInvImpliesTypeOK, PTL

-----------------------------------------------------------------------------
(* Nothing is forgotten *)

LEMMA NothingForgottenLoop ==
  ASSUME NothingForgotten, Loop
  PROVE  NothingForgotten'
<1> USE DEF NothingForgotten, clientVars, boxVars, netVars, brokerVars,
        pastVars
<1>1. CASE TaskStarts
  BY <1>1 DEF TaskStarts
<1>1a. CASE TaskEnters
  BY <1>1a DEF TaskEnters
<1>1b. CASE TaskClears
  BY <1>1b DEF TaskClears
<1>2. CASE EnterState
  BY <1>2 DEF EnterState, TakesLock, DeleteExpired, Drop
<1>3. CASE NoTransport
  BY <1>3 DEF NoTransport
<1>4. CASE ConnectFails
  BY <1>4 DEF ConnectFails
<1>5. CASE Connect
  BY <1>5 DEF Connect
<1>6. CASE ServeDisconnect
  BY <1>6 DEF ServeDisconnect
<1>7. CASE ReceiveNothing
  BY <1>7 DEF ReceiveNothing
<1>8. CASE ReceiveFails
  BY <1>8 DEF ReceiveFails
<1>9. CASE ReceiveSuback
  BY <1>9 DEF ReceiveSuback, FinalRest, Finish, Delete, Drop
<1>10. CASE ReceiveUnsuback
  BY <1>10 DEF ReceiveUnsuback, FinalRest, Finish, Delete, Drop
<1>11. CASE ReceivePublish
  BY <1>11 DEF ReceivePublish
<1>12. CASE ReceivePuback
  BY <1>12 DEF ReceivePuback, FinalRest, Finish, Delete, Drop
<1>13. CASE ReceivePubrec
  BY <1>13 DEF ReceivePubrec, Mark
<1>14. CASE ReceivePubrel
  BY <1>14 DEF ReceivePubrel
<1>15. CASE ReceivePubcomp
  BY <1>15 DEF ReceivePubcomp, FinalRest, Finish, Delete, Drop
<1>16. CASE ReceivePingresp
  BY <1>16 DEF ReceivePingresp
<1>17. CASE SendQueued
  BY <1>17 DEF SendQueued, DeleteItem, Drop, Mark
<1>18. CASE NothingToResend
  BY <1>18 DEF NothingToResend
<1>19. CASE Retransmit
  BY <1>19 DEF Retransmit
<1>20. CASE ResendPubrel
  BY <1>20 DEF ResendPubrel
<1>21. CASE KeepAlive
  BY <1>21 DEF KeepAlive
<1>22. CASE KeepAliveFails
  BY <1>22 DEF KeepAliveFails
<1>23. CASE Refresh
  BY <1>23 DEF Refresh
<1>24. CASE PollEnds
  BY <1>24 DEF PollEnds
<1>25. CASE Reconnect
  BY <1>25 DEF Reconnect, TakesLock, DeleteExpired, Drop
<1>26. CASE KeepWaiting
  BY <1>26 DEF KeepWaiting, TakesLock, DeleteExpired, Drop
<1>27. CASE LoopEnds
  BY <1>27 DEF LoopEnds, DeleteAllItems, Drop
<1>28. CASE TaskEnds
  BY <1>28 DEF TaskEnds
<1>29. QED
  BY <1>1, <1>1a, <1>1b, <1>2, <1>3, <1>4, <1>5, <1>6, <1>7, <1>8, <1>9, <1>10, <1>11,
     <1>12, <1>13, <1>14, <1>15, <1>16, <1>17, <1>18, <1>19, <1>20, <1>21,
     <1>22, <1>23, <1>24, <1>25, <1>26, <1>27, <1>28
  DEF Loop, Receive, Resend

LEMMA NothingForgottenApplication ==
  ASSUME NothingForgotten, Application
  PROVE  NothingForgotten'
<1> USE DEF NothingForgotten, clientVars, boxVars, netVars, brokerVars,
        pastVars
<1>1. CASE Start
  BY <1>1 DEF Start
<1>2. CASE Stop
  BY <1>2 DEF Stop
<1>3. CASE StopReturns
  BY <1>3 DEF StopReturns
<1>4. CASE Disconnect
  BY <1>4 DEF Disconnect
<1>5. CASE ReconnectCheck
  BY <1>5 DEF ReconnectCheck
<1>6. CASE ReconnectSet
  BY <1>6 DEF ReconnectSet
<1>7. ASSUME NEW m \in Outgoing, Publish(m)
      PROVE  NothingForgotten'
  BY <1>7 DEF Publish, Put
<1>8. ASSUME NEW m \in Outgoing, Enqueue(m)
      PROVE  NothingForgotten'
  BY <1>8 DEF Enqueue, Put
<1>9. ASSUME NEW m \in Outgoing, SubscribeCheck(m)
      PROVE  NothingForgotten'
  BY <1>9 DEF SubscribeCheck, Checked, RequestRest
<1>10. ASSUME NEW m \in Outgoing, UnsubscribeCheck(m)
      PROVE  NothingForgotten'
  BY <1>10 DEF UnsubscribeCheck, Checked, RequestRest
<1>11. CASE RequestSend
  BY <1>11 DEF RequestSend, Subscribe, Unsubscribe, SendRequest, RequestRest,
         Put
<1>12. QED
  BY <1>1, <1>2, <1>3, <1>4, <1>5, <1>6, <1>7, <1>8, <1>9, <1>10, <1>11
  DEF Application

LEMMA NothingForgottenBroker ==
  ASSUME NothingForgotten, Broker \/ LinkFails \/ Tick
  PROVE  NothingForgotten'
<1> USE DEF NothingForgotten, clientVars, boxVars, netVars, brokerVars,
        pastVars
<1>1. CASE BrokerReadsPublish
  BY <1>1 DEF BrokerReadsPublish
<1>2. CASE BrokerReadsPubrel
  BY <1>2 DEF BrokerReadsPubrel
<1>3. CASE BrokerReadsRequest
  BY <1>3 DEF BrokerReadsRequest
<1>4. CASE BrokerReadsOther
  BY <1>4 DEF BrokerReadsOther
<1>5. CASE BrokerReadsAnswer
  BY <1>5 DEF BrokerReadsAnswer
<1>6. CASE BrokerPublishes
  BY <1>6 DEF BrokerPublishes
<1>7. CASE LinkFails
  BY <1>7 DEF LinkFails
<1>8. CASE Tick
  BY <1>8 DEF Tick
<1>9. QED
  BY <1>1, <1>2, <1>3, <1>4, <1>5, <1>6, <1>7, <1>8
  DEF Broker

\* A message of level 1 or 2, a subscription or a cancellation whose call
\* succeeded is in the outbox until its answer is reported, it expires or the
\* client is stopped.
THEOREM NothingIsForgotten == Spec => []NothingForgotten
<1>1. Init => NothingForgotten
  BY DEF Init, NothingForgotten
<1>2. NothingForgotten /\ [Next]_vars => NothingForgotten'
  <2>1. ASSUME NothingForgotten, Next
        PROVE  NothingForgotten'
    BY <2>1, NothingForgottenLoop, NothingForgottenApplication,
       NothingForgottenBroker DEF Next
  <2>2. ASSUME NothingForgotten, UNCHANGED vars
        PROVE  NothingForgotten'
    BY <2>2 DEF NothingForgotten, vars, boxVars, pastVars
  <2>3. QED
    BY <2>1, <2>2
<1>3. QED
  BY <1>1, <1>2, PTL DEF Spec

-----------------------------------------------------------------------------
(* Delivery.  The client delivers level-2 messages once and reports what it  *)
(* delivered, whatever is lost, retransmitted or reconnected, for every set  *)
(* of messages and every scenario.                                           *)
(*                                                                           *)
(* The argument: a message is closed once its PUBREC has been received, and  *)
(* a closed message is not published again; so no PUBLISH is behind a PUBREL *)
(* on its way to the broker, and after the broker has acted on the PUBREL    *)
(* there is none at all.                                                     *)

\* The kinds of messages have none in common.
LEMMA KindsDisjoint ==
  /\ Qos0 \cap Qos1 = {} /\ Qos0 \cap Qos2 = {} /\ Qos1 \cap Qos2 = {}
  /\ Publishes \cap Requests = {}
  /\ Subs \cap Unsubs = {}
  /\ Outgoing \cap Incoming = {}
  /\ None \notin Msgs
<1>1. ASSUME NEW i \in 1 .. 7, NEW j \in 1 .. 7, i # j
      PROVE  Kinds[i] \cap Kinds[j] = {}
  BY <1>1, KindsAssumption DEF Kinds
<1>2. /\ Kinds[1] = Qos0 /\ Kinds[2] = Qos1 /\ Kinds[3] = Qos2
      /\ Kinds[4] = Subs /\ Kinds[5] = Unsubs
      /\ Kinds[6] = In1 /\ Kinds[7] = In2
  BY DEF Kinds
<1>3. /\ Qos0 \cap Qos1 = {} /\ Qos0 \cap Qos2 = {} /\ Qos1 \cap Qos2 = {}
      /\ Subs \cap Unsubs = {}
  <2>1. Kinds[1] \cap Kinds[2] = {}
    BY <1>1
  <2>2. Kinds[1] \cap Kinds[3] = {}
    BY <1>1
  <2>3. Kinds[2] \cap Kinds[3] = {}
    BY <1>1
  <2>4. Kinds[4] \cap Kinds[5] = {}
    BY <1>1
  <2>5. QED
    BY <1>2, <2>1, <2>2, <2>3, <2>4
<1>4. Publishes \cap Requests = {}
  <2>1. \A i \in 1 .. 3, j \in 4 .. 5 : Kinds[i] \cap Kinds[j] = {}
    BY <1>1
  <2>2. \A i \in 1 .. 3 : Kinds[i] \cap Subs = {} /\ Kinds[i] \cap Unsubs = {}
    BY <1>2, <2>1
  <2>3. QED
    BY <1>2, <2>2 DEF Publishes, Requests
<1>5. Outgoing \cap Incoming = {}
  <2>1. \A i \in 1 .. 5, j \in 6 .. 7 : Kinds[i] \cap Kinds[j] = {}
    BY <1>1
  <2>2. \A i \in 1 .. 5 : Kinds[i] \cap In1 = {} /\ Kinds[i] \cap In2 = {}
    BY <1>2, <2>1
  <2>3. QED
    BY <1>2, <2>2 DEF Outgoing, Publishes, Requests, Incoming
<1>6. QED
  BY <1>3, <1>4, <1>5, KindsAssumption

\* mqtt_get_type of a stored message
LEMMA TypesOfMessages ==
  /\ \A m \in Publishes : MsgType(m) = "PUBLISH"
  /\ \A m \in Subs : MsgType(m) = "SUBSCRIBE"
  /\ \A m \in Unsubs : MsgType(m) = "UNSUBSCRIBE"
BY KindsDisjoint DEF MsgType, Requests

\* A request is not a state of the caller.
LEMMA NoRequestIsAName ==
  {"idle", "reconnecting", "stopping"} \cap Requests = {}
BY KindsAssumption DEF Msgs, Outgoing

-----------------------------------------------------------------------------
(* Messages enter the outbox once *)

\* A message in the outbox has no fate yet, and a request is written once.
FreshInv ==
  /\ caller \in Requests => caller \notin issued
  /\ outbox \cap (told \cup gone) = {}

LEMMA FreshInvLoop ==
  ASSUME FreshInv, TypeInv, Loop
  PROVE  FreshInv'
<1> USE NoRequestIsAName DEF FreshInv, TypeInv, BoxTyped, ClientTyped,
        clientVars, boxVars, netVars, brokerVars, pastVars
<1>1. CASE TaskStarts
  BY <1>1 DEF TaskStarts
<1>1a. CASE TaskEnters
  BY <1>1a DEF TaskEnters
<1>1b. CASE TaskClears
  BY <1>1b DEF TaskClears
<1>2. CASE EnterState
  BY <1>2 DEF EnterState, TakesLock, DeleteExpired, Drop
<1>3. CASE NoTransport
  BY <1>3 DEF NoTransport
<1>4. CASE ConnectFails
  BY <1>4 DEF ConnectFails
<1>5. CASE Connect
  BY <1>5 DEF Connect
<1>6. CASE ServeDisconnect
  BY <1>6 DEF ServeDisconnect
<1>7. CASE ReceiveNothing
  BY <1>7 DEF ReceiveNothing
<1>8. CASE ReceiveFails
  BY <1>8 DEF ReceiveFails
<1>9. CASE ReceiveSuback
  BY <1>9 DEF ReceiveSuback, FinalRest, Finish, Delete, Drop
<1>10. CASE ReceiveUnsuback
  BY <1>10 DEF ReceiveUnsuback, FinalRest, Finish, Delete, Drop
<1>11. CASE ReceivePublish
  BY <1>11 DEF ReceivePublish
<1>12. CASE ReceivePuback
  BY <1>12 DEF ReceivePuback, FinalRest, Finish, Delete, Drop
<1>13. CASE ReceivePubrec
  BY <1>13 DEF ReceivePubrec, Mark
<1>14. CASE ReceivePubrel
  BY <1>14 DEF ReceivePubrel
<1>15. CASE ReceivePubcomp
  BY <1>15 DEF ReceivePubcomp, FinalRest, Finish, Delete, Drop
<1>16. CASE ReceivePingresp
  BY <1>16 DEF ReceivePingresp
<1>17. CASE SendQueued
  BY <1>17 DEF SendQueued, DeleteItem, Drop, Mark
<1>18. CASE NothingToResend
  BY <1>18 DEF NothingToResend
<1>19. CASE Retransmit
  BY <1>19 DEF Retransmit
<1>20. CASE ResendPubrel
  BY <1>20 DEF ResendPubrel
<1>21. CASE KeepAlive
  BY <1>21 DEF KeepAlive
<1>22. CASE KeepAliveFails
  BY <1>22 DEF KeepAliveFails
<1>23. CASE Refresh
  BY <1>23 DEF Refresh
<1>24. CASE PollEnds
  BY <1>24 DEF PollEnds
<1>25. CASE Reconnect
  BY <1>25 DEF Reconnect, TakesLock, DeleteExpired, Drop
<1>26. CASE KeepWaiting
  BY <1>26 DEF KeepWaiting, TakesLock, DeleteExpired, Drop
<1>27. CASE LoopEnds
  BY <1>27 DEF LoopEnds, DeleteAllItems, Drop
<1>28. CASE TaskEnds
  BY <1>28 DEF TaskEnds
<1>29. QED
  BY <1>1, <1>1a, <1>1b, <1>2, <1>3, <1>4, <1>5, <1>6, <1>7, <1>8, <1>9, <1>10, <1>11,
     <1>12, <1>13, <1>14, <1>15, <1>16, <1>17, <1>18, <1>19, <1>20, <1>21,
     <1>22, <1>23, <1>24, <1>25, <1>26, <1>27, <1>28
  DEF Loop, Receive, Resend

LEMMA FreshInvApplication ==
  ASSUME FreshInv, TypeInv, Application
  PROVE  FreshInv'
<1> USE NoRequestIsAName DEF FreshInv, TypeInv, BoxTyped, ClientTyped,
        clientVars, boxVars, netVars, brokerVars, pastVars
<1>1. CASE Start
  BY <1>1 DEF Start, Calling
<1>2. CASE Stop
  BY <1>2 DEF Stop, Calling
<1>3. CASE StopReturns
  BY <1>3 DEF StopReturns
<1>4. CASE Disconnect
  BY <1>4 DEF Disconnect, Calling
<1>5. CASE ReconnectCheck
  BY <1>5 DEF ReconnectCheck, Calling
<1>6. CASE ReconnectSet
  BY <1>6 DEF ReconnectSet
<1>7. ASSUME NEW m \in Outgoing, Publish(m)
      PROVE  FreshInv'
  BY <1>7 DEF Publish, Fresh, Put
<1>8. ASSUME NEW m \in Outgoing, Enqueue(m)
      PROVE  FreshInv'
  BY <1>8 DEF Enqueue, Fresh, Put
<1>9. ASSUME NEW m \in Outgoing, SubscribeCheck(m)
      PROVE  FreshInv'
  BY <1>9 DEF SubscribeCheck, Checked, Fresh, RequestRest
<1>10. ASSUME NEW m \in Outgoing, UnsubscribeCheck(m)
      PROVE  FreshInv'
  BY <1>10 DEF UnsubscribeCheck, Checked, Fresh, RequestRest
<1>11. CASE RequestSend
  <2>1. /\ caller \in Requests
        /\ Put(caller, "transmitted")
        /\ issued' = issued \cup {caller}
        /\ caller' = "idle"
        /\ UNCHANGED <<told, gone>>
    BY <1>11 DEF RequestSend, Subscribe, Unsubscribe, SendRequest, Requests,
           RequestRest
  <2>2. QED
    BY <2>1 DEF Put
<1>12. QED
  BY <1>1, <1>2, <1>3, <1>4, <1>5, <1>6, <1>7, <1>8, <1>9, <1>10, <1>11
  DEF Application

LEMMA FreshInvBroker ==
  ASSUME FreshInv, TypeInv, Broker \/ LinkFails \/ Tick
  PROVE  FreshInv'
<1> USE NoRequestIsAName DEF FreshInv, TypeInv, BoxTyped, ClientTyped,
        clientVars, boxVars, netVars, brokerVars, pastVars
<1>1. CASE BrokerReadsPublish
  BY <1>1 DEF BrokerReadsPublish
<1>2. CASE BrokerReadsPubrel
  BY <1>2 DEF BrokerReadsPubrel
<1>3. CASE BrokerReadsRequest
  BY <1>3 DEF BrokerReadsRequest
<1>4. CASE BrokerReadsOther
  BY <1>4 DEF BrokerReadsOther
<1>5. CASE BrokerReadsAnswer
  BY <1>5 DEF BrokerReadsAnswer
<1>6. CASE BrokerPublishes
  BY <1>6 DEF BrokerPublishes
<1>7. CASE LinkFails
  BY <1>7 DEF LinkFails
<1>8. CASE Tick
  BY <1>8 DEF Tick
<1>9. QED
  BY <1>1, <1>2, <1>3, <1>4, <1>5, <1>6, <1>7, <1>8
  DEF Broker

-----------------------------------------------------------------------------
(* What is known of a message *)

\* No PUBLISH of m will be written again
Closed(m) == m \in issued /\ (m \in outbox => pending[m] = "acknowledged")

\* The broker has m, or has acted on it; or it forgets
Reached(m) == CleanSession \/ m \in held \/ got[m] > 0
Acted(m) == CleanSession \/ got[m] > 0

\* The packets that may be on their way to the broker ...
UpAllowed ==
  {p \in Packets :
     /\ p.type \in {"PUBLISH", "SUBSCRIBE", "UNSUBSCRIBE"} =>
          p.about \in issued
     /\ p.type = "PUBREL" =>
          p.about \in Qos2 /\ Closed(p.about) /\ Reached(p.about)
     /\ p.type \in {"PUBACK", "PUBREC", "PUBCOMP"} => p.about \in seen}

\* ... and to the client
DownAllowed ==
  {p \in Packets :
     /\ p.type = "PUBREC" =>
          p.about \in Qos2 \cap issued /\ Reached(p.about)
     /\ p.type \in {"PUBACK", "PUBCOMP", "SUBACK", "UNSUBACK"} =>
          p.about \in Outgoing /\ Acted(p.about)
     /\ p.type = "PUBREL" => p.about \in seen}

\* The knowledge that no step takes away
Grows ==
  /\ issued \subseteq issued'
  /\ seen \subseteq seen'
  /\ \A m \in Outgoing : got[m] > 0 => got'[m] > 0
  /\ \A m \in Outgoing : Closed(m) => Closed(m)'
  /\ \A m \in Outgoing : Reached(m) => Reached(m)'

\* What may be on its way stays so.
LEMMA AllowedGrows ==
  ASSUME Grows
  PROVE  /\ UpAllowed \subseteq UpAllowed'
         /\ DownAllowed \subseteq DownAllowed'
<1>1. Qos2 \subseteq Outgoing
  BY DEF Outgoing, Publishes
<1>2. ASSUME NEW p \in UpAllowed
      PROVE  p \in UpAllowed'
  BY <1>1, <1>2 DEF Grows, UpAllowed
<1>3. \A m \in Outgoing : Acted(m) => Acted(m)'
  BY DEF Grows, Acted
<1>4. ASSUME NEW p \in DownAllowed
      PROVE  p \in DownAllowed'
  BY <1>1, <1>3, <1>4 DEF Grows, DownAllowed
<1>5. QED
  BY <1>2, <1>4

\* Acting on a message
LEMMA OftenActed ==
  ASSUME BrokerTyped, NEW m \in Outgoing,
         got' = [got EXCEPT ![m] = Often(@)]
  PROVE  /\ got'[m] > 0
         /\ \A n \in Outgoing \ {m} : got'[n] = got[n]
         /\ \A n \in Outgoing : got[n] > 0 => got'[n] > 0
         /\ got[m] = 0 => got'[m] = 1
BY DEF BrokerTyped, Often

LEMMA GrowsLoop ==
  ASSUME TypeInv, FreshInv, Loop
  PROVE  Grows
<1> USE DEF Grows, Closed, Reached, TypeInv, BoxTyped, BrokerTyped, FreshInv,
        clientVars, boxVars, netVars, brokerVars, pastVars
<1>1. CASE TaskStarts
  BY <1>1 DEF TaskStarts
<1>1a. CASE TaskEnters
  BY <1>1a DEF TaskEnters
<1>1b. CASE TaskClears
  BY <1>1b DEF TaskClears
<1>2. CASE EnterState
  BY <1>2 DEF EnterState, TakesLock, DeleteExpired, Drop
<1>3. CASE NoTransport
  BY <1>3 DEF NoTransport
<1>4. CASE ConnectFails
  BY <1>4 DEF ConnectFails
<1>5. CASE Connect
  BY <1>5 DEF Connect
<1>6. CASE ServeDisconnect
  BY <1>6 DEF ServeDisconnect
<1>7. CASE ReceiveNothing
  BY <1>7 DEF ReceiveNothing
<1>8. CASE ReceiveFails
  BY <1>8 DEF ReceiveFails
<1>9. CASE ReceiveSuback
  BY <1>9 DEF ReceiveSuback, FinalRest, Finish, Delete, Drop
<1>10. CASE ReceiveUnsuback
  BY <1>10 DEF ReceiveUnsuback, FinalRest, Finish, Delete, Drop
<1>11. CASE ReceivePublish
  BY <1>11 DEF ReceivePublish
<1>12. CASE ReceivePuback
  BY <1>12 DEF ReceivePuback, FinalRest, Finish, Delete, Drop
<1>13. CASE ReceivePubrec
  BY <1>13 DEF ReceivePubrec, Mark, Get
<1>14. CASE ReceivePubrel
  BY <1>14 DEF ReceivePubrel
<1>15. CASE ReceivePubcomp
  BY <1>15 DEF ReceivePubcomp, FinalRest, Finish, Delete, Drop
<1>16. CASE ReceivePingresp
  BY <1>16 DEF ReceivePingresp
<1>17. CASE SendQueued
  BY <1>17 DEF SendQueued, DeleteItem, Drop, Mark, Get, First, Items
<1>18. CASE NothingToResend
  BY <1>18 DEF NothingToResend
<1>19. CASE Retransmit
  BY <1>19 DEF Retransmit
<1>20. CASE ResendPubrel
  BY <1>20 DEF ResendPubrel
<1>21. CASE KeepAlive
  BY <1>21 DEF KeepAlive
<1>22. CASE KeepAliveFails
  BY <1>22 DEF KeepAliveFails
<1>23. CASE Refresh
  BY <1>23 DEF Refresh
<1>24. CASE PollEnds
  BY <1>24 DEF PollEnds
<1>25. CASE Reconnect
  BY <1>25 DEF Reconnect, TakesLock, DeleteExpired, Drop
<1>26. CASE KeepWaiting
  BY <1>26 DEF KeepWaiting, TakesLock, DeleteExpired, Drop
<1>27. CASE LoopEnds
  BY <1>27 DEF LoopEnds, DeleteAllItems, Drop
<1>28. CASE TaskEnds
  BY <1>28 DEF TaskEnds
<1>29. QED
  BY <1>1, <1>1a, <1>1b, <1>2, <1>3, <1>4, <1>5, <1>6, <1>7, <1>8, <1>9, <1>10, <1>11,
     <1>12, <1>13, <1>14, <1>15, <1>16, <1>17, <1>18, <1>19, <1>20, <1>21,
     <1>22, <1>23, <1>24, <1>25, <1>26, <1>27, <1>28
  DEF Loop, Receive, Resend

LEMMA GrowsApplication ==
  ASSUME TypeInv, FreshInv, Application
  PROVE  Grows
<1> USE DEF Grows, Closed, Reached, TypeInv, BoxTyped, BrokerTyped, FreshInv,
        clientVars, boxVars, netVars, brokerVars, pastVars
<1>1. CASE Start
  BY <1>1 DEF Start
<1>2. CASE Stop
  BY <1>2 DEF Stop
<1>3. CASE StopReturns
  BY <1>3 DEF StopReturns
<1>4. CASE Disconnect
  BY <1>4 DEF Disconnect
<1>5. CASE ReconnectCheck
  BY <1>5 DEF ReconnectCheck
<1>6. CASE ReconnectSet
  BY <1>6 DEF ReconnectSet
<1>7. ASSUME NEW m \in Outgoing, Publish(m)
      PROVE  Grows
  BY <1>7 DEF Publish, Fresh, Put
<1>8. ASSUME NEW m \in Outgoing, Enqueue(m)
      PROVE  Grows
  BY <1>8 DEF Enqueue, Fresh, Put
<1>9. ASSUME NEW m \in Outgoing, SubscribeCheck(m)
      PROVE  Grows
  BY <1>9 DEF SubscribeCheck, Checked, Fresh, RequestRest
<1>10. ASSUME NEW m \in Outgoing, UnsubscribeCheck(m)
      PROVE  Grows
  BY <1>10 DEF UnsubscribeCheck, Checked, Fresh, RequestRest
<1>11. CASE RequestSend
  <2>1. /\ caller \in Requests
        /\ Put(caller, "transmitted")
        /\ issued' = issued \cup {caller}
        /\ UNCHANGED <<held, got, seen>>
    BY <1>11 DEF RequestSend, Subscribe, Unsubscribe, SendRequest, Requests,
           RequestRest
  <2>2. QED
    BY <2>1 DEF Put
<1>12. QED
  BY <1>1, <1>2, <1>3, <1>4, <1>5, <1>6, <1>7, <1>8, <1>9, <1>10, <1>11
  DEF Application

LEMMA GrowsBroker ==
  ASSUME TypeInv, FreshInv, Broker \/ LinkFails \/ Tick
  PROVE  Grows
<1> USE DEF Grows, Closed, Reached, TypeInv, BoxTyped, BrokerTyped, FreshInv,
        clientVars, boxVars, netVars, brokerVars, pastVars
<1>1. CASE BrokerReadsPublish
  <2>1. PICK m \in Publishes :
          IF m \in Qos2 THEN held' = held \cup {m} /\ UNCHANGED got
          ELSE got' = [got EXCEPT ![m] = Often(@)] /\ UNCHANGED held
    BY <1>1 DEF BrokerReadsPublish
  <2>2. m \in Outgoing /\ UNCHANGED <<outbox, pending, issued, seen>>
    BY <1>1 DEF BrokerReadsPublish, Outgoing
  <2>3. \A n \in Outgoing : got[n] > 0 => got'[n] > 0
    BY <2>1, <2>2, OftenActed
  <2>4. held \subseteq held'
    BY <2>1
  <2>5. QED
    BY <2>2, <2>3, <2>4
<1>2. CASE BrokerReadsPubrel
  <2>1. PICK m \in Outgoing :
          /\ held' = held \ {m}
          /\ got' = IF m \in held THEN [got EXCEPT ![m] = Often(@)] ELSE got
    BY <1>2 DEF BrokerReadsPubrel
  <2>2. UNCHANGED <<outbox, pending, issued, seen>>
    BY <1>2 DEF BrokerReadsPubrel
  <2>3. \A n \in Outgoing : got[n] > 0 => got'[n] > 0
    BY <2>1, OftenActed
  <2>4. m \in held => got'[m] > 0
    BY <2>1, OftenActed
  <2>5. QED
    BY <2>1, <2>2, <2>3, <2>4
<1>3. CASE BrokerReadsRequest
  <2>1. PICK m \in Requests : got' = [got EXCEPT ![m] = Often(@)]
    BY <1>3 DEF BrokerReadsRequest
  <2>2. m \in Outgoing /\ UNCHANGED <<outbox, pending, issued, seen, held>>
    BY <1>3 DEF BrokerReadsRequest, Outgoing
  <2>3. \A n \in Outgoing : got[n] > 0 => got'[n] > 0
    BY <2>1, <2>2, OftenActed
  <2>4. QED
    BY <2>2, <2>3
<1>4. CASE BrokerReadsOther
  BY <1>4 DEF BrokerReadsOther
<1>5. CASE BrokerReadsAnswer
  BY <1>5 DEF BrokerReadsAnswer
<1>6. CASE BrokerPublishes
  BY <1>6 DEF BrokerPublishes
<1>7. CASE LinkFails
  BY <1>7 DEF LinkFails
<1>8. CASE Tick
  BY <1>8 DEF Tick
<1>9. QED
  BY <1>1, <1>2, <1>3, <1>4, <1>5, <1>6, <1>7, <1>8
  DEF Broker

-----------------------------------------------------------------------------
(* What the packets, the broker and the outbox say of each other *)

\* No level-2 message is published again by a packet behind its PUBREL, or
\* once the broker has acted on it
Ordered ==
  \A j \in 1 .. Len(up), m \in Qos2 :
    up[j] = Packet("PUBLISH", m) =>
      /\ got[m] = 0
      /\ \A i \in 1 .. j - 1 : up[i] # Packet("PUBREL", m)

\* The packets on their way
PacketInv ==
  /\ up \in Seq(UpAllowed)
  /\ down \in Seq(DownAllowed)
  /\ Ordered

\* Nobody acts on, acknowledges or reports a message without a reason.
FactsInv ==
  /\ held \subseteq issued
  /\ \A m \in Outgoing : got[m] > 0 => m \in issued
  /\ \A m \in outbox : pending[m] = "acknowledged" => m \in Qos2 /\ Reached(m)
  /\ \A m \in Qos2 : got[m] > 0 => got[m] = 1 /\ m \notin held /\ Closed(m)
  /\ \A m \in told : Acted(m)
  /\ \A i \in Incoming :
       /\ inbound[i] \in {"received", "released", "done"} => i \in seen
       /\ inbound[i] = "lost" => CleanSession

DeliveryInv == TypeInv /\ FreshInv /\ PacketInv /\ FactsInv

\* Taking the first packet
LEMMA HeadAndTail ==
  ASSUME NEW S, NEW s \in Seq(S), s # <<>>
  PROVE  Head(s) \in S /\ Tail(s) \in Seq(S) /\ s[1] = Head(s) /\ Len(s) > 0
OBVIOUS

\* More may be on its way
LEMMA SeqGrows ==
  ASSUME NEW S, NEW T, S \subseteq T, NEW s \in Seq(S)
  PROVE  s \in Seq(T)
OBVIOUS

\* A packet is read or written, or all are lost
LEMMA SeqEvolves ==
  ASSUME NEW S, NEW s \in Seq(S), NEW t,
         \/ t = s
         \/ t = <<>>
         \/ s # <<>> /\ t = Tail(s)
         \/ \E p \in S : t = Append(s, p)
  PROVE  t \in Seq(S)
<1>1. CASE t = <<>>
  BY <1>1
<1>2. CASE t = s
  BY <1>2
<1>3. CASE s # <<>> /\ t = Tail(s)
  BY <1>3
<1>4. CASE \E p \in S : t = Append(s, p)
  BY <1>4
<1>5. QED
  BY <1>1, <1>2, <1>3, <1>4

\* What the broker reads
LEMMA BrokerKnows ==
  ASSUME PacketInv, NEW t, NEW m, BrokerTakes(t, Packet(t, m))
  PROVE  /\ t \in {"PUBLISH", "SUBSCRIBE", "UNSUBSCRIBE"} => m \in issued
         /\ t = "PUBREL" => m \in Qos2 /\ Closed(m) /\ Reached(m)
         /\ t \in {"PUBACK", "PUBREC", "PUBCOMP"} => m \in seen
         /\ t = "PUBLISH" /\ m \in Qos2 => got[m] = 0
<1>1. up # <<>> /\ Head(up) = Packet(t, m)
  BY DEF BrokerTakes
<1>2. /\ Packet(t, m) \in UpAllowed
      /\ up[1] = Packet(t, m) /\ Len(up) > 0 /\ Len(up) \in Nat
  BY <1>1, HeadAndTail DEF PacketInv
<1>3. t = "PUBLISH" /\ m \in Qos2 => got[m] = 0
  BY <1>2 DEF PacketInv, Ordered
<1>4. Packet(t, m).type = t /\ Packet(t, m).about = m
  BY DEF Packet
<1>5. QED
  BY <1>2, <1>3, <1>4 DEF UpAllowed

\* What the client reads
LEMMA ClientKnows ==
  ASSUME PacketInv, NEW t, NEW m, Receives(t, Packet(t, m))
  PROVE  /\ t = "PUBREC" => m \in Qos2 \cap issued /\ Reached(m)
         /\ t \in {"PUBACK", "PUBCOMP", "SUBACK", "UNSUBACK"} => Acted(m)
         /\ t = "PUBREL" => m \in seen
<1>1. down # <<>> /\ Head(down) = Packet(t, m)
  BY DEF Receives
<1>2. Packet(t, m) \in DownAllowed
  BY <1>1, HeadAndTail DEF PacketInv
<1>3. Packet(t, m).type = t /\ Packet(t, m).about = m
  BY DEF Packet
<1>4. QED
  BY <1>2, <1>3 DEF DownAllowed

LEMMA FactsInvLoop ==
  ASSUME DeliveryInv, Loop
  PROVE  FactsInv'
<1> USE ClientKnows, BrokerKnows, KindsDisjoint DEF DeliveryInv, FactsInv,
        Closed, Reached, Acted, TypeInv, BoxTyped, BrokerTyped, FreshInv,
        clientVars, boxVars, netVars, brokerVars, pastVars
<1>1. CASE TaskStarts
  BY <1>1 DEF TaskStarts
<1>1a. CASE TaskEnters
  BY <1>1a DEF TaskEnters
<1>1b. CASE TaskClears
  BY <1>1b DEF TaskClears
<1>2. CASE EnterState
  BY <1>2 DEF EnterState, TakesLock, DeleteExpired, Drop
<1>3. CASE NoTransport
  BY <1>3 DEF NoTransport
<1>4. CASE ConnectFails
  BY <1>4 DEF ConnectFails
<1>5. CASE Connect
  <2>1. /\ inbound' = [i \in Incoming |-> Resumed(i)]
        /\ held' = IF CleanSession THEN {} ELSE held
        /\ UNCHANGED <<outbox, pending, issued, told, got, seen>>
    BY <1>5 DEF Connect
  <2>2. ASSUME NEW i \in Incoming
        PROVE  /\ inbound'[i] \in {"received", "released", "done"}
                    => i \in seen'
               /\ inbound'[i] = "lost" => CleanSession
    BY <2>1 DEF Resumed
  <2>3. QED
    BY <2>1, <2>2
<1>6. CASE ServeDisconnect
  BY <1>6 DEF ServeDisconnect
<1>7. CASE ReceiveNothing
  BY <1>7 DEF ReceiveNothing
<1>8. CASE ReceiveFails
  BY <1>8 DEF ReceiveFails
<1>9. CASE ReceiveSuback
  BY <1>9 DEF ReceiveSuback, FinalRest, Finish, Delete, Drop
<1>10. CASE ReceiveUnsuback
  BY <1>10 DEF ReceiveUnsuback, FinalRest, Finish, Delete, Drop
<1>11. CASE ReceivePublish
  BY <1>11 DEF ReceivePublish
<1>12. CASE ReceivePuback
  BY <1>12 DEF ReceivePuback, FinalRest, Finish, Delete, Drop
<1>13. CASE ReceivePubrec
  BY <1>13 DEF ReceivePubrec, Mark, Get
<1>14. CASE ReceivePubrel
  BY <1>14 DEF ReceivePubrel
<1>15. CASE ReceivePubcomp
  BY <1>15 DEF ReceivePubcomp, FinalRest, Finish, Delete, Drop
<1>16. CASE ReceivePingresp
  BY <1>16 DEF ReceivePingresp
<1>17. CASE SendQueued
  BY <1>17 DEF SendQueued, DeleteItem, Drop, Mark, Get, First, Items
<1>18. CASE NothingToResend
  BY <1>18 DEF NothingToResend
<1>19. CASE Retransmit
  BY <1>19 DEF Retransmit
<1>20. CASE ResendPubrel
  BY <1>20 DEF ResendPubrel
<1>21. CASE KeepAlive
  BY <1>21 DEF KeepAlive
<1>22. CASE KeepAliveFails
  BY <1>22 DEF KeepAliveFails
<1>23. CASE Refresh
  BY <1>23 DEF Refresh
<1>24. CASE PollEnds
  BY <1>24 DEF PollEnds
<1>25. CASE Reconnect
  BY <1>25 DEF Reconnect, TakesLock, DeleteExpired, Drop
<1>26. CASE KeepWaiting
  BY <1>26 DEF KeepWaiting, TakesLock, DeleteExpired, Drop
<1>27. CASE LoopEnds
  BY <1>27 DEF LoopEnds, DeleteAllItems, Drop
<1>28. CASE TaskEnds
  BY <1>28 DEF TaskEnds
<1>29. QED
  BY <1>1, <1>1a, <1>1b, <1>2, <1>3, <1>4, <1>5, <1>6, <1>7, <1>8, <1>9, <1>10, <1>11,
     <1>12, <1>13, <1>14, <1>15, <1>16, <1>17, <1>18, <1>19, <1>20, <1>21,
     <1>22, <1>23, <1>24, <1>25, <1>26, <1>27, <1>28
  DEF Loop, Receive, Resend

LEMMA FactsInvApplication ==
  ASSUME DeliveryInv, Application
  PROVE  FactsInv'
<1> USE ClientKnows, BrokerKnows, KindsDisjoint DEF DeliveryInv, FactsInv,
        Closed, Reached, Acted, TypeInv, BoxTyped, BrokerTyped, FreshInv,
        clientVars, boxVars, netVars, brokerVars, pastVars
<1>1. CASE Start
  BY <1>1 DEF Start
<1>2. CASE Stop
  BY <1>2 DEF Stop
<1>3. CASE StopReturns
  BY <1>3 DEF StopReturns
<1>4. CASE Disconnect
  BY <1>4 DEF Disconnect
<1>5. CASE ReconnectCheck
  BY <1>5 DEF ReconnectCheck
<1>6. CASE ReconnectSet
  BY <1>6 DEF ReconnectSet
<1>7. ASSUME NEW m \in Outgoing, Publish(m)
      PROVE  FactsInv'
  BY <1>7 DEF Publish, Fresh, Put
<1>8. ASSUME NEW m \in Outgoing, Enqueue(m)
      PROVE  FactsInv'
  BY <1>8 DEF Enqueue, Fresh, Put
<1>9. ASSUME NEW m \in Outgoing, SubscribeCheck(m)
      PROVE  FactsInv'
  BY <1>9 DEF SubscribeCheck, Checked, Fresh, RequestRest
<1>10. ASSUME NEW m \in Outgoing, UnsubscribeCheck(m)
      PROVE  FactsInv'
  BY <1>10 DEF UnsubscribeCheck, Checked, Fresh, RequestRest
<1>11. CASE RequestSend
  <2>1. /\ caller \in Requests
        /\ Put(caller, "transmitted")
        /\ issued' = issued \cup {caller}
        /\ UNCHANGED <<told, held, got, seen, inbound>>
    BY <1>11 DEF RequestSend, Subscribe, Unsubscribe, SendRequest, Requests,
           RequestRest
  <2>2. caller \in Outgoing
    BY <2>1 DEF Outgoing
  <2>3. QED
    BY <2>1, <2>2 DEF Put
<1>12. QED
  BY <1>1, <1>2, <1>3, <1>4, <1>5, <1>6, <1>7, <1>8, <1>9, <1>10, <1>11
  DEF Application

LEMMA FactsInvBroker ==
  ASSUME DeliveryInv, Broker \/ LinkFails \/ Tick
  PROVE  FactsInv'
<1> USE ClientKnows, BrokerKnows, KindsDisjoint DEF DeliveryInv, FactsInv,
        Closed, Reached, Acted, TypeInv, BoxTyped, BrokerTyped, FreshInv,
        clientVars, boxVars, netVars, brokerVars, pastVars
<1>1. CASE BrokerReadsPublish
  <2>1. PICK m \in Publishes :
          /\ BrokerTakes("PUBLISH", Packet("PUBLISH", m))
          /\ IF m \in Qos2 THEN held' = held \cup {m} /\ UNCHANGED got
             ELSE got' = [got EXCEPT ![m] = Often(@)] /\ UNCHANGED held
    BY <1>1 DEF BrokerReadsPublish
  <2>2. /\ m \in Outgoing
        /\ UNCHANGED <<outbox, pending, issued, told, seen, inbound>>
    BY <1>1 DEF BrokerReadsPublish, Outgoing
  <2>3. m \in issued /\ (m \in Qos2 => got[m] = 0)
    BY <2>1
  <2>4. CASE m \in Qos2
    BY <2>1, <2>2, <2>3, <2>4
  <2>5. CASE m \notin Qos2
    <3>1. /\ got'[m] > 0
          /\ \A n \in Outgoing \ {m} : got'[n] = got[n]
          /\ \A n \in Outgoing : got[n] > 0 => got'[n] > 0
      BY <2>1, <2>2, <2>5, OftenActed
    <3>2. \A n \in Qos2 : got'[n] = got[n]
      BY <2>5, <3>1 DEF Outgoing, Publishes
    <3>3. UNCHANGED held
      BY <2>1, <2>5
    <3>4. \A n \in Outgoing : got'[n] > 0 => n \in issued
      BY <2>3, <3>1
    <3>5. QED
      BY <2>2, <3>1, <3>2, <3>3, <3>4
  <2>6. QED
    BY <2>4, <2>5
<1>2. CASE BrokerReadsPubrel
  <2>1. PICK m \in Outgoing :
          /\ BrokerTakes("PUBREL", Packet("PUBREL", m))
          /\ held' = held \ {m}
          /\ got' = IF m \in held THEN [got EXCEPT ![m] = Often(@)] ELSE got
    BY <1>2 DEF BrokerReadsPubrel
  <2>2. UNCHANGED <<outbox, pending, issued, told, seen, inbound>>
    BY <1>2 DEF BrokerReadsPubrel
  <2>3. m \in Qos2 /\ Closed(m)
    BY <2>1
  <2>4. CASE m \notin held
    BY <2>1, <2>2, <2>4
  <2>5. CASE m \in held
    <3>1. got[m] = 0
      BY <2>3, <2>5
    <3>2. /\ got'[m] = 1
          /\ \A n \in Outgoing \ {m} : got'[n] = got[n]
          /\ \A n \in Outgoing : got[n] > 0 => got'[n] > 0
      BY <2>1, <2>5, <3>1, OftenActed
    <3>3. \A n \in Outgoing : got'[n] > 0 => n \in issued
      BY <2>3, <3>2
    <3>4. \A n \in Qos2 :
            got'[n] > 0 => got'[n] = 1 /\ n \notin held' /\ Closed(n)
      BY <2>1, <2>3, <3>2 DEF Outgoing, Publishes
    <3>5. \A n \in Outgoing : Reached(n) => Reached(n)'
      BY <2>1, <3>2
    <3>6. \A n \in told : Acted(n)'
      BY <3>2
    <3>7. QED
      BY <2>1, <2>2, <3>3, <3>4, <3>5, <3>6
  <2>6. QED
    BY <2>4, <2>5
<1>3. CASE BrokerReadsRequest
  <2>1. PICK m \in Requests :
          /\ BrokerTakes(MsgType(m), Packet(MsgType(m), m))
          /\ got' = [got EXCEPT ![m] = Often(@)]
    BY <1>3 DEF BrokerReadsRequest
  <2>2. /\ m \in Outgoing
        /\ UNCHANGED <<outbox, pending, issued, told, seen, inbound, held>>
    BY <1>3 DEF BrokerReadsRequest, Outgoing
  <2>3. m \in issued
    BY <2>1, TypesOfMessages DEF Requests
  <2>4. /\ \A n \in Outgoing \ {m} : got'[n] = got[n]
        /\ \A n \in Outgoing : got[n] > 0 => got'[n] > 0
    BY <2>1, <2>2, OftenActed
  <2>5. \A n \in Qos2 : got'[n] = got[n]
    BY <2>4 DEF Outgoing, Publishes
  <2>6. QED
    BY <2>2, <2>3, <2>4, <2>5
<1>4. CASE BrokerReadsOther
  BY <1>4 DEF BrokerReadsOther
<1>5. CASE BrokerReadsAnswer
  BY <1>5 DEF BrokerReadsAnswer
<1>6. CASE BrokerPublishes
  BY <1>6 DEF BrokerPublishes
<1>7. CASE LinkFails
  BY <1>7 DEF LinkFails
<1>8. CASE Tick
  BY <1>8 DEF Tick
<1>9. QED
  BY <1>1, <1>2, <1>3, <1>4, <1>5, <1>6, <1>7, <1>8
  DEF Broker

-----------------------------------------------------------------------------
(* How the packets on their way change *)

\* The client writes an allowed packet, no PUBLISH of a closed message; the
\* broker reads one; a connection begins
UpEvolves ==
  \/ up' = up
  \/ up' = <<>>
  \/ up # <<>> /\ up' = Tail(up)
  \/ \E p \in UpAllowed' :
       /\ up' = Append(up, p)
       /\ \A m \in Qos2 : p = Packet("PUBLISH", m) => ~Closed(m)

DownEvolves ==
  \/ down' = down
  \/ down' = <<>>
  \/ down # <<>> /\ down' = Tail(down)
  \/ \E p \in DownAllowed' : down' = Append(down, p)

\* What the client writes, if it is about the right message
LEMMA ClientMayWrite ==
  /\ \A m \in Outgoing : m \in issued' => Packet(MsgType(m), m) \in UpAllowed'
  /\ \A m \in Outgoing : m \in issued' => Packet("PUBLISH", m) \in UpAllowed'
  /\ \A m \in Qos2 :
       Closed(m)' /\ Reached(m)' => Packet("PUBREL", m) \in UpAllowed'
  /\ \A i \in Incoming, t \in {"PUBACK", "PUBREC", "PUBCOMP"} :
       i \in seen' => Packet(t, i) \in UpAllowed'
  /\ \A t \in {"PINGREQ", "DISCONNECT"} : Packet(t, None) \in UpAllowed'
<1>1. \A t, x : Packet(t, x).type = t /\ Packet(t, x).about = x
  BY DEF Packet
<1>2. \A m \in Outgoing :
        MsgType(m) \in {"PUBLISH", "SUBSCRIBE", "UNSUBSCRIBE"}
  BY DEF MsgType
<1>3. Outgoing \subseteq Msgs /\ Incoming \subseteq Msgs /\ Qos2 \subseteq Msgs
  BY DEF Msgs, Outgoing, Publishes
<1>4. QED
  BY <1>1, <1>2, <1>3, PacketTyped DEF UpAllowed

\* A packet has one type and is about one message.
LEMMA PacketsDiffer ==
  \A t, u, x, y : Packet(t, x) = Packet(u, y) => t = u /\ x = y
BY DEF Packet

\* A packet that is not a PUBLISH, or one of an open message, may be written
LEMMA WriteEvolves ==
  ASSUME NEW p \in UpAllowed',
         \A m \in Qos2 : p = Packet("PUBLISH", m) => ~Closed(m),
         WriteOk(p) \/ WriteFails \/ WriteOrAbort(p)
  PROVE  UpEvolves
BY DEF UpEvolves, WriteOk, WriteFails, WriteOrAbort

LEMMA UpEvolvesLoop ==
  ASSUME DeliveryInv, Grows, Loop
  PROVE  UpEvolves
<1> USE DEF UpEvolves, clientVars, boxVars, netVars, brokerVars, pastVars
<1>1. CASE TaskStarts
  BY <1>1 DEF TaskStarts
<1>1a. CASE TaskEnters
  BY <1>1a DEF TaskEnters
<1>1b. CASE TaskClears
  BY <1>1b DEF TaskClears
<1>2. CASE EnterState
  BY <1>2 DEF EnterState, TakesLock
<1>3. CASE NoTransport
  BY <1>3 DEF NoTransport
<1>4. CASE ConnectFails
  BY <1>4 DEF ConnectFails
<1>5. CASE Connect
  BY <1>5 DEF Connect
<1>6. CASE ServeDisconnect
  <2>1. WriteOk(Packet("DISCONNECT", None)) \/ WriteFails
    BY <1>6 DEF ServeDisconnect, SendDisconnect
  <2>2. QED
    BY <2>1, ClientMayWrite, PacketsDiffer, WriteEvolves
<1>7. CASE ReceiveNothing
  BY <1>7 DEF ReceiveNothing
<1>8. CASE ReceiveFails
  BY <1>8 DEF ReceiveFails
<1>9. CASE ReceiveSuback
  BY <1>9 DEF ReceiveSuback, FinalRest
<1>10. CASE ReceiveUnsuback
  BY <1>10 DEF ReceiveUnsuback, FinalRest
<1>11. CASE ReceivePublish
  <2>1. PICK i \in Incoming, t \in {"PUBACK", "PUBREC"} :
          i \in seen' /\ (WriteOk(Packet(t, i)) \/ WriteFails)
    BY <1>11 DEF ReceivePublish
  <2>2. QED
    BY <2>1, ClientMayWrite, PacketsDiffer, WriteEvolves
<1>12. CASE ReceivePuback
  BY <1>12 DEF ReceivePuback, FinalRest
<1>13. CASE ReceivePubrec
  <2>1. PICK m \in Outgoing :
          /\ Receives("PUBREC", Packet("PUBREC", m))
          /\ Mark(m, "acknowledged")
          /\ WriteOk(Packet("PUBREL", m)) \/ WriteFails
    BY <1>13 DEF ReceivePubrec
  <2>2. m \in Qos2 \cap issued /\ Reached(m)
    BY <2>1, ClientKnows DEF DeliveryInv
  <2>3. Closed(m)' /\ Reached(m)'
    <3>1. m # None
      BY KindsDisjoint DEF Msgs
    <3>2. issued' = issued
      BY <1>13 DEF ReceivePubrec, pastVars
    <3>3. Closed(m)'
      BY <2>1, <2>2, <3>1, <3>2 DEF Mark, Get, Closed, DeliveryInv, TypeInv,
         BoxTyped
    <3>4. QED
      BY <2>2, <3>3 DEF Grows
  <2>4. QED
    BY <2>1, <2>2, <2>3, ClientMayWrite, PacketsDiffer, WriteEvolves
<1>14. CASE ReceivePubrel
  <2>1. PICK i \in Incoming :
          /\ Receives("PUBREL", Packet("PUBREL", i))
          /\ WriteOk(Packet("PUBCOMP", i)) \/ WriteFails
    BY <1>14 DEF ReceivePubrel
  <2>2. i \in seen'
    BY <2>1, ClientKnows DEF DeliveryInv, Grows
  <2>3. QED
    BY <2>1, <2>2, ClientMayWrite, PacketsDiffer, WriteEvolves
<1>15. CASE ReceivePubcomp
  BY <1>15 DEF ReceivePubcomp, FinalRest
<1>16. CASE ReceivePingresp
  BY <1>16 DEF ReceivePingresp
<1>17. CASE SendQueued
  <2>1. PICK m \in outbox :
          First("queued", m) /\ WriteOrAbort(Packet(MsgType(m), m))
    BY <1>17 DEF SendQueued
  <2>2. m \in Outgoing /\ m \in issued' /\ ~Closed(m)
    BY <2>1 DEF First, Items, Closed, Grows, DeliveryInv, TypeInv, BoxTyped
  <2>3. QED
    BY <2>1, <2>2, ClientMayWrite, PacketsDiffer, WriteEvolves
<1>18. CASE NothingToResend
  BY <1>18 DEF NothingToResend
<1>19. CASE Retransmit
  <2>1. CASE UNCHANGED up
    BY <2>1
  <2>2. CASE \E m \in outbox : First("transmitted", m)
                                 /\ WriteOrAbort(Packet(MsgType(m), m))
    <3>1. PICK m \in outbox :
            First("transmitted", m) /\ WriteOrAbort(Packet(MsgType(m), m))
      BY <2>2
    <3>2. m \in Outgoing /\ m \in issued' /\ ~Closed(m)
      BY <3>1 DEF First, Items, Closed, Grows, DeliveryInv, TypeInv, BoxTyped
    <3>3. QED
      BY <3>1, <3>2, ClientMayWrite, PacketsDiffer, WriteEvolves
  <2>3. QED
    BY <1>19, <2>1, <2>2 DEF Retransmit
<1>20. CASE ResendPubrel
  <2>1. PICK m \in outbox :
          First("acknowledged", m) /\ WriteOrAbort(Packet("PUBREL", m))
    BY <1>20 DEF ResendPubrel
  <2>2. m \in Qos2 /\ m \in Outgoing /\ Closed(m) /\ Reached(m)
    BY <2>1 DEF First, Items, Closed, DeliveryInv, FactsInv, TypeInv, BoxTyped
  <2>3. Closed(m)' /\ Reached(m)'
    BY <2>2 DEF Grows
  <2>4. QED
    BY <2>1, <2>2, <2>3, ClientMayWrite, PacketsDiffer, WriteEvolves
<1>21. CASE KeepAlive
  <2>1. WriteOk(Packet("PINGREQ", None)) \/ UNCHANGED up
    BY <1>21 DEF KeepAlive, Ping
  <2>2. QED
    BY <2>1, ClientMayWrite, PacketsDiffer, WriteEvolves
<1>22. CASE KeepAliveFails
  BY <1>22 DEF KeepAliveFails, WriteFails
<1>23. CASE Refresh
  BY <1>23 DEF Refresh
<1>24. CASE PollEnds
  BY <1>24 DEF PollEnds
<1>25. CASE Reconnect
  BY <1>25 DEF Reconnect, TakesLock
<1>26. CASE KeepWaiting
  BY <1>26 DEF KeepWaiting, TakesLock
<1>27. CASE LoopEnds
  BY <1>27 DEF LoopEnds
<1>28. CASE TaskEnds
  BY <1>28 DEF TaskEnds
<1>29. QED
  BY <1>1, <1>1a, <1>1b, <1>2, <1>3, <1>4, <1>5, <1>6, <1>7, <1>8, <1>9, <1>10, <1>11,
     <1>12, <1>13, <1>14, <1>15, <1>16, <1>17, <1>18, <1>19, <1>20, <1>21,
     <1>22, <1>23, <1>24, <1>25, <1>26, <1>27, <1>28
  DEF Loop, Receive, Resend

LEMMA UpEvolvesApplication ==
  ASSUME DeliveryInv, Grows, Application
  PROVE  UpEvolves
<1> USE DEF UpEvolves, clientVars, boxVars, netVars, brokerVars, pastVars
<1>1. CASE Start
  BY <1>1 DEF Start
<1>2. CASE Stop
  <2>1. WriteOk(Packet("DISCONNECT", None)) \/ WriteFails \/ UNCHANGED up
    BY <1>2 DEF Stop, SendDisconnect
  <2>2. QED
    BY <2>1, ClientMayWrite, PacketsDiffer, WriteEvolves
<1>3. CASE StopReturns
  BY <1>3 DEF StopReturns
<1>4. CASE Disconnect
  BY <1>4 DEF Disconnect
<1>5. CASE ReconnectCheck
  BY <1>5 DEF ReconnectCheck
<1>6. CASE ReconnectSet
  BY <1>6 DEF ReconnectSet
<1>7. ASSUME NEW m \in Outgoing, Publish(m)
      PROVE  UpEvolves
  <2>1. \/ WriteOk(Packet("PUBLISH", m)) \/ WriteFails
        \/ UNCHANGED up
    BY <1>7 DEF Publish
  <2>2. m \in issued' /\ ~Closed(m)
    BY <1>7 DEF Publish, Fresh, Closed
  <2>3. QED
    BY <2>1, <2>2, ClientMayWrite, PacketsDiffer, WriteEvolves
<1>8. ASSUME NEW m \in Outgoing, Enqueue(m)
      PROVE  UpEvolves
  BY <1>8 DEF Enqueue
<1>9. ASSUME NEW m \in Outgoing, SubscribeCheck(m)
      PROVE  UpEvolves
  BY <1>9 DEF SubscribeCheck, Checked, RequestRest
<1>10. ASSUME NEW m \in Outgoing, UnsubscribeCheck(m)
      PROVE  UpEvolves
  BY <1>10 DEF UnsubscribeCheck, Checked, RequestRest
<1>11. CASE RequestSend
  <2>1. /\ caller \in Requests
        /\ WriteOk(Packet(MsgType(caller), caller)) \/ WriteFails
        /\ caller \in issued'
    BY <1>11 DEF RequestSend, Subscribe, Unsubscribe, SendRequest, Requests
  <2>2. caller \in Outgoing /\ caller \notin Qos2
    BY <2>1, KindsDisjoint DEF Outgoing, Publishes
  <2>3. QED
    BY <2>1, <2>2, ClientMayWrite, PacketsDiffer, WriteEvolves
<1>12. QED
  BY <1>1, <1>2, <1>3, <1>4, <1>5, <1>6, <1>7, <1>8, <1>9, <1>10, <1>11
  DEF Application

LEMMA UpEvolvesBroker ==
  ASSUME DeliveryInv, Grows, Broker \/ LinkFails \/ Tick
  PROVE  UpEvolves
<1> USE DEF UpEvolves, clientVars, boxVars, netVars, brokerVars, pastVars
<1>1. CASE BrokerReadsPublish
  BY <1>1 DEF BrokerReadsPublish, BrokerTakes
<1>2. CASE BrokerReadsPubrel
  BY <1>2 DEF BrokerReadsPubrel, BrokerTakes
<1>3. CASE BrokerReadsRequest
  BY <1>3 DEF BrokerReadsRequest, BrokerTakes
<1>4. CASE BrokerReadsOther
  BY <1>4 DEF BrokerReadsOther, BrokerTakes
<1>5. CASE BrokerReadsAnswer
  BY <1>5 DEF BrokerReadsAnswer, BrokerTakes
<1>6. CASE BrokerPublishes
  BY <1>6 DEF BrokerPublishes
<1>7. CASE LinkFails
  BY <1>7 DEF LinkFails
<1>8. CASE Tick
  BY <1>8 DEF Tick
<1>9. QED
  BY <1>1, <1>2, <1>3, <1>4, <1>5, <1>6, <1>7, <1>8
  DEF Broker

\* What the broker sends, if it is about the right message
LEMMA BrokerMaySend ==
  /\ \A m \in Qos2 :
       m \in issued' /\ Reached(m)' => Packet("PUBREC", m) \in DownAllowed'
  /\ \A m \in Outgoing, t \in {"PUBACK", "PUBCOMP", "SUBACK", "UNSUBACK"} :
       Acted(m)' => Packet(t, m) \in DownAllowed'
  /\ \A i \in Incoming : i \in seen' => Packet("PUBREL", i) \in DownAllowed'
  /\ \A i \in Incoming : Packet("PUBLISH", i) \in DownAllowed'
  /\ Packet("PINGRESP", None) \in DownAllowed'
<1>1. \A t, x : Packet(t, x).type = t /\ Packet(t, x).about = x
  BY DEF Packet
<1>2. Outgoing \subseteq Msgs /\ Incoming \subseteq Msgs /\ Qos2 \subseteq Msgs
  BY DEF Msgs, Outgoing, Publishes
<1>3. QED
  BY <1>1, <1>2, PacketTyped DEF DownAllowed

\* The broker replies
LEMMA ReplyEvolves ==
  ASSUME NEW t, NEW m, Packet(t, m) \in DownAllowed', Reply(t, m)
  PROVE  DownEvolves
BY DEF DownEvolves, Reply

LEMMA DownEvolvesLoop ==
  ASSUME DeliveryInv, Grows, Loop
  PROVE  DownEvolves
<1> USE DEF DownEvolves, clientVars, boxVars, netVars, brokerVars, pastVars
<1>1. CASE TaskStarts
  BY <1>1 DEF TaskStarts
<1>1a. CASE TaskEnters
  BY <1>1a DEF TaskEnters
<1>1b. CASE TaskClears
  BY <1>1b DEF TaskClears
<1>2. CASE EnterState
  BY <1>2 DEF EnterState, TakesLock
<1>3. CASE NoTransport
  BY <1>3 DEF NoTransport, Connection
<1>4. CASE ConnectFails
  BY <1>4 DEF ConnectFails, Abort
<1>5. CASE Connect
  BY <1>5 DEF Connect
<1>6. CASE ServeDisconnect
  BY <1>6 DEF ServeDisconnect, Abort
<1>7. CASE ReceiveNothing
  BY <1>7 DEF ReceiveNothing
<1>8. CASE ReceiveFails
  BY <1>8 DEF ReceiveFails, Abort
<1>9. CASE ReceiveSuback
  BY <1>9 DEF ReceiveSuback, FinalRest, Handled, Receives
<1>10. CASE ReceiveUnsuback
  BY <1>10 DEF ReceiveUnsuback, FinalRest, Handled, Receives
<1>11. CASE ReceivePublish
  BY <1>11 DEF ReceivePublish, Handled, Receives, Connection, Abort
<1>12. CASE ReceivePuback
  BY <1>12 DEF ReceivePuback, FinalRest, Handled, Receives
<1>13. CASE ReceivePubrec
  BY <1>13 DEF ReceivePubrec, Handled, Receives
<1>14. CASE ReceivePubrel
  BY <1>14 DEF ReceivePubrel, Handled, Receives
<1>15. CASE ReceivePubcomp
  BY <1>15 DEF ReceivePubcomp, FinalRest, Handled, Receives
<1>16. CASE ReceivePingresp
  BY <1>16 DEF ReceivePingresp, Handled, Receives
<1>17. CASE SendQueued
  <2>1. \E p : WriteOrAbort(p)
    BY <1>17 DEF SendQueued
  <2>2. QED
    BY <2>1 DEF WriteOrAbort, Abort, Connection
<1>18. CASE NothingToResend
  BY <1>18 DEF NothingToResend
<1>19. CASE Retransmit
  <2>1. UNCHANGED down \/ \E p : WriteOrAbort(p)
    BY <1>19 DEF Retransmit
  <2>2. QED
    BY <2>1 DEF WriteOrAbort, Abort, Connection
<1>20. CASE ResendPubrel
  <2>1. \E p : WriteOrAbort(p)
    BY <1>20 DEF ResendPubrel
  <2>2. QED
    BY <2>1 DEF WriteOrAbort, Abort, Connection
<1>21. CASE KeepAlive
  BY <1>21 DEF KeepAlive, Connection
<1>22. CASE KeepAliveFails
  BY <1>22 DEF KeepAliveFails, Abort
<1>23. CASE Refresh
  BY <1>23 DEF Refresh
<1>24. CASE PollEnds
  BY <1>24 DEF PollEnds, Connection, Abort
<1>25. CASE Reconnect
  BY <1>25 DEF Reconnect, TakesLock
<1>26. CASE KeepWaiting
  BY <1>26 DEF KeepWaiting, TakesLock
<1>27. CASE LoopEnds
  BY <1>27 DEF LoopEnds
<1>28. CASE TaskEnds
  BY <1>28 DEF TaskEnds
<1>29. QED
  BY <1>1, <1>1a, <1>1b, <1>2, <1>3, <1>4, <1>5, <1>6, <1>7, <1>8, <1>9, <1>10, <1>11,
     <1>12, <1>13, <1>14, <1>15, <1>16, <1>17, <1>18, <1>19, <1>20, <1>21,
     <1>22, <1>23, <1>24, <1>25, <1>26, <1>27, <1>28
  DEF Loop, Receive, Resend

LEMMA DownEvolvesApplication ==
  ASSUME DeliveryInv, Grows, Application
  PROVE  DownEvolves
<1> USE DEF DownEvolves, clientVars, boxVars, netVars, brokerVars, pastVars
<1>1. CASE Start
  BY <1>1 DEF Start
<1>2. CASE Stop
  BY <1>2 DEF Stop
<1>3. CASE StopReturns
  BY <1>3 DEF StopReturns
<1>4. CASE Disconnect
  BY <1>4 DEF Disconnect
<1>5. CASE ReconnectCheck
  BY <1>5 DEF ReconnectCheck
<1>6. CASE ReconnectSet
  BY <1>6 DEF ReconnectSet
<1>7. ASSUME NEW m \in Outgoing, Publish(m)
      PROVE  DownEvolves
  BY <1>7 DEF Publish, Connection, Abort
<1>8. ASSUME NEW m \in Outgoing, Enqueue(m)
      PROVE  DownEvolves
  BY <1>8 DEF Enqueue
<1>9. ASSUME NEW m \in Outgoing, SubscribeCheck(m)
      PROVE  DownEvolves
  BY <1>9 DEF SubscribeCheck, Checked, RequestRest
<1>10. ASSUME NEW m \in Outgoing, UnsubscribeCheck(m)
      PROVE  DownEvolves
  BY <1>10 DEF UnsubscribeCheck, Checked, RequestRest
<1>11. CASE RequestSend
  BY <1>11 DEF RequestSend, Subscribe, Unsubscribe, SendRequest, RequestRest
<1>12. QED
  BY <1>1, <1>2, <1>3, <1>4, <1>5, <1>6, <1>7, <1>8, <1>9, <1>10, <1>11
  DEF Application

LEMMA DownEvolvesBroker ==
  ASSUME DeliveryInv, Grows, Broker \/ LinkFails \/ Tick
  PROVE  DownEvolves
<1> USE DEF DownEvolves, clientVars, boxVars, netVars, brokerVars, pastVars
<1>1. CASE BrokerReadsPublish
  <2>1. PICK m \in Publishes :
          /\ BrokerTakes("PUBLISH", Packet("PUBLISH", m))
          /\ IF m \in Qos2
             THEN held' = held \cup {m} /\ Reply("PUBREC", m)
             ELSE /\ got' = [got EXCEPT ![m] = Often(@)]
                  /\ Reply("PUBACK", m) \/ UNCHANGED down
    BY <1>1 DEF BrokerReadsPublish
  <2>2. m \in Outgoing /\ m \in issued'
    BY <2>1, BrokerKnows DEF Outgoing, DeliveryInv, Grows
  <2>3. CASE m \in Qos2
    <3>1. Reached(m)'
      BY <2>1, <2>3 DEF Reached
    <3>2. QED
      BY <2>1, <2>2, <2>3, <3>1, BrokerMaySend, ReplyEvolves
  <2>4. CASE m \notin Qos2
    <3>1. Acted(m)'
      BY <2>1, <2>2, <2>4, OftenActed DEF Acted, DeliveryInv, TypeInv
    <3>2. QED
      BY <2>1, <2>2, <2>4, <3>1, BrokerMaySend, ReplyEvolves
  <2>5. QED
    BY <2>3, <2>4
<1>2. CASE BrokerReadsPubrel
  <2>1. PICK m \in Outgoing :
          /\ BrokerTakes("PUBREL", Packet("PUBREL", m))
          /\ got' = IF m \in held THEN [got EXCEPT ![m] = Often(@)] ELSE got
          /\ Reply("PUBCOMP", m)
    BY <1>2 DEF BrokerReadsPubrel
  <2>2. Reached(m)
    BY <2>1, BrokerKnows DEF DeliveryInv
  <2>3. Acted(m)'
    BY <2>1, <2>2, OftenActed DEF Acted, Reached, DeliveryInv, TypeInv
  <2>4. QED
    BY <2>1, <2>3, BrokerMaySend, ReplyEvolves
<1>3. CASE BrokerReadsRequest
  <2>1. PICK m \in Requests, t \in {"SUBACK", "UNSUBACK"} :
          got' = [got EXCEPT ![m] = Often(@)] /\ Reply(t, m)
    BY <1>3 DEF BrokerReadsRequest
  <2>2. m \in Outgoing
    BY DEF Outgoing
  <2>3. Acted(m)'
    BY <2>1, <2>2, OftenActed DEF Acted, DeliveryInv, TypeInv
  <2>4. QED
    BY <2>1, <2>2, <2>3, BrokerMaySend, ReplyEvolves
<1>4. CASE BrokerReadsOther
  <2>1. Reply("PINGRESP", None) \/ UNCHANGED down
    BY <1>4 DEF BrokerReadsOther
  <2>2. QED
    BY <2>1, BrokerMaySend, ReplyEvolves
<1>5. CASE BrokerReadsAnswer
  BY <1>5 DEF BrokerReadsAnswer
<1>6. CASE BrokerPublishes
  <2>1. PICK i \in Incoming :
          \/ down' = Append(down, Packet("PUBLISH", i))
          \/ /\ inbound[i] = "received"
             /\ down' = Append(down, Packet("PUBREL", i))
    BY <1>6 DEF BrokerPublishes
  <2>2. inbound[i] = "received" => i \in seen'
    BY DEF DeliveryInv, FactsInv, Grows
  <2>3. QED
    BY <2>1, <2>2, BrokerMaySend
<1>7. CASE LinkFails
  BY <1>7 DEF LinkFails
<1>8. CASE Tick
  BY <1>8 DEF Tick
<1>9. QED
  BY <1>1, <1>2, <1>3, <1>4, <1>5, <1>6, <1>7, <1>8
  DEF Broker

-----------------------------------------------------------------------------
(* PUBLISH before PUBREL *)

\* Only a PUBREL makes the broker act on a level-2 message
ReleasedOnly ==
  \A m \in Qos2 :
    got'[m] # got[m] => up # <<>> /\ Head(up) = Packet("PUBREL", m)

LEMMA ReleasedOnlyLoop ==
  ASSUME DeliveryInv, Loop
  PROVE  ReleasedOnly
<1> USE DEF ReleasedOnly, clientVars, boxVars, netVars, brokerVars, pastVars
<1>1. CASE TaskStarts
  BY <1>1 DEF TaskStarts
<1>1a. CASE TaskEnters
  BY <1>1a DEF TaskEnters
<1>1b. CASE TaskClears
  BY <1>1b DEF TaskClears
<1>2. CASE EnterState
  BY <1>2 DEF EnterState, TakesLock
<1>3. CASE NoTransport
  BY <1>3 DEF NoTransport
<1>4. CASE ConnectFails
  BY <1>4 DEF ConnectFails
<1>5. CASE Connect
  BY <1>5 DEF Connect
<1>6. CASE ServeDisconnect
  BY <1>6 DEF ServeDisconnect
<1>7. CASE ReceiveNothing
  BY <1>7 DEF ReceiveNothing
<1>8. CASE ReceiveFails
  BY <1>8 DEF ReceiveFails
<1>9. CASE ReceiveSuback
  BY <1>9 DEF ReceiveSuback, FinalRest
<1>10. CASE ReceiveUnsuback
  BY <1>10 DEF ReceiveUnsuback, FinalRest
<1>11. CASE ReceivePublish
  BY <1>11 DEF ReceivePublish
<1>12. CASE ReceivePuback
  BY <1>12 DEF ReceivePuback, FinalRest
<1>13. CASE ReceivePubrec
  BY <1>13 DEF ReceivePubrec
<1>14. CASE ReceivePubrel
  BY <1>14 DEF ReceivePubrel
<1>15. CASE ReceivePubcomp
  BY <1>15 DEF ReceivePubcomp, FinalRest
<1>16. CASE ReceivePingresp
  BY <1>16 DEF ReceivePingresp
<1>17. CASE SendQueued
  BY <1>17 DEF SendQueued
<1>18. CASE NothingToResend
  BY <1>18 DEF NothingToResend
<1>19. CASE Retransmit
  BY <1>19 DEF Retransmit
<1>20. CASE ResendPubrel
  BY <1>20 DEF ResendPubrel
<1>21. CASE KeepAlive
  BY <1>21 DEF KeepAlive
<1>22. CASE KeepAliveFails
  BY <1>22 DEF KeepAliveFails
<1>23. CASE Refresh
  BY <1>23 DEF Refresh
<1>24. CASE PollEnds
  BY <1>24 DEF PollEnds
<1>25. CASE Reconnect
  BY <1>25 DEF Reconnect, TakesLock
<1>26. CASE KeepWaiting
  BY <1>26 DEF KeepWaiting, TakesLock
<1>27. CASE LoopEnds
  BY <1>27 DEF LoopEnds
<1>28. CASE TaskEnds
  BY <1>28 DEF TaskEnds
<1>29. QED
  BY <1>1, <1>1a, <1>1b, <1>2, <1>3, <1>4, <1>5, <1>6, <1>7, <1>8, <1>9, <1>10, <1>11,
     <1>12, <1>13, <1>14, <1>15, <1>16, <1>17, <1>18, <1>19, <1>20, <1>21,
     <1>22, <1>23, <1>24, <1>25, <1>26, <1>27, <1>28
  DEF Loop, Receive, Resend

LEMMA ReleasedOnlyApplication ==
  ASSUME DeliveryInv, Application
  PROVE  ReleasedOnly
<1> USE DEF ReleasedOnly, clientVars, boxVars, netVars, brokerVars, pastVars
<1>1. CASE Start
  BY <1>1 DEF Start
<1>2. CASE Stop
  BY <1>2 DEF Stop
<1>3. CASE StopReturns
  BY <1>3 DEF StopReturns
<1>4. CASE Disconnect
  BY <1>4 DEF Disconnect
<1>5. CASE ReconnectCheck
  BY <1>5 DEF ReconnectCheck
<1>6. CASE ReconnectSet
  BY <1>6 DEF ReconnectSet
<1>7. ASSUME NEW m \in Outgoing, Publish(m)
      PROVE  ReleasedOnly
  BY <1>7 DEF Publish
<1>8. ASSUME NEW m \in Outgoing, Enqueue(m)
      PROVE  ReleasedOnly
  BY <1>8 DEF Enqueue
<1>9. ASSUME NEW m \in Outgoing, SubscribeCheck(m)
      PROVE  ReleasedOnly
  BY <1>9 DEF SubscribeCheck, Checked, RequestRest
<1>10. ASSUME NEW m \in Outgoing, UnsubscribeCheck(m)
      PROVE  ReleasedOnly
  BY <1>10 DEF UnsubscribeCheck, Checked, RequestRest
<1>11. CASE RequestSend
  BY <1>11 DEF RequestSend, Subscribe, Unsubscribe, SendRequest, RequestRest
<1>12. QED
  BY <1>1, <1>2, <1>3, <1>4, <1>5, <1>6, <1>7, <1>8, <1>9, <1>10, <1>11
  DEF Application

LEMMA ReleasedOnlyBroker ==
  ASSUME DeliveryInv, Broker \/ LinkFails \/ Tick
  PROVE  ReleasedOnly
<1> USE DEF ReleasedOnly, clientVars, boxVars, netVars, brokerVars, pastVars
<1>1. CASE BrokerReadsPublish
  <2>1. \/ UNCHANGED got
        \/ \E m \in Publishes \ Qos2 : got' = [got EXCEPT ![m] = Often(@)]
    BY <1>1 DEF BrokerReadsPublish
  <2>2. QED
    BY <2>1, OftenActed DEF Outgoing, Publishes, DeliveryInv, TypeInv
<1>2. CASE BrokerReadsPubrel
  <2>1. PICK m \in Outgoing :
          /\ up # <<>> /\ Head(up) = Packet("PUBREL", m)
          /\ got' = IF m \in held THEN [got EXCEPT ![m] = Often(@)] ELSE got
    BY <1>2 DEF BrokerReadsPubrel, BrokerTakes
  <2>2. QED
    BY <2>1, OftenActed DEF Outgoing, Publishes, DeliveryInv, TypeInv
<1>3. CASE BrokerReadsRequest
  <2>1. PICK m \in Requests : got' = [got EXCEPT ![m] = Often(@)]
    BY <1>3 DEF BrokerReadsRequest
  <2>2. m \in Outgoing /\ m \notin Qos2
    BY KindsDisjoint DEF Outgoing, Publishes
  <2>3. QED
    BY <2>1, <2>2, OftenActed DEF Outgoing, Publishes, DeliveryInv, TypeInv
<1>4. CASE BrokerReadsOther
  BY <1>4 DEF BrokerReadsOther
<1>5. CASE BrokerReadsAnswer
  BY <1>5 DEF BrokerReadsAnswer
<1>6. CASE BrokerPublishes
  BY <1>6 DEF BrokerPublishes
<1>7. CASE LinkFails
  BY <1>7 DEF LinkFails
<1>8. CASE Tick
  BY <1>8 DEF Tick
<1>9. QED
  BY <1>1, <1>2, <1>3, <1>4, <1>5, <1>6, <1>7, <1>8
  DEF Broker

\* A level-2 message is not published behind its PUBREL: it is closed by then
\* (outbox_set_pending), and closed messages are not published.
LEMMA OrderedNext ==
  ASSUME DeliveryInv, UpEvolves, ReleasedOnly
  PROVE  Ordered'
<1> SUFFICES ASSUME NEW j \in 1 .. Len(up'), NEW m \in Qos2,
                    up'[j] = Packet("PUBLISH", m)
             PROVE  /\ got'[m] = 0
                    /\ \A i \in 1 .. j - 1 : up'[i] # Packet("PUBREL", m)
  BY DEF Ordered
<1> USE DEF DeliveryInv
<1>1. up \in Seq(UpAllowed) /\ Len(up) \in Nat
  BY DEF PacketInv
<1>2. Packet("PUBREL", m) # Packet("PUBLISH", m)
  BY PacketsDiffer
<1>3. (\A i \in 1 .. Len(up) : up[i] # Packet("PUBREL", m)) => got'[m] = got[m]
  BY <1>1, HeadAndTail DEF ReleasedOnly
<1>4. ASSUME NEW k \in 1 .. Len(up), up[k] = Packet("PUBLISH", m)
      PROVE  /\ got'[m] = 0
             /\ \A i \in 1 .. k - 1 : up[i] # Packet("PUBREL", m)
  <2>1. got[m] = 0 /\ \A i \in 1 .. k - 1 : up[i] # Packet("PUBREL", m)
    BY <1>4 DEF PacketInv, Ordered
  <2>2. up[1] # Packet("PUBREL", m)
    BY <1>1, <1>2, <1>4, <2>1
  <2>3. got'[m] = got[m]
    BY <1>1, <2>2, HeadAndTail DEF ReleasedOnly
  <2>4. QED
    BY <2>1, <2>3
<1>5. CASE up' = up
  BY <1>4, <1>5
<1>6. CASE up' = <<>>
  BY <1>6
<1>7. CASE up # <<>> /\ up' = Tail(up)
  <2>1. /\ j + 1 \in 1 .. Len(up) /\ up'[j] = up[j + 1]
        /\ \A i \in 1 .. j - 1 : up'[i] = up[i + 1] /\ i + 1 \in 1 .. j
    BY <1>1, <1>7
  <2>2. up[j + 1] = Packet("PUBLISH", m)
    BY <2>1
  <2>3. got'[m] = 0 /\ \A i \in 1 .. j : up[i] # Packet("PUBREL", m)
    BY <1>4, <2>1, <2>2
  <2>4. QED
    BY <2>1, <2>3
<1>8. ASSUME NEW p \in UpAllowed', up' = Append(up, p),
             p = Packet("PUBLISH", m) => ~Closed(m)
      PROVE  /\ got'[m] = 0
             /\ \A i \in 1 .. j - 1 : up'[i] # Packet("PUBREL", m)
  <2>1. /\ Len(up') = Len(up) + 1 /\ up'[Len(up) + 1] = p
        /\ \A i \in 1 .. Len(up) : up'[i] = up[i]
    BY <1>1, <1>8
  <2>2. CASE j \in 1 .. Len(up)
    BY <1>4, <2>1, <2>2
  <2>3. CASE j = Len(up) + 1
    <3>1. ~Closed(m)
      BY <1>8, <2>1, <2>3
    <3>2. ASSUME NEW i \in 1 .. Len(up)
          PROVE  up[i] # Packet("PUBREL", m)
      <4>1. up[i] \in UpAllowed
        BY <1>1
      <4>2. QED
        BY <3>1, <4>1 DEF UpAllowed, Packet
    <3>3. got[m] = 0
      BY <3>1 DEF FactsInv, TypeInv, BrokerTyped, Outgoing, Publishes
    <3>4. QED
      BY <1>3, <2>1, <2>3, <3>2, <3>3
  <2>4. QED
    BY <1>1, <2>1, <2>2, <2>3
<1>9. QED
  BY <1>5, <1>6, <1>7, <1>8 DEF UpEvolves

\* Every step keeps what is known of the packets.
LEMMA PacketInvNext ==
  ASSUME DeliveryInv, Grows, UpEvolves, DownEvolves, ReleasedOnly
  PROVE  PacketInv'
<1>1. up \in Seq(UpAllowed) /\ down \in Seq(DownAllowed)
  BY DEF DeliveryInv, PacketInv
<1>2. up \in Seq(UpAllowed') /\ down \in Seq(DownAllowed')
  BY <1>1, AllowedGrows, SeqGrows
<1>3. up' \in Seq(UpAllowed')
  BY <1>2, SeqEvolves DEF UpEvolves
<1>4. down' \in Seq(DownAllowed')
  BY <1>2, SeqEvolves DEF DownEvolves
<1>5. QED
  BY <1>3, <1>4, OrderedNext DEF PacketInv

-----------------------------------------------------------------------------
(* The invariant *)

LEMMA DeliveryInvInit == Init => DeliveryInv
<1> SUFFICES ASSUME Init
             PROVE  DeliveryInv
  OBVIOUS
<1>1. TypeInv
  BY TypeInvInit
<1>2. FreshInv
  BY NoRequestIsAName DEF Init, FreshInv
<1>3. PacketInv
  BY DEF Init, PacketInv, Ordered
<1>4. FactsInv
  BY DEF Init, FactsInv, Outgoing, Publishes
<1>5. QED
  BY <1>1, <1>2, <1>3, <1>4 DEF DeliveryInv

\* It is inductive.
LEMMA DeliveryInvNext == DeliveryInv /\ [Next]_vars => DeliveryInv'
<1>1. ASSUME DeliveryInv, Next
      PROVE  DeliveryInv'
  <2> USE <1>1
  <2>1. TypeInv /\ FreshInv /\ Grows
    BY GrowsLoop, GrowsApplication, GrowsBroker DEF DeliveryInv, Next
  <2>2. TypeInv'
    BY <2>1, TypeInvNext
  <2>3. FreshInv'
    BY <2>1, FreshInvLoop, FreshInvApplication, FreshInvBroker DEF Next
  <2>4. FactsInv'
    BY FactsInvLoop, FactsInvApplication, FactsInvBroker DEF Next
  <2>5. UpEvolves
    BY <2>1, UpEvolvesLoop, UpEvolvesApplication, UpEvolvesBroker DEF Next
  <2>6. DownEvolves
    BY <2>1, DownEvolvesLoop, DownEvolvesApplication, DownEvolvesBroker
       DEF Next
  <2>7. ReleasedOnly
    BY ReleasedOnlyLoop, ReleasedOnlyApplication, ReleasedOnlyBroker DEF Next
  <2>8. PacketInv'
    BY <2>1, <2>5, <2>6, <2>7, PacketInvNext
  <2>9. QED
    BY <2>2, <2>3, <2>4, <2>8 DEF DeliveryInv
<1>2. ASSUME DeliveryInv, UNCHANGED vars
      PROVE  DeliveryInv'
  <2> USE <1>2 DEF DeliveryInv, vars, clientVars, boxVars, netVars, brokerVars,
                   pastVars
  <2>1. TypeInv'
    BY TypeInvNext
  <2>2. FreshInv'
    BY DEF FreshInv
  <2>3. PacketInv'
    BY DEF PacketInv, Ordered, UpAllowed, DownAllowed, Closed, Reached, Acted
  <2>4. FactsInv'
    BY DEF FactsInv, Closed, Reached, Acted
  <2>5. QED
    BY <2>1, <2>2, <2>3, <2>4
<1>3. QED
  BY <1>1, <1>2

\* What the packets, the broker and the outbox say of each other always
\* agrees.
THEOREM DeliveryInvariant == Spec => []DeliveryInv
BY DeliveryInvInit, DeliveryInvNext, PTL DEF Spec

\* No subscriber gets a level-2 message twice, whatever is retransmitted,
\* lost or reconnected, and even if the broker forgets the session
\* (mqtt_resend_queued, mqtt_resend_pubrel and the MQTT_MSG_TYPE_PUBREC of
\* mqtt_process_receive).
THEOREM ExactlyOnceDelivered == Spec => []ExactlyOnce
<1>1. DeliveryInv => ExactlyOnce
  BY DEF DeliveryInv, FactsInv, ExactlyOnce, TypeInv, BrokerTyped, Outgoing,
         Publishes
<1>2. QED
  BY <1>1, DeliveryInvariant, PTL

\* What is reported as published or subscribed has reached a broker that
\* keeps sessions, and what that broker considers delivered has reached the
\* application.
THEOREM AnsweredMeansDelivered ==
  ASSUME ~CleanSession
  PROVE  Spec => []AnsweredIsDelivered
<1>1. DeliveryInv => AnsweredIsDelivered
  BY DEF DeliveryInv, FactsInv, AnsweredIsDelivered, Acted
<1>2. QED
  BY <1>1, DeliveryInvariant, PTL

-----------------------------------------------------------------------------
(* The client implements the delivery it promises *)

\* The messages the promise is about
Kept == Outgoing \ Qos0

\* The abstract specification is about the messages that are stored.
LEMMA KeptAgrees == Delivery!Kept = Kept
BY KindsDisjoint DEF Delivery!Kept, Kept, Outgoing, Publishes

\* A step of the abstract specification
Promised == [Delivery!Next]_(Delivery!deliveryVars)

\* A step that the promise does not mention
LEMMA NothingPromised ==
  ASSUME UNCHANGED <<issued, told, gone, got>>
  PROVE  Promised
BY DEF Promised, Delivery!deliveryVars, Fate

\* Messages leave the outbox unanswered
LEMMA GivesUp ==
  ASSUME DeliveryInv, NEW S \in SUBSET outbox, gone' = gone \cup S,
         UNCHANGED <<issued, told, got>>
  PROVE  Promised
<1>1. \A m \in S : m \in issued /\ m \notin told /\ m \notin gone
  BY DEF DeliveryInv, FreshInv, TypeInv, BoxTyped
<1>2. Delivery!GiveUp(S \cap Kept)
  BY <1>1, KeptAgrees DEF Delivery!GiveUp, Fate, Kept
<1>3. S \cap Kept \in SUBSET Delivery!Kept
  BY KeptAgrees
<1>4. QED
  BY <1>2, <1>3 DEF Promised, Delivery!Next

\* The answer to a message is reported
LEMMA Confirms ==
  ASSUME DeliveryInv, ~CleanSession, NEW m \in Outgoing, NEW t, Acted(m),
         Finish(m, t), UNCHANGED <<issued, gone, got>>
  PROVE  Promised
<1>1. CASE m \in outbox /\ MsgType(m) = t /\ m \in Kept
  <2>1. told' = told \cup {m}
    BY <1>1 DEF Finish
  <2>2. m \in issued /\ m \notin told /\ m \notin gone
    BY <1>1 DEF DeliveryInv, FreshInv, TypeInv, BoxTyped
  <2>3. Delivery!Confirm(m)
    BY <1>1, <2>1, <2>2 DEF Delivery!Confirm, Fate, Kept, Acted
  <2>4. QED
    BY <1>1, <2>3, KeptAgrees DEF Promised, Delivery!Next
<1>2. CASE ~(m \in outbox /\ MsgType(m) = t /\ m \in Kept)
  <2>1. \A n \in Kept : n \in told' <=> n \in told
    BY <1>2 DEF Finish
  <2>2. QED
    BY <2>1 DEF Promised, Delivery!deliveryVars, Fate, Kept
<1>3. QED
  BY <1>1, <1>2

\* A message is handed over
LEMMA Takes ==
  ASSUME DeliveryInv, NEW m \in Outgoing, m \notin issued,
         issued' = issued \cup {m}, UNCHANGED <<told, gone, got>>
  PROVE  Promised
<1>1. m \notin told /\ m \notin gone
  BY DEF DeliveryInv, TypeInv, BoxTyped
<1>2. CASE m \in Kept
  <2>1. Delivery!Take(m)
    BY <1>1, <1>2 DEF Delivery!Take, Fate, Kept
  <2>2. QED
    BY <1>2, <2>1, KeptAgrees DEF Promised, Delivery!Next
<1>3. CASE m \notin Kept
  BY <1>3 DEF Promised, Delivery!deliveryVars, Fate, Kept
<1>4. QED
  BY <1>2, <1>3

\* The broker acts on a message
LEMMA Forwards ==
  ASSUME DeliveryInv, NEW m \in Outgoing, m \in issued,
         m \in Qos2 => got[m] = 0, got' = [got EXCEPT ![m] = Often(@)],
         UNCHANGED <<issued, told, gone>>
  PROVE  Promised
<1>1. got \in [Outgoing -> 0 .. 2]
  BY DEF DeliveryInv, TypeInv, BrokerTyped
<1>2. CASE m \in Kept
  <2>1. Fate(m) # "new"
    BY DEF Fate
  <2>2. Delivery!Forward(m)
    BY <1>1, <1>2, <2>1 DEF Delivery!Forward, Fate, Kept, Often
  <2>3. QED
    BY <1>2, <2>2, KeptAgrees DEF Promised, Delivery!Next
<1>3. CASE m \notin Kept
  BY <1>1, <1>3 DEF Promised, Delivery!deliveryVars, Fate, Kept
<1>4. QED
  BY <1>2, <1>3

LEMMA PromisedLoop ==
  ASSUME DeliveryInv, ~CleanSession, Loop
  PROVE  Promised
<1> USE NothingPromised DEF clientVars, boxVars, netVars, brokerVars, pastVars
<1>1. CASE TaskStarts
  BY <1>1 DEF TaskStarts
<1>1a. CASE TaskEnters
  BY <1>1a DEF TaskEnters
<1>1b. CASE TaskClears
  BY <1>1b DEF TaskClears
<1>2. CASE EnterState
  <2>1. DeleteExpired /\ UNCHANGED <<issued, told, got>>
    BY <1>2 DEF EnterState, TakesLock
  <2>2. QED
    BY <2>1, GivesUp DEF DeleteExpired
<1>3. CASE NoTransport
  BY <1>3 DEF NoTransport
<1>4. CASE ConnectFails
  BY <1>4 DEF ConnectFails
<1>5. CASE Connect
  BY <1>5 DEF Connect
<1>6. CASE ServeDisconnect
  BY <1>6 DEF ServeDisconnect
<1>7. CASE ReceiveNothing
  BY <1>7 DEF ReceiveNothing
<1>8. CASE ReceiveFails
  BY <1>8 DEF ReceiveFails
<1>9. CASE ReceiveSuback
  <2>1. PICK m \in Outgoing : /\ Receives("SUBACK", Packet("SUBACK", m))
                              /\ Finish(m, "SUBSCRIBE")
    BY <1>9 DEF ReceiveSuback
  <2>2. Acted(m) /\ UNCHANGED <<issued, gone, got>>
    BY <1>9, <2>1, ClientKnows DEF ReceiveSuback, FinalRest, DeliveryInv
  <2>3. QED
    BY <2>1, <2>2, Confirms
<1>10. CASE ReceiveUnsuback
  <2>1. PICK m \in Outgoing : /\ Receives("UNSUBACK", Packet("UNSUBACK", m))
                              /\ Finish(m, "UNSUBSCRIBE")
    BY <1>10 DEF ReceiveUnsuback
  <2>2. Acted(m) /\ UNCHANGED <<issued, gone, got>>
    BY <1>10, <2>1, ClientKnows DEF ReceiveUnsuback, FinalRest, DeliveryInv
  <2>3. QED
    BY <2>1, <2>2, Confirms
<1>11. CASE ReceivePublish
  BY <1>11 DEF ReceivePublish, Handled
<1>12. CASE ReceivePuback
  <2>1. PICK m \in Outgoing : /\ Receives("PUBACK", Packet("PUBACK", m))
                              /\ Finish(m, "PUBLISH")
    BY <1>12 DEF ReceivePuback
  <2>2. Acted(m) /\ UNCHANGED <<issued, gone, got>>
    BY <1>12, <2>1, ClientKnows DEF ReceivePuback, FinalRest, DeliveryInv
  <2>3. QED
    BY <2>1, <2>2, Confirms
<1>13. CASE ReceivePubrec
  BY <1>13 DEF ReceivePubrec, Handled
<1>14. CASE ReceivePubrel
  BY <1>14 DEF ReceivePubrel, Handled
<1>15. CASE ReceivePubcomp
  <2>1. PICK m \in Outgoing : /\ Receives("PUBCOMP", Packet("PUBCOMP", m))
                              /\ Finish(m, "PUBLISH")
    BY <1>15 DEF ReceivePubcomp
  <2>2. Acted(m) /\ UNCHANGED <<issued, gone, got>>
    BY <1>15, <2>1, ClientKnows DEF ReceivePubcomp, FinalRest, DeliveryInv
  <2>3. QED
    BY <2>1, <2>2, Confirms
<1>16. CASE ReceivePingresp
  BY <1>16 DEF ReceivePingresp, Handled
<1>17. CASE SendQueued
  BY <1>17 DEF SendQueued
<1>18. CASE NothingToResend
  BY <1>18 DEF NothingToResend
<1>19. CASE Retransmit
  BY <1>19 DEF Retransmit
<1>20. CASE ResendPubrel
  BY <1>20 DEF ResendPubrel
<1>21. CASE KeepAlive
  BY <1>21 DEF KeepAlive
<1>22. CASE KeepAliveFails
  BY <1>22 DEF KeepAliveFails
<1>23. CASE Refresh
  BY <1>23 DEF Refresh
<1>24. CASE PollEnds
  BY <1>24 DEF PollEnds
<1>25. CASE Reconnect
  <2>1. DeleteExpired /\ UNCHANGED <<issued, told, got>>
    BY <1>25 DEF Reconnect, TakesLock
  <2>2. QED
    BY <2>1, GivesUp DEF DeleteExpired
<1>26. CASE KeepWaiting
  <2>1. DeleteExpired /\ UNCHANGED <<issued, told, got>>
    BY <1>26 DEF KeepWaiting, TakesLock
  <2>2. QED
    BY <2>1, GivesUp DEF DeleteExpired
<1>27. CASE LoopEnds
  BY <1>27, GivesUp DEF LoopEnds, DeleteAllItems
<1>28. CASE TaskEnds
  BY <1>28 DEF TaskEnds
<1>29. QED
  BY <1>1, <1>1a, <1>1b, <1>2, <1>3, <1>4, <1>5, <1>6, <1>7, <1>8, <1>9, <1>10, <1>11,
     <1>12, <1>13, <1>14, <1>15, <1>16, <1>17, <1>18, <1>19, <1>20, <1>21,
     <1>22, <1>23, <1>24, <1>25, <1>26, <1>27, <1>28
  DEF Loop, Receive, Resend

LEMMA PromisedApplication ==
  ASSUME DeliveryInv, ~CleanSession, Application
  PROVE  Promised
<1> USE NothingPromised DEF clientVars, boxVars, netVars, brokerVars, pastVars
<1>1. CASE Start
  BY <1>1 DEF Start
<1>2. CASE Stop
  BY <1>2 DEF Stop
<1>3. CASE StopReturns
  BY <1>3 DEF StopReturns
<1>4. CASE Disconnect
  BY <1>4 DEF Disconnect
<1>5. CASE ReconnectCheck
  BY <1>5 DEF ReconnectCheck
<1>6. CASE ReconnectSet
  BY <1>6 DEF ReconnectSet
<1>7. ASSUME NEW m \in Outgoing, Publish(m)
      PROVE  Promised
  BY <1>7, Takes DEF Publish, Fresh
<1>8. ASSUME NEW m \in Outgoing, Enqueue(m)
      PROVE  Promised
  BY <1>8, Takes DEF Enqueue, Fresh
<1>9. ASSUME NEW m \in Outgoing, SubscribeCheck(m)
      PROVE  Promised
  BY <1>9 DEF SubscribeCheck, Checked, RequestRest
<1>10. ASSUME NEW m \in Outgoing, UnsubscribeCheck(m)
      PROVE  Promised
  BY <1>10 DEF UnsubscribeCheck, Checked, RequestRest
<1>11. CASE RequestSend
  <2>1. /\ caller \in Requests
        /\ issued' = issued \cup {caller}
        /\ UNCHANGED <<told, gone, got>>
    BY <1>11 DEF RequestSend, Subscribe, Unsubscribe, SendRequest, Requests,
           RequestRest
  <2>2. caller \in Outgoing /\ caller \notin issued
    BY <2>1 DEF Outgoing, DeliveryInv, FreshInv
  <2>3. QED
    BY <2>1, <2>2, Takes
<1>12. QED
  BY <1>1, <1>2, <1>3, <1>4, <1>5, <1>6, <1>7, <1>8, <1>9, <1>10, <1>11
  DEF Application

LEMMA PromisedBroker ==
  ASSUME DeliveryInv, ~CleanSession, Broker \/ LinkFails \/ Tick
  PROVE  Promised
<1> USE NothingPromised DEF clientVars, boxVars, netVars, brokerVars, pastVars
<1>1. CASE BrokerReadsPublish
  <2>1. PICK m \in Publishes :
          /\ BrokerTakes("PUBLISH", Packet("PUBLISH", m))
          /\ IF m \in Qos2 THEN UNCHANGED got
             ELSE got' = [got EXCEPT ![m] = Often(@)]
    BY <1>1 DEF BrokerReadsPublish
  <2>2. UNCHANGED <<issued, told, gone>>
    BY <1>1 DEF BrokerReadsPublish
  <2>3. m \in Outgoing /\ m \in issued
    BY <2>1, BrokerKnows DEF Outgoing, DeliveryInv
  <2>4. QED
    BY <2>1, <2>2, <2>3, Forwards
<1>2. CASE BrokerReadsPubrel
  <2>1. PICK m \in Outgoing :
          /\ BrokerTakes("PUBREL", Packet("PUBREL", m))
          /\ got' = IF m \in held THEN [got EXCEPT ![m] = Often(@)] ELSE got
    BY <1>2 DEF BrokerReadsPubrel
  <2>2. UNCHANGED <<issued, told, gone>>
    BY <1>2 DEF BrokerReadsPubrel
  <2>3. m \in Qos2 /\ m \in issued
    BY <2>1, BrokerKnows DEF Closed, DeliveryInv
  <2>4. m \in held => got[m] = 0
    BY <2>3 DEF DeliveryInv, FactsInv, TypeInv, BrokerTyped, Outgoing,
       Publishes
  <2>5. QED
    BY <2>1, <2>2, <2>3, <2>4, Forwards
<1>3. CASE BrokerReadsRequest
  <2>1. PICK m \in Requests :
          /\ BrokerTakes(MsgType(m), Packet(MsgType(m), m))
          /\ got' = [got EXCEPT ![m] = Often(@)]
    BY <1>3 DEF BrokerReadsRequest
  <2>2. UNCHANGED <<issued, told, gone>>
    BY <1>3 DEF BrokerReadsRequest
  <2>3. m \in Outgoing /\ m \notin Qos2
    BY KindsDisjoint DEF Outgoing, Publishes
  <2>4. m \in issued
    BY <2>1, BrokerKnows, TypesOfMessages DEF Requests, DeliveryInv
  <2>5. QED
    BY <2>1, <2>2, <2>3, <2>4, Forwards
<1>4. CASE BrokerReadsOther
  BY <1>4 DEF BrokerReadsOther
<1>5. CASE BrokerReadsAnswer
  BY <1>5 DEF BrokerReadsAnswer
<1>6. CASE BrokerPublishes
  BY <1>6 DEF BrokerPublishes
<1>7. CASE LinkFails
  BY <1>7 DEF LinkFails
<1>8. CASE Tick
  BY <1>8 DEF Tick
<1>9. QED
  BY <1>1, <1>2, <1>3, <1>4, <1>5, <1>6, <1>7, <1>8
  DEF Broker

\* The client implements what docs/en/index.rst promises of its messages: a
\* level-2 message is forwarded at most once, and a message is reported only
\* after the broker has acted on it.
THEOREM DeliveryImplemented ==
  ASSUME ~CleanSession
  PROVE  Spec => ImplementsDelivery
<1>1. Init => Delivery!Init
  BY KeptAgrees DEF Init, Delivery!Init, Fate, Kept
<1>2. DeliveryInv /\ [Next]_vars => [Delivery!Next]_(Delivery!deliveryVars)
  <2>1. ASSUME DeliveryInv, Next
        PROVE  Promised
    BY <2>1, PromisedLoop, PromisedApplication, PromisedBroker DEF Next
  <2>2. ASSUME UNCHANGED vars
        PROVE  Promised
    BY <2>2, NothingPromised DEF vars, brokerVars, pastVars
  <2>3. QED
    BY <2>1, <2>2 DEF Promised
<1>3. QED
  BY <1>1, <1>2, DeliveryInvariant, PTL DEF Spec, ImplementsDelivery,
     Delivery!Spec

=============================================================================
