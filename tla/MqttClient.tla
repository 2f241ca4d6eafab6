------------------------------ MODULE MqttClient ------------------------------
(***************************************************************************)
(* The MQTT client of managed_components/espressif__mqtt: the task of      *)
(* mqtt_client.c, the calls of the application, the outbox of              *)
(* lib/mqtt_outbox.c, and the network and broker they talk to.             *)
(*                                                                         *)
(* A step is one function of the task's loop or one call under the API     *)
(* lock.  The task holds the lock from the top of its loop to the poll; a  *)
(* call made by an event handler is one made when the lock is free again.  *)
(* A message is its identifier; messages in use have different ones.       *)
(***************************************************************************)
EXTENDS Naturals, Sequences, FiniteSets

CONSTANTS
  Qos0, Qos1, Qos2,   \* messages the application publishes, by level
  Subs, Unsubs,       \* its subscriptions and their cancellations
  In1, In2,           \* messages the broker publishes, by level
  None,               \* no message
  Scenarios,          \* what an execution may consist of: the messages, the
                      \* calls and how many of them, whether the configuration
                      \* has auto_reconnect and refresh_connection_after_ms, and
                      \* how many packets are on their way when the client
                      \* retransmits
  CleanSession,       \* whether the broker forgets the client between
                      \* connections (not disable_clean_session)
  MaxFaults           \* how often the network or a connection attempt fails

Publishes == Qos0 \cup Qos1 \cup Qos2
Requests == Subs \cup Unsubs
Outgoing == Publishes \cup Requests
Incoming == In1 \cup In2
Msgs == Outgoing \cup Incoming

Kinds == <<Qos0, Qos1, Qos2, Subs, Unsubs, In1, In2>>

ASSUME KindsAssumption ==
  /\ \A i, j \in DOMAIN Kinds : i # j => Kinds[i] \cap Kinds[j] = {}
  /\ None \notin Msgs
  /\ {"idle", "reconnecting", "stopping"} \cap Msgs = {}
  /\ Scenarios \subseteq [work : SUBSET Msgs, auto : BOOLEAN, refresh : BOOLEAN,
                           calls : SUBSET {"start", "stop", "disconnect",
                                           "reconnect"},
                           most : Nat, backlog : Nat]

ASSUME BoundsAssumption ==
  /\ CleanSession \in BOOLEAN
  /\ MaxFaults \in Nat
  /\ IsFiniteSet(Msgs)

Packet(t, m) == [type |-> t, about |-> m]

\* mqtt_get_type of the message the client stores for m
MsgType(m) == IF m \in Subs THEN "SUBSCRIBE"
              ELSE IF m \in Unsubs THEN "UNSUBSCRIBE" ELSE "PUBLISH"

VARIABLES
  state,     \* client->state
  run,       \* client->run
  task,      \* where esp_mqtt_task is
  stopped,   \* STOPPED_BIT
  bits,      \* DISCONNECT_BIT and RECONNECT_BIT
  caller,    \* what the application is in the middle of
  calls,     \* calls made
  waitPing,  \* client->wait_for_ping_resp
  silence,   \* half keep-alive periods since keepalive_tick, at most two
  outbox,    \* messages in the outbox
  pending,   \* their state: "queued", "transmitted" or "acknowledged"
  place,     \* their order in the outbox
  link,      \* "closed", "open", "broken" (reset) or "silent" (peer lost)
  up, down,  \* packets on their way to the broker and to the client
  faults,    \* faults so far
  held,      \* the broker's level-2 messages that await their PUBREL
  inbound,   \* how far the broker is with the messages it publishes
  got,       \* history: how often the broker acted on a message (0, 1, many)
  seen,      \* history: messages handed to the application (DATA)
  use,       \* the scenario of this execution
  issued,    \* history: messages the application has tried to send
  accepted,  \* history: those whose call succeeded
  told,      \* history: those reported as PUBLISHED or (UN)SUBSCRIBED
  gone       \* history: those expired, or deleted when the client stopped

clientVars == <<state, run, task, stopped, bits, caller, calls, waitPing,
                silence>>
boxVars == <<outbox, pending, place>>
netVars == <<link, up, down, faults>>
brokerVars == <<held, inbound, got>>
pastVars == <<seen, use, issued, accepted, told, gone>>
vars == <<clientVars, boxVars, netVars, brokerVars, pastVars>>

-----------------------------------------------------------------------------
(* The outbox *)

Items(p) == {m \in outbox : pending[m] = p}

\* outbox_dequeue: the first item in a given state
First(p, m) == m \in Items(p) /\ \A n \in Items(p) : place[m] <= place[n]

\* outbox_enqueue, with outbox_set_pending; every message enters once
Put(m, p) ==
  /\ outbox' = outbox \cup {m}
  /\ pending' = [pending EXCEPT ![m] = p]
  /\ place' = [place EXCEPT ![m] =
                 1 + Cardinality({n \in Outgoing : place[n] > 0})]

\* outbox_get: the item of a message, or NULL when it is gone
Get(m) == IF m \in outbox THEN m ELSE None

\* outbox_set_pending, which does nothing when the item is gone
Mark(m, p) ==
  /\ pending' = IF Get(m) # None THEN [pending EXCEPT ![m] = p] ELSE pending
  /\ UNCHANGED <<outbox, place>>

Drop(S) ==
  /\ outbox' = outbox \ S
  /\ UNCHANGED <<pending, place>>

\* outbox_delete: the item with an identifier and a type, if it is there
Delete(m, t) == Drop({n \in outbox : n = m /\ MsgType(n) = t})

\* outbox_delete_item: the very item
DeleteItem(m) == Drop({m})

\* outbox_delete_expired: those stored longest ago, as many as have expired
DeleteExpired ==
  \E n \in {0} \cup {place[m] : m \in outbox} :
    LET expired == {m \in outbox : place[m] <= n}
    IN  Drop(expired) /\ gone' = gone \cup expired

\* outbox_delete_all_items
DeleteAllItems == Drop(outbox) /\ gone' = gone \cup outbox

-----------------------------------------------------------------------------
(* The transport *)

\* esp_mqtt_write returns ESP_OK: the packet is on its way, or lost with a
\* connection that is already dead
WriteOk(p) ==
  /\ link # "closed"
  /\ up' = IF link = "open" THEN Append(up, p) ELSE up

WriteFails == link # "open" /\ UNCHANGED up

\* Mutant: a ping that was not answered is still waited for
AbortKeepsPing ==
  /\ link' = "closed"
  /\ down' = <<>>
  /\ state' = "wait"
  /\ UNCHANGED waitPing

\* esp_mqtt_abort_connection; what has been sent may still arrive
Abort ==
  /\ link' = "closed"
  /\ down' = <<>>
  /\ state' = "wait"
  /\ waitPing' = FALSE

Connection == <<link, down, state, waitPing>>

\* send_disconnect_msg, whose callers do not look at the result
SendDisconnect == WriteOk(Packet("DISCONNECT", None)) \/ WriteFails

\* esp_mqtt_client_ping succeeds
Ping == WriteOk(Packet("PINGREQ", None))

\* esp_mqtt_write of p by a caller that aborts the connection when it fails
WriteOrAbort(p) ==
  \/ WriteOk(p) /\ UNCHANGED Connection
  \/ WriteFails /\ Abort

\* The API lock is free
Unlocked ==
  task \in {"none", "starting", "entering", "clearing", "top", "polling", "ending"}

-----------------------------------------------------------------------------
(* esp_mqtt_task *)

\* The head of the task is three steps without the lock: run, the state, and
\* STOPPED_BIT of an earlier task
TaskStarts ==
  /\ task = "starting"
  /\ run' = TRUE
  /\ task' = "entering"
  /\ UNCHANGED <<state, stopped, bits, caller, calls, waitPing, silence, boxVars,
                 netVars, brokerVars, pastVars>>

TaskEnters ==
  /\ task = "entering"
  /\ state' = "init"
  /\ task' = "clearing"
  /\ UNCHANGED <<run, stopped, bits, caller, calls, waitPing, silence, boxVars,
                 netVars, brokerVars, pastVars>>

TaskClears ==
  /\ task = "clearing"
  /\ stopped' = FALSE
  /\ task' = "top"
  /\ UNCHANGED <<state, run, bits, caller, calls, waitPing, silence, boxVars,
                 netVars, brokerVars, pastVars>>

\* The top of the loop: the lock is taken, and expired messages are deleted
TakesLock ==
  /\ task = "top"
  /\ run
  /\ DeleteExpired

\* The end of an iteration: the lock is released and, if the state is still
\* "connected", the transport is polled
IterationEnds == task' = IF state = "connected" THEN "polling" ELSE "top"

\* MQTT_STATE_INIT clears the status bits and connects; MQTT_STATE_CONNECTED
\* serves the connection
EnterState ==
  /\ TakesLock
  /\ \/ state = "init" /\ task' = "connecting" /\ bits' = {}
     \/ state = "connected" /\ task' = "receive" /\ UNCHANGED bits
  /\ UNCHANGED <<state, run, stopped, caller, calls, waitPing, silence,
                 netVars, brokerVars, seen, use, issued, accepted, told>>

\* MQTT_STATE_WAIT_RECONNECT: on request, or when the time has come
Reconnect ==
  /\ TakesLock
  /\ state = "wait"
  /\ ~use.auto => "reconnect" \in bits
  /\ bits' = IF use.auto THEN bits ELSE bits \ {"reconnect"}
  /\ state' = "init"
  /\ UNCHANGED <<run, task, stopped, caller, calls, waitPing, silence, netVars,
                 brokerVars, seen, use, issued, accepted, told>>

\* ... or the task waits a while without the lock
KeepWaiting ==
  /\ TakesLock
  /\ state = "wait"
  /\ UNCHANGED <<clientVars, netVars, brokerVars, seen, use, issued, accepted,
                 told>>

\* MQTT_STATE_INIT: there is no transport for the configured scheme
NoTransport ==
  /\ task = "connecting"
  /\ faults < MaxFaults
  /\ faults' = faults + 1
  /\ run' = FALSE
  /\ task' = "top"
  /\ UNCHANGED <<state, stopped, bits, caller, calls, waitPing, silence,
                 boxVars, link, up, down, brokerVars, pastVars>>

\* MQTT_STATE_INIT: esp_transport_connect or esp_mqtt_connect fails
ConnectFails ==
  /\ task = "connecting"
  /\ faults < MaxFaults
  /\ faults' = faults + 1
  /\ Abort
  /\ task' = "top"
  /\ UNCHANGED <<run, stopped, bits, caller, calls, silence, boxVars, up,
                 brokerVars, pastVars>>

\* The broker takes the session up again, or begins a new one (external)
Resumed(i) ==
  IF inbound[i] \in {"new", "done"} THEN inbound[i]
  ELSE IF CleanSession THEN "lost"
  ELSE IF inbound[i] = "sent" THEN "new" ELSE "received"

\* MQTT_STATE_INIT: connected
Connect ==
  /\ task = "connecting"
  /\ link' = "open"
  /\ up' = <<>>
  /\ down' = <<>>
  /\ held' = IF CleanSession THEN {} ELSE held
  /\ inbound' = [i \in Incoming |-> Resumed(i)]
  /\ state' = "connected"
  /\ waitPing' = FALSE
  /\ silence' = 0
  /\ task' = "polling"
  /\ UNCHANGED <<run, stopped, bits, caller, calls, boxVars, faults, got,
                 pastVars>>

\* MQTT_STATE_CONNECTED: a disconnection has been requested; the result of
\* send_disconnect_msg does not matter
ServeDisconnect ==
  /\ task = "receive"
  /\ "disconnect" \in bits
  /\ bits' = bits \ {"disconnect"}
  /\ SendDisconnect
  /\ Abort
  /\ task' = "top"
  /\ UNCHANGED <<run, stopped, caller, calls, silence, boxVars, faults,
                 brokerVars, pastVars>>

\* mqtt_process_receive: nothing has arrived
ReceiveNothing ==
  /\ task = "receive"
  /\ "disconnect" \notin bits
  /\ down = <<>>
  /\ link # "broken"
  /\ task' = "resend"
  /\ UNCHANGED <<state, run, stopped, bits, caller, calls, waitPing, silence,
                 boxVars, netVars, brokerVars, pastVars>>

\* mqtt_process_receive: the read fails
ReceiveFails ==
  /\ task = "receive"
  /\ "disconnect" \notin bits
  /\ link = "broken"
  /\ Abort
  /\ task' = "top"
  /\ UNCHANGED <<run, stopped, bits, caller, calls, silence, boxVars, up,
                 faults, brokerVars, pastVars>>

\* mqtt_process_receive: a packet p of type t is taken from the transport
Receives(t, p) ==
  /\ task = "receive"
  /\ "disconnect" \notin bits
  /\ link \in {"open", "silent"}
  /\ down # <<>>
  /\ p = Head(down)
  /\ p.type = t

\* ... and handled without an answer
Handled == task' = "resend" /\ down' = Tail(down)

\* Mutant: reported whether or not the message was in the outbox
FinishUnchecked(m, t) ==
  /\ Delete(m, t)
  /\ told' = told \cup {m}

\* remove_initiator_message with the event; a message that is no longer in
\* the outbox is not reported
Finish(m, t) ==
  /\ Delete(m, t)
  /\ told' = told \cup {n \in outbox : n = m /\ MsgType(n) = t}

FinalRest ==
  /\ Handled
  /\ UNCHANGED <<state, run, stopped, bits, caller, calls, waitPing, silence,
                 link, up, faults, brokerVars, seen, use, issued,
                 accepted, gone>>

\* SUBACK, with deliver_suback
ReceiveSuback ==
  /\ \E m \in Outgoing : Receives("SUBACK", Packet("SUBACK", m))
                             /\ Finish(m, "SUBSCRIBE")
  /\ FinalRest

\* UNSUBACK
ReceiveUnsuback ==
  /\ \E m \in Outgoing : Receives("UNSUBACK", Packet("UNSUBACK", m))
                             /\ Finish(m, "UNSUBSCRIBE")
  /\ FinalRest

\* PUBACK, whatever the level of the message
ReceivePuback ==
  /\ \E m \in Outgoing : Receives("PUBACK", Packet("PUBACK", m))
                             /\ Finish(m, "PUBLISH")
  /\ FinalRest

\* PUBCOMP, whatever the state of the message
ReceivePubcomp ==
  /\ \E m \in Outgoing : Receives("PUBCOMP", Packet("PUBCOMP", m))
                             /\ Finish(m, "PUBLISH")
  /\ FinalRest

\* Mutant: PUBREC ends the exchange
PubrecFinishes ==
  /\ \E m \in Outgoing :
       /\ Receives("PUBREC", Packet("PUBREC", m))
       /\ Finish(m, "PUBLISH")
       /\ WriteOk(Packet("PUBREL", m)) \/ WriteFails
  /\ Handled
  /\ UNCHANGED <<state, run, stopped, bits, caller, calls, waitPing, silence,
                 link, faults, brokerVars, seen, use, issued, accepted, gone>>

\* Mutant: PUBREC leaves the message as it was
PubrecUnmarked ==
  /\ \E m \in Outgoing :
       /\ Receives("PUBREC", Packet("PUBREC", m))
       /\ WriteOk(Packet("PUBREL", m)) \/ WriteFails
  /\ Handled
  /\ UNCHANGED <<state, run, stopped, bits, caller, calls, waitPing, silence,
                 boxVars, link, faults, brokerVars, pastVars>>

\* PUBREC: the message is marked, and a PUBREL written whatever became of
\* either
ReceivePubrec ==
  /\ \E m \in Outgoing :
       /\ Receives("PUBREC", Packet("PUBREC", m))
       /\ Mark(m, "acknowledged")
       /\ WriteOk(Packet("PUBREL", m)) \/ WriteFails
  /\ Handled
  /\ UNCHANGED <<state, run, stopped, bits, caller, calls, waitPing, silence,
                 link, faults, brokerVars, pastVars>>

\* PUBLISH: deliver_publish, then PUBACK or PUBREC; a level-2 message is
\* delivered each time it comes
ReceivePublish ==
  /\ \E i \in Incoming :
       /\ Receives("PUBLISH", Packet("PUBLISH", i))
       /\ seen' = seen \cup {i}
       /\ \/ /\ WriteOk(Packet(IF i \in In1 THEN "PUBACK" ELSE "PUBREC", i))
             /\ Handled
             /\ UNCHANGED <<link, state, waitPing>>
          \/ /\ WriteFails
             /\ Abort
             /\ task' = "top"
  /\ UNCHANGED <<run, stopped, bits, caller, calls, silence, boxVars,
                 faults, brokerVars, use, issued, accepted, told, gone>>

\* PUBREL
ReceivePubrel ==
  /\ \E i \in Incoming :
       /\ Receives("PUBREL", Packet("PUBREL", i))
       /\ WriteOk(Packet("PUBCOMP", i)) \/ WriteFails
  /\ Handled
  /\ UNCHANGED <<state, run, stopped, bits, caller, calls, waitPing, silence,
                 boxVars, link, faults, brokerVars, pastVars>>

\* PINGRESP
ReceivePingresp ==
  /\ Receives("PINGRESP", Packet("PINGRESP", None))
  /\ Handled
  /\ waitPing' = FALSE
  /\ silence' = 0
  /\ UNCHANGED <<state, run, stopped, bits, caller, calls, boxVars,
                 link, up, faults, brokerVars, pastVars>>

\* Mutant: whatever has been sent is deleted
SendAndDrop ==
  /\ task = "resend"
  /\ \E m \in outbox :
       /\ First("queued", m)
       /\ WriteOrAbort(Packet(MsgType(m), m))
       /\ IF state' = "wait" THEN UNCHANGED boxVars ELSE DeleteItem(m)
  /\ task' = "keepalive"
  /\ UNCHANGED <<run, stopped, bits, caller, calls, silence, faults, brokerVars,
                 pastVars>>

\* Messages that have not been transmitted go first, one per iteration
\* (mqtt_resend_queued).  One of level 0 is deleted.
SendQueued ==
  /\ task = "resend"
  /\ \E m \in outbox :
       /\ First("queued", m)
       /\ WriteOrAbort(Packet(MsgType(m), m))
       /\ IF state' = "wait" THEN UNCHANGED boxVars
          ELSE IF m \in Qos0 THEN DeleteItem(m) ELSE Mark(m, "transmitted")
  /\ task' = "keepalive"
  /\ UNCHANGED <<run, stopped, bits, caller, calls, silence, faults,
                 brokerVars, pastVars>>

\* The retransmission timeout has not passed
NothingToResend ==
  /\ task = "resend"
  /\ Items("queued") = {}
  /\ task' = "keepalive"
  /\ UNCHANGED <<state, run, stopped, bits, caller, calls, waitPing, silence,
                 boxVars, netVars, brokerVars, pastVars>>

\* Mutant: no PUBREL is sent again
RetransmitPublish ==
  /\ task = "resend"
  /\ Items("queued") = {}
  /\ Len(up) + Len(down) <= use.backlog
  /\ \E m \in outbox : First("transmitted", m)
                         /\ WriteOrAbort(Packet(MsgType(m), m))
  /\ task' = "keepalive"
  /\ UNCHANGED <<run, stopped, bits, caller, calls, silence, boxVars, faults,
                 brokerVars, pastVars>>

\* It has: the first transmitted message is sent again
Retransmit ==
  /\ task = "resend"
  /\ Items("queued") = {}
  /\ Len(up) + Len(down) <= use.backlog
  /\ outbox # {}
  /\ IF Items("transmitted") = {}
     THEN UNCHANGED <<link, up, down, state, waitPing>>
     ELSE \E m \in outbox : First("transmitted", m)
                              /\ WriteOrAbort(Packet(MsgType(m), m))
  /\ task' = IF Items("acknowledged") = {} THEN "keepalive" ELSE "pubrel"
  /\ UNCHANGED <<run, stopped, bits, caller, calls, silence, boxVars,
                 faults, brokerVars, pastVars>>

\* ... and the PUBREL of the first acknowledged one (mqtt_resend_pubrel),
\* even if the connection has just been aborted
ResendPubrel ==
  /\ task = "pubrel"
  /\ \E m \in outbox : First("acknowledged", m)
                         /\ WriteOrAbort(Packet("PUBREL", m))
  /\ task' = "keepalive"
  /\ UNCHANGED <<run, stopped, bits, caller, calls, silence, boxVars,
                 faults, brokerVars, pastVars>>

\* Mutant: another ping, and the period begins again
PingAgain ==
  /\ task = "keepalive"
  /\ \/ /\ silence = 0
        /\ UNCHANGED <<Connection, up, silence>>
     \/ /\ silence > 0
        /\ Ping
        /\ waitPing' = TRUE
        /\ silence' = 0
        /\ UNCHANGED <<link, down, state>>
  /\ IF use.refresh THEN task' = "refresh" ELSE IterationEnds
  /\ UNCHANGED <<run, stopped, bits, caller, calls, boxVars, faults, brokerVars,
                 pastVars>>

\* process_keepalive: nothing to do, or a ping is sent
KeepAlive ==
  /\ task = "keepalive"
  /\ \/ /\ IF waitPing THEN silence < 2 ELSE silence = 0
        /\ UNCHANGED <<Connection, up>>
     \/ /\ ~waitPing /\ silence > 0
        /\ Ping
        /\ waitPing' = TRUE
        /\ UNCHANGED <<link, down, state>>
  /\ IF use.refresh THEN task' = "refresh" ELSE IterationEnds
  /\ UNCHANGED <<run, stopped, bits, caller, calls, silence, boxVars, faults,
                 brokerVars, pastVars>>

\* process_keepalive: the ping was not answered, or cannot be sent
KeepAliveFails ==
  /\ task = "keepalive"
  /\ \/ waitPing /\ silence = 2 /\ UNCHANGED up
     \/ ~waitPing /\ silence > 0 /\ WriteFails
  /\ Abort
  /\ task' = "top"
  /\ UNCHANGED <<run, stopped, bits, caller, calls, silence, boxVars, faults,
                 brokerVars, pastVars>>

\* refresh_connection_after_ms has passed, or not
Refresh ==
  /\ task = "refresh"
  /\ \/ IterationEnds /\ UNCHANGED <<state, waitPing, netVars>>
     \/ /\ faults < MaxFaults
        /\ faults' = faults + 1
        /\ link' = "closed"
        /\ down' = <<>>
        /\ state' = "init"
        /\ waitPing' = FALSE
        /\ task' = "top"
        /\ UNCHANGED up
  /\ UNCHANGED <<run, stopped, bits, caller, calls, silence, boxVars, brokerVars,
                 pastVars>>

\* esp_transport_poll_read, which may fail on a broken connection
PollEnds ==
  /\ task = "polling"
  /\ \/ UNCHANGED Connection
     \/ link \in {"broken", "closed"} /\ Abort
  /\ task' = "top"
  /\ UNCHANGED <<run, stopped, bits, caller, calls, silence, boxVars, up,
                 faults, brokerVars, pastVars>>

\* Mutant: STOPPED_BIT before the outbox is emptied
StoppedEarly ==
  /\ task = "top"
  /\ ~run
  /\ link' = "closed"
  /\ down' = <<>>
  /\ DeleteAllItems
  /\ task' = "ending"
  /\ stopped' = TRUE
  /\ UNCHANGED <<state, run, bits, caller, calls, waitPing, silence, up, faults,
                 brokerVars, seen, use, issued, accepted, told>>

\* The loop has ended: the outbox is emptied without the lock
LoopEnds ==
  /\ task = "top"
  /\ ~run
  /\ link' = "closed"
  /\ down' = <<>>
  /\ DeleteAllItems
  /\ task' = "ending"
  /\ UNCHANGED <<state, run, stopped, bits, caller, calls, waitPing, silence,
                 up, faults, brokerVars, seen, use, issued, accepted,
                 told>>

\* Mutant: nobody is told
EndUnreported ==
  /\ task = "ending"
  /\ state' = "disconnected"
  /\ task' = "none"
  /\ UNCHANGED <<run, stopped, bits, caller, calls, waitPing, silence, boxVars,
                 netVars, brokerVars, pastVars>>

TaskEnds ==
  /\ task = "ending"
  /\ state' = "disconnected"
  /\ stopped' = TRUE
  /\ task' = "none"
  /\ UNCHANGED <<run, bits, caller, calls, waitPing, silence, boxVars,
                 netVars, brokerVars, pastVars>>

-----------------------------------------------------------------------------
(* Calls of the application, made by one of its tasks *)

Calling(c) ==
  /\ caller = "idle"
  /\ c \in use.calls
  /\ calls < use.most
  /\ calls' = calls + 1

\* A message of the workload that has not been handed over
Fresh(m) == caller = "idle" /\ m \in use.work \ issued

\* esp_mqtt_client_start, called when there is no task
Start ==
  /\ Calling("start")
  /\ task = "none"
  /\ state \in {"init", "disconnected"}
  /\ task' = "starting"
  /\ UNCHANGED <<state, run, stopped, bits, caller, waitPing, silence,
                 boxVars, netVars, brokerVars, pastVars>>

\* esp_mqtt_client_disconnect
Disconnect ==
  /\ Calling("disconnect")
  /\ bits' = bits \cup {"disconnect"}
  /\ UNCHANGED <<state, run, task, stopped, caller, waitPing, silence,
                 boxVars, netVars, brokerVars, pastVars>>

\* esp_mqtt_client_reconnect reads the state without the lock
ReconnectCheck ==
  /\ Calling("reconnect")
  /\ state = "wait"
  /\ caller' = "reconnecting"
  /\ UNCHANGED <<state, run, task, stopped, bits, waitPing, silence,
                 boxVars, netVars, brokerVars, pastVars>>

\* ... and sets the bit
ReconnectSet ==
  /\ caller = "reconnecting"
  /\ bits' = bits \cup {"reconnect"}
  /\ caller' = "idle"
  /\ UNCHANGED <<state, run, task, stopped, calls, waitPing, silence,
                 boxVars, netVars, brokerVars, pastVars>>

\* esp_mqtt_client_stop, up to its wait; not started, it does nothing
Stop ==
  /\ Calling("stop")
  /\ Unlocked
  /\ run
  /\ \/ /\ state = "connected"
        /\ SendDisconnect
     \/ state # "connected" /\ UNCHANGED up
  /\ run' = FALSE
  /\ state' = "disconnected"
  /\ caller' = "stopping"
  /\ UNCHANGED <<task, stopped, bits, waitPing, silence, boxVars, link,
                 down, faults, brokerVars, pastVars>>

\* It returns when STOPPED_BIT is set
StopReturns ==
  /\ caller = "stopping"
  /\ stopped
  /\ caller' = "idle"
  /\ UNCHANGED <<state, run, task, stopped, bits, calls, waitPing, silence,
                 boxVars, netVars, brokerVars, pastVars>>

\* esp_mqtt_client_publish: no message of level 0 unless connected; one of
\* level 1 or 2 is stored first, and stays when writing it fails
Publish(m) ==
  /\ Fresh(m)
  /\ m \in Publishes
  /\ Unlocked
  /\ issued' = issued \cup {m}
  /\ IF state # "connected"
     THEN /\ IF m \in Qos0 THEN UNCHANGED <<boxVars, accepted>>
             ELSE Put(m, "queued") /\ accepted' = accepted \cup {m}
          /\ UNCHANGED <<up, Connection>>
     ELSE \/ /\ WriteOk(Packet("PUBLISH", m))
             /\ UNCHANGED Connection
             /\ IF m \in Qos0 THEN UNCHANGED boxVars ELSE Put(m, "transmitted")
             /\ accepted' = accepted \cup {m}
          \/ /\ WriteFails
             /\ Abort
             /\ IF m \in Qos0 THEN UNCHANGED boxVars ELSE Put(m, "queued")
             /\ UNCHANGED accepted
  /\ UNCHANGED <<run, task, stopped, bits, caller, calls, silence, faults,
                 brokerVars, seen, use, told, gone>>

\* esp_mqtt_client_enqueue, with store for messages of level 0
Enqueue(m) ==
  /\ Fresh(m)
  /\ m \in Publishes
  /\ Unlocked
  /\ Put(m, "queued")
  /\ issued' = issued \cup {m}
  /\ accepted' = accepted \cup {m}
  /\ UNCHANGED <<clientVars, netVars, brokerVars, seen, use, told, gone>>

RequestRest ==
  UNCHANGED <<state, run, task, stopped, bits, calls, waitPing, silence,
              link, down, faults, brokerVars, seen, use, told, gone>>

\* esp_mqtt_client_subscribe_multiple and esp_mqtt_client_unsubscribe read
\* the state without the lock
Checked(m) ==
  /\ Fresh(m)
  /\ state = "connected"
  /\ caller' = m
  /\ UNCHANGED <<boxVars, up, issued, accepted>>
  /\ RequestRest

SubscribeCheck(m) == m \in Subs /\ Checked(m)

UnsubscribeCheck(m) == m \in Unsubs /\ Checked(m)

\* ... then take it, store the request and write it; it stays in the outbox
\* when that fails
SendRequest ==
  /\ Unlocked
  /\ Put(caller, "transmitted")
  /\ \/ WriteOk(Packet(MsgType(caller), caller))
        /\ accepted' = accepted \cup {caller}
     \/ WriteFails /\ UNCHANGED accepted
  /\ issued' = issued \cup {caller}
  /\ caller' = "idle"
  /\ RequestRest

Subscribe == caller \in Subs /\ SendRequest

Unsubscribe == caller \in Unsubs /\ SendRequest

RequestSend == Subscribe \/ Unsubscribe

-----------------------------------------------------------------------------
(* The broker and the network (external) *)

Often(n) == IF n = 0 THEN 1 ELSE 2

\* What the broker sends for a packet it has read, if it still can
Reply(t, m) == down' = IF link = "open" THEN Append(down, Packet(t, m)) ELSE down

BrokerTakes(t, p) ==
  /\ up # <<>>
  /\ p = Head(up)
  /\ p.type = t
  /\ up' = Tail(up)

\* A message of level 2 is held until its PUBREL, the others are forwarded
BrokerReadsPublish ==
  /\ \E m \in Publishes :
       /\ BrokerTakes("PUBLISH", Packet("PUBLISH", m))
       /\ IF m \in Qos2
          THEN held' = held \cup {m} /\ UNCHANGED got /\ Reply("PUBREC", m)
          ELSE /\ got' = [got EXCEPT ![m] = Often(@)]
               /\ UNCHANGED held
               /\ IF m \in Qos1 THEN Reply("PUBACK", m) ELSE UNCHANGED down
  /\ UNCHANGED <<clientVars, boxVars, link, faults, inbound, pastVars>>

BrokerReadsPubrel ==
  /\ \E m \in Outgoing :
       /\ BrokerTakes("PUBREL", Packet("PUBREL", m))
       /\ held' = held \ {m}
       /\ got' = IF m \in held THEN [got EXCEPT ![m] = Often(@)] ELSE got
       /\ Reply("PUBCOMP", m)
  /\ UNCHANGED <<clientVars, boxVars, link, faults, inbound, pastVars>>

BrokerReadsRequest ==
  /\ \E m \in Requests :
       /\ BrokerTakes(MsgType(m), Packet(MsgType(m), m))
       /\ got' = [got EXCEPT ![m] = Often(@)]
       /\ Reply(IF m \in Subs THEN "SUBACK" ELSE "UNSUBACK", m)
  /\ UNCHANGED <<clientVars, boxVars, link, faults, held, inbound, pastVars>>

\* PINGREQ, or a DISCONNECT that needs no answer
BrokerReadsOther ==
  /\ \/ /\ BrokerTakes("PINGREQ", Packet("PINGREQ", None))
        /\ Reply("PINGRESP", None)
     \/ /\ BrokerTakes("DISCONNECT", Packet("DISCONNECT", None))
        /\ UNCHANGED down
  /\ UNCHANGED <<clientVars, boxVars, link, faults, brokerVars, pastVars>>

\* PUBACK, PUBREC or PUBCOMP for a message of its own
BrokerReadsAnswer ==
  /\ \E i \in Incoming, t \in {"PUBACK", "PUBREC", "PUBCOMP"} :
       /\ BrokerTakes(t, Packet(t, i))
       /\ inbound' = [inbound EXCEPT ![i] =
                        IF t # "PUBREC" THEN "done"
                        ELSE IF @ = "sent" THEN "received" ELSE @]
  /\ UNCHANGED <<clientVars, boxVars, link, down, faults, held, got, pastVars>>

\* It publishes a message to the client, or releases one the client has
BrokerPublishes ==
  /\ link = "open"
  /\ \E i \in Incoming \cap use.work :
       \/ /\ inbound[i] = "new"
          /\ inbound' = [inbound EXCEPT ![i] = "sent"]
          /\ down' = Append(down, Packet("PUBLISH", i))
       \/ /\ inbound[i] = "received"
          /\ inbound' = [inbound EXCEPT ![i] = "released"]
          /\ down' = Append(down, Packet("PUBREL", i))
  /\ UNCHANGED <<clientVars, boxVars, link, up, faults, held, got, pastVars>>

\* The connection is reset, or the peer is lost without a sign
LinkFails ==
  /\ link = "open"
  /\ faults < MaxFaults
  /\ faults' = faults + 1
  /\ link' \in {"broken", "silent"}
  /\ down' = IF link' = "broken" THEN <<>> ELSE down
  /\ UNCHANGED <<clientVars, boxVars, up, brokerVars, pastVars>>

\* Half a keep-alive period passes, which is long for a live connection:
\* packets arrive and pings are answered in less
Tick ==
  /\ state = "connected"
  /\ link = "open" => silence = 0 /\ up = <<>> /\ down = <<>>
  /\ silence = 0 \/ (silence = 1 /\ waitPing)
  /\ silence' = silence + 1
  /\ UNCHANGED <<state, run, task, stopped, bits, caller, calls, waitPing,
                 boxVars, netVars, brokerVars, pastVars>>

-----------------------------------------------------------------------------

Init ==
  /\ state = "init"
  /\ run = FALSE
  /\ task = "none"
  /\ stopped = FALSE
  /\ bits = {}
  /\ caller = "idle"
  /\ calls = 0
  /\ waitPing = FALSE
  /\ silence = 0
  /\ outbox = {}
  /\ pending = [m \in Outgoing |-> "queued"]
  /\ place = [m \in Outgoing |-> 0]
  /\ link = "closed"
  /\ up = <<>>
  /\ down = <<>>
  /\ faults = 0
  /\ held = {}
  /\ inbound = [i \in Incoming |-> "new"]
  /\ got = [m \in Outgoing |-> 0]
  /\ seen = {}
  /\ use \in Scenarios
  /\ issued = {}
  /\ accepted = {}
  /\ told = {}
  /\ gone = {}

Receive ==
  \/ ReceiveNothing \/ ReceiveFails
  \/ ReceiveSuback \/ ReceiveUnsuback
  \/ ReceivePublish \/ ReceivePuback \/ ReceivePubrec
  \/ ReceivePubrel \/ ReceivePubcomp
  \/ ReceivePingresp

Resend == SendQueued \/ NothingToResend \/ Retransmit \/ ResendPubrel

Loop ==
  \/ TaskStarts \/ TaskEnters \/ TaskClears
  \/ EnterState
  \/ NoTransport \/ ConnectFails \/ Connect
  \/ ServeDisconnect
  \/ Receive
  \/ Resend
  \/ KeepAlive \/ KeepAliveFails \/ Refresh
  \/ PollEnds
  \/ Reconnect \/ KeepWaiting
  \/ LoopEnds \/ TaskEnds

Application ==
  \/ Start \/ Stop \/ StopReturns
  \/ Disconnect
  \/ ReconnectCheck \/ ReconnectSet
  \/ \E m \in Outgoing : Publish(m) \/ Enqueue(m)
  \/ \E m \in Outgoing : SubscribeCheck(m) \/ UnsubscribeCheck(m)
  \/ RequestSend

Broker ==
  \/ BrokerReadsPublish \/ BrokerReadsPubrel \/ BrokerReadsRequest
  \/ BrokerReadsOther \/ BrokerReadsAnswer
  \/ BrokerPublishes

Next == Loop \/ Application \/ Broker \/ LinkFails \/ Tick

Spec == Init /\ [][Next]_vars

\* The task runs whenever it can, the retransmission timeout passes again and
\* again, a broker that can be reached reads, calls return
Fairness ==
  /\ WF_vars(Loop)
  /\ SF_vars(Retransmit)
  /\ SF_vars(Reconnect)
  /\ WF_vars(Broker)
  /\ WF_vars(Tick)
  /\ WF_vars(StopReturns)
  /\ WF_vars(ReconnectSet)
  /\ SF_vars(RequestSend)

FairSpec == Spec /\ Fairness

-----------------------------------------------------------------------------
(* Properties *)

Packets ==
  [type : {"PUBLISH", "PUBACK", "PUBREC", "PUBREL", "PUBCOMP", "SUBSCRIBE",
           "SUBACK", "UNSUBSCRIBE", "UNSUBACK", "PINGREQ", "PINGRESP",
           "DISCONNECT"},
   about : Msgs \cup {None}]

\* Every variable has its type; no ping is awaited while the task waits to
\* reconnect, and what is received comes from a connection.
TypeOK ==
  /\ state \in {"init", "disconnected", "connected", "wait"}
  /\ run \in BOOLEAN
  /\ task \in {"none", "starting", "entering", "clearing", "top", "connecting",
               "receive", "resend", "pubrel", "keepalive", "refresh", "polling",
               "ending"}
  /\ stopped \in BOOLEAN
  /\ bits \subseteq {"disconnect", "reconnect"}
  /\ caller \in {"idle", "reconnecting", "stopping"} \cup Requests
  /\ calls \in Nat
  /\ waitPing \in BOOLEAN
  /\ silence \in 0 .. 2
  /\ outbox \subseteq Outgoing
  /\ pending \in [Outgoing -> {"queued", "transmitted", "acknowledged"}]
  /\ place \in [Outgoing -> Nat]
  /\ link \in {"closed", "open", "broken", "silent"}
  /\ up \in Seq(Packets)
  /\ down \in Seq(Packets)
  /\ faults \in Nat
  /\ held \subseteq Qos2
  /\ inbound \in [Incoming -> {"new", "sent", "received", "released", "done",
                               "lost"}]
  /\ got \in [Outgoing -> 0 .. 2]
  /\ seen \subseteq Incoming
  /\ use \in Scenarios
  /\ issued \subseteq Outgoing
  /\ accepted \subseteq issued
  /\ told \subseteq issued
  /\ gone \subseteq issued
  /\ waitPing => state # "wait"
  /\ down # <<>> => link \in {"open", "silent"}

\* What is reported as published or subscribed has reached the broker, and
\* what the broker considers delivered has reached the application, however
\* connections were lost in between (for sessions the broker keeps).
AnsweredIsDelivered ==
  /\ \A m \in told : got[m] > 0
  /\ \A i \in Incoming : inbound[i] = "done" => i \in seen

\* A level-2 message never reaches the subscribers twice, whatever is
\* retransmitted, early or after a new connection.
ExactlyOnce == \A m \in Qos2 : got[m] < 2

\* A message whose call succeeded stays in the outbox until the application
\* is told or the message is given up.
NothingForgotten == accepted \ Qos0 \subseteq outbox \cup told \cup gone

\* STOPPED_BIT of an earlier task is still set at the head of the next
StaleBit == task \in {"entering", "clearing"}

\* When STOPPED_BIT lets esp_mqtt_client_stop return, the task has ended, so
\* the client may be destroyed, whether it was stopped in its loop, while it
\* ended by itself or before its loop; but for a stop that falls into the head
\* of the task, where the bit that an earlier task has set lets it return at
\* once.
StoppedIsEnded == caller = "stopping" /\ stopped => task = "none" \/ StaleBit

\* While the client runs and reconnects by itself, everything in its outbox
\* is acknowledged or given up in the end.
OutboxDrains ==
  \A m \in Outgoing :
    (m \in outbox /\ run /\ use.auto) ~> (m \notin outbox \/ ~run)

\* A peer that is lost without a sign is noticed by the keep-alive.
DeadPeerNoticed == (link = "silent") ~> (link # "silent")

\* A call of stop returns.
StopEnds == (caller = "stopping") ~> (caller = "idle")

\* The client implements the delivery it promises.
Fate(m) ==
  IF m \in told THEN "published"
  ELSE IF m \in gone THEN "gone"
  ELSE IF m \in issued THEN "taken" ELSE "new"

Delivery == INSTANCE MqttDelivery
              WITH Exact <- Qos2,
                   Repeated <- Qos1 \cup Requests,
                   fate <- [m \in Outgoing \ Qos0 |-> Fate(m)],
                   forwarded <- [m \in Outgoing \ Qos0 |-> got[m]]

ImplementsDelivery == Delivery!Spec

=============================================================================
