------------------------------- MODULE MqttWire -------------------------------
(***************************************************************************)
(* Packets of the MQTT client as bytes on a connection: the writer keeps   *)
(* one outbound_message for all its packets, and the reader takes what has *)
(* arrived, so that a packet may come in any number of pieces.  Writer and *)
(* reader are two clients that run the same code; the broker between them  *)
(* passes packets on.                                                      *)
(***************************************************************************)
EXTENDS MqttMessage, SequencesExt

CONSTANTS
  Plan,        \* the calls a writer may make: pairs of a call and a message
  MaxCalls,    \* how many it makes
  MaxFaults    \* how often the connection is lost or stalls

Publications ==
  [type : {"PUBLISH"}, qos : 0 .. 2, topic : Seq(Byte), data : Seq(Byte),
   id : 0 .. 4 * Base * Base - 1]

Others ==
  [type : {"WITH_ID", "BARE", "AUTH"}, qos : {0}, topic : {<<>>}, data : Seq(Byte),
   id : 0 .. 4 * Base * Base - 1]

\* A topic is not empty, a message of level 0 has no identifier, what a packet
\* has no room for is empty, and no packet and no topic is longer than MQTT allows
ASSUME PlanAssumption ==
  /\ Plan \subseteq ({"publish", "enqueue", "discard"} \X Publications)
                   \cup ({"write"} \X Others)
  /\ \A p \in Plan :
       /\ p[2].type = "PUBLISH" => p[2].topic # <<>>
       /\ p[2].type = "PUBLISH" /\ p[2].qos = 0 => p[2].id = 0
       /\ Len(p[2].topic) < 4 * Base * Base
       /\ p[2].type = "BARE" => p[2].id = 0 /\ p[2].data = <<>>
       /\ Len(Body(p[2])) <= MaxLength
  /\ MaxCalls \in Nat /\ MaxFaults \in Nat

VARIABLES
  total,     \* outbound_message.fragmented_msg_total_length
  offset,    \* outbound_message.fragmented_msg_data_offset
  outbox,    \* packets to be written, with their messages
  online,    \* there is a connection
  wire,      \* bytes on their way
  sent,      \* history: messages written to this connection
  buf,       \* the bytes of in_buffer that have been read
  at,        \* the read the reader is in; "idle" between two iterations
  before,    \* previous_in_buffer_read_len
  event,     \* the message being delivered
  rest,      \* how many of its bytes are still to be read
  got,       \* history: messages delivered from this connection
  cut,       \* history: one of them has been cut short
  calls,     \* calls made
  faults     \* failures so far

writerVars == <<total, offset, outbox>>
readerVars == <<buf, at, before, event, rest>>
linkVars == <<online, wire, sent, got, cut, faults>>
vars == <<writerVars, readerVars, linkVars, calls>>

-----------------------------------------------------------------------------
(* The writer *)

Calling(c, m) ==
  /\ <<c, m>> \in Plan
  /\ calls < MaxCalls
  /\ calls' = calls + 1

\* n bytes of memory, from the i-th byte of d on; what lies outside d is
\* unspecified
Memory(d, i, n) ==
  [j \in 1 .. n |-> IF i + j - 1 \in DOMAIN d THEN d[i + j - 1] ELSE 2 * Base - 1]

\* The loop of esp_mqtt_client_publish: the buffer, then what remains
Written(m, p) ==
  LET dataSent == Len(p.bytes) - p.offset
  IN  p.bytes \o Memory(m.data, dataSent + 1, Len(m.data) - dataSent)

\* mqtt_enqueue: the outbox keeps the whole packet
Kept(m, p) ==
  [message |-> m,
   bytes |-> IF p.total = 0 THEN p.bytes
             ELSE p.bytes \o SubSeq(m.data, Len(p.bytes) - p.offset + 1,
                                    Len(m.data))]

\* The packet is put into the buffer, if its variable header fits
Made(m, p) ==
  /\ HeaderSize + Len(VariableHeader(m)) <= OutBuffer
  /\ p = PublishMessage(m, offset)

\* Mutant: the offset stays after the loop
PublishOnlineStale(m) ==
  /\ Calling("publish", m)
  /\ online
  /\ \E p \in {PublishMessage(m, offset)} :
       /\ Made(m, p)
       /\ wire' = wire \o Written(m, p)
       /\ offset' = p.offset
  /\ total' = 0
  /\ sent' = Append(sent, m)
  /\ UNCHANGED <<outbox, online, got, cut, faults, readerVars>>

\* esp_mqtt_client_publish on a connection
PublishOnline(m) ==
  /\ Calling("publish", m)
  /\ online
  /\ \E p \in {PublishMessage(m, offset)} :
       Made(m, p) /\ wire' = wire \o Written(m, p)
  /\ total' = 0
  /\ offset' = 0
  /\ sent' = Append(sent, m)
  /\ UNCHANGED <<outbox, online, got, cut, faults, readerVars>>

\* ... and without: a message above level 0 waits in the outbox
PublishOffline(m) ==
  /\ Calling("publish", m)
  /\ ~online
  /\ \E p \in {PublishMessage(m, offset)} :
       /\ Made(m, p)
       /\ outbox' = IF m.qos > 0 THEN Append(outbox, Kept(m, p)) ELSE outbox
       /\ offset' = p.offset
  /\ total' = 0
  /\ UNCHANGED <<linkVars, readerVars>>

\* esp_mqtt_client_enqueue
Enqueue(m) ==
  /\ Calling("enqueue", m)
  /\ \E p \in {PublishMessage(m, offset)} :
       /\ Made(m, p)
       /\ outbox' = Append(outbox, Kept(m, p))
       /\ offset' = p.offset
  /\ total' = 0
  /\ UNCHANGED <<linkVars, readerVars>>

\* ... of a message of level 0 without store, which is not kept
Discard(m) ==
  /\ Calling("discard", m)
  /\ \E p \in {PublishMessage(m, offset)} :
       Made(m, p) /\ total' = p.total /\ offset' = p.offset
  /\ UNCHANGED <<outbox, linkVars, readerVars>>

\* Any other packet, by the task of the client
WriteOther(m) ==
  /\ Calling("write", m)
  /\ online
  /\ \E p \in {OtherMessage(m, total, offset)} :
       wire' = wire \o p.bytes /\ offset' = p.offset
  /\ sent' = Append(sent, m)
  /\ UNCHANGED <<total, outbox, online, got, cut, faults, readerVars>>

\* mqtt_resend_queued writes from the outbox
Resend ==
  /\ online
  /\ outbox # <<>>
  /\ wire' = wire \o Head(outbox).bytes
  /\ sent' = Append(sent, Head(outbox).message)
  /\ outbox' = Tail(outbox)
  /\ UNCHANGED <<total, offset, online, got, cut, faults, readerVars, calls>>

-----------------------------------------------------------------------------
(* The connection *)

\* esp_mqtt_connect writes a CONNECT with one byte of remaining length, and
\* the reader begins with an empty buffer
Connect ==
  /\ ~online
  /\ online' = TRUE
  /\ offset' = offset - (HeaderSize - 1 - 1)
  /\ buf' = <<>>
  /\ at' = "idle"
  /\ UNCHANGED <<total, outbox, wire, sent, got, cut, faults, before, event, rest,
                 calls>>

\* esp_mqtt_abort_connection of the reader, or the loss of the connection
Closes ==
  /\ online' = FALSE
  /\ at' = "closed"
  /\ wire' = <<>>
  /\ sent' = <<>>
  /\ got' = <<>>
  /\ cut' = FALSE

Lose ==
  /\ online
  /\ faults < MaxFaults
  /\ faults' = faults + 1
  /\ Closes
  /\ UNCHANGED <<writerVars, buf, before, event, rest, calls>>

-----------------------------------------------------------------------------
(* The reader: mqtt_message_receive *)

\* The last byte read has the high bit of a length that goes on
LengthGoesOn(b) == Len(b) < 6 /\ b[Len(b)] >= Base

\* mqtt_process_receive begins where the last call stopped
Begin ==
  /\ at = "idle"
  /\ before' = Len(buf)
  /\ at' = IF buf = <<>> THEN "first"
           ELSE IF Len(buf) = 1 \/ LengthGoesOn(buf) THEN "length"
           ELSE "header"
  /\ UNCHANGED <<writerVars, linkVars, buf, event, rest, calls>>

\* What esp_transport_read of at most n bytes may return
Bytes(n) == {SubSeq(wire, 1, k) : k \in (1 .. n) \cap (1 .. Len(wire))}

Reads(b) ==
  /\ wire' = SubSeq(wire, Len(b) + 1, Len(wire))
  /\ UNCHANGED <<writerVars, online, sent, cut, faults, calls>>

\* Nothing has arrived before the first byte
NoMessage ==
  /\ at = "first"
  /\ at' = "idle"
  /\ UNCHANGED <<writerVars, linkVars, buf, before, event, rest, calls>>

ReadFirst ==
  /\ at = "first"
  /\ \E b \in Bytes(1) :
       /\ Reads(b)
       /\ HasValidHeader(b[1])
       /\ buf' = b
  /\ at' = "length"
  /\ UNCHANGED <<got, before, event, rest>>

\* A first byte that no packet has: the connection is closed
ReadInvalid ==
  /\ at = "first"
  /\ wire # <<>>
  /\ ~HasValidHeader(wire[1])
  /\ Closes
  /\ UNCHANGED <<writerVars, faults, buf, before, event, rest, calls>>

ReadLength ==
  /\ at = "length"
  /\ \E b \in Bytes(1) :
       /\ Reads(b)
       /\ buf' = buf \o b
  /\ at' = IF LengthGoesOn(buf') THEN "length" ELSE "header"
  /\ UNCHANGED <<got, before, event, rest>>

\* The total length is known: read the rest, or first the topic's length of
\* a PUBLISH that does not fit
ReadHeader ==
  /\ at = "header"
  /\ at' = IF TotalLength(buf) <= InBuffer THEN "rest"
           ELSE IF Len(buf) < FixedLength(buf) + 2 THEN "topic" ELSE "large"
  /\ TotalLength(buf) > InBuffer => IsPublish(buf[1])
  /\ UNCHANGED <<writerVars, linkVars, buf, before, event, rest, calls>>

ReadTopicLength ==
  /\ at = "topic"
  /\ \E b \in Bytes(Len(buf) - FixedLength(buf) + 2) :
       /\ Reads(b)
       /\ buf' = buf \o b
  /\ at' = IF Len(buf') < FixedLength(buf') + 2 THEN "idle" ELSE "large"
  /\ UNCHANGED <<got, before, event, rest>>

\* Mutant: all of a packet is read into the buffer
WantedAll == TotalLength(buf)

\* The part that is read first is a buffer full
Wanted == IF TotalLength(buf) <= InBuffer THEN TotalLength(buf)
          ELSE InBuffer

\* What is counted of the headers of a PUBLISH that does not fit: all but the
\* two bytes of the topic's length
HeaderCounted(b) ==
  FixedLength(b) + WordAt(b, FixedLength(b) + 1) + IF Qos(b[1]) > 0 THEN 2 ELSE 0

\* A packet, or what is counted of its headers, that does not fit: the
\* connection is closed
TooBig ==
  /\ \/ at = "header" /\ TotalLength(buf) > InBuffer /\ ~IsPublish(buf[1])
     \/ at = "large" /\ HeaderCounted(buf) > InBuffer
  /\ Closes
  /\ UNCHANGED <<writerVars, faults, buf, before, event, rest, calls>>

\* The packet goes to mqtt_process_receive and deliver_publish, and the
\* buffer is free
Delivers(b) ==
  /\ ~Malformed(b)
  /\ event' = Decoded(b)
  /\ rest' = TotalLength(b) - Len(b)
  /\ buf' = <<>>
  /\ IF rest' > 0 THEN at' = "payload" /\ UNCHANGED got
     ELSE at' = "idle" /\ got' = Append(got, event')

\* The rest of the packet, or a part of it
ReadRest ==
  /\ \/ at = "rest"
     \/ at = "large" /\ HeaderCounted(buf) <= InBuffer
  /\ IF Len(buf) >= Wanted
     THEN /\ Delivers(buf)
          /\ UNCHANGED <<writerVars, online, wire, sent, cut, faults, calls>>
     ELSE \E b \in Bytes(Wanted - Len(buf)) :
            /\ Reads(b)
            /\ IF Len(buf \o b) < Wanted
               THEN buf' = buf \o b /\ at' = "idle"
                    /\ UNCHANGED <<got, event, rest>>
               ELSE Delivers(buf \o b)
  /\ UNCHANGED before

\* deliver_publish fails, for the topic is not all there: the connection is
\* closed
ReadMalformed ==
  /\ \/ at = "rest"
     \/ at = "large" /\ HeaderCounted(buf) <= InBuffer
  /\ \E b \in {buf} \cup {buf \o c : c \in Bytes(Wanted - Len(buf))} :
       Len(b) >= Wanted /\ Malformed(b)
  /\ Closes
  /\ UNCHANGED <<writerVars, faults, buf, before, event, rest, calls>>

\* deliver_publish goes on with as many buffers as it takes
ReadPayload ==
  /\ at = "payload"
  /\ \E n \in {IF rest < InBuffer THEN rest ELSE InBuffer} :
       \E b \in Bytes(n) :
         /\ Reads(b)
         /\ event' = [event EXCEPT !.data = @ \o b]
         /\ rest' = rest - Len(b)
  /\ IF rest' > 0 THEN UNCHANGED <<at, got>>
     ELSE at' = "idle" /\ got' = Append(got, event')
  /\ UNCHANGED <<buf, before>>

\* Nothing more has arrived of a packet that has begun: the next iteration
\* goes on, unless this one has read nothing
TimesOut ==
  /\ at \in {"length", "topic", "rest", "large"}
  /\ at \in {"rest", "large"} => Len(buf) < Wanted
  /\ Len(buf) > before
  /\ at' = "idle"
  /\ UNCHANGED <<writerVars, linkVars, buf, before, event, rest, calls>>

\* ... and then the connection is closed
Stalls ==
  /\ at \in {"length", "topic", "rest", "large"}
  /\ at \in {"rest", "large"} => Len(buf) < Wanted
  /\ Len(buf) = before
  /\ faults < MaxFaults
  /\ faults' = faults + 1
  /\ Closes
  /\ UNCHANGED <<writerVars, buf, before, event, rest, calls>>

\* deliver_publish takes a stall for the end of the message
PayloadStalls ==
  /\ at = "payload"
  /\ faults < MaxFaults
  /\ faults' = faults + 1
  /\ at' = "idle"
  /\ got' = Append(got, event)
  /\ cut' = TRUE
  /\ UNCHANGED <<writerVars, online, wire, sent, buf, before, event, rest, calls>>

-----------------------------------------------------------------------------

Init ==
  /\ total = 0
  /\ offset = 0
  /\ outbox = <<>>
  /\ online = FALSE
  /\ wire = <<>>
  /\ sent = <<>>
  /\ buf = <<>>
  /\ at = "closed"
  /\ before = 0
  /\ event = [type |-> "WITH_ID", qos |-> 0, topic |-> <<>>, data |-> <<>>, id |-> 0]
  /\ rest = 0
  /\ got = <<>>
  /\ cut = FALSE
  /\ calls = 0
  /\ faults = 0

Messages == {p[2] : p \in Plan}

Writer ==
  \/ \E m \in Messages :
       \/ PublishOnline(m) \/ PublishOffline(m)
       \/ Enqueue(m) \/ Discard(m) \/ WriteOther(m)
  \/ Resend

Reader ==
  \/ Begin
  \/ NoMessage \/ ReadFirst \/ ReadInvalid
  \/ ReadLength
  \/ ReadHeader \/ ReadTopicLength \/ TooBig
  \/ ReadRest \/ ReadMalformed \/ ReadPayload
  \/ TimesOut \/ Stalls \/ PayloadStalls

Next == Writer \/ Connect \/ Lose \/ Reader

Spec == Init /\ [][Next]_vars

-----------------------------------------------------------------------------
(* Plans that avoid what the code gets wrong *)

\* The whole packet fits in the buffer
Fits(m) == HeaderSize + Len(Body(m)) <= OutBuffer

\* What a fragmented message leaves in fragmented_msg_data_offset
LeftOffset(m) ==
  HeaderSize + Len(VariableHeader(m)) - (HeaderSize - 1 - LengthBytes(Len(Body(m))))

\* No message is fragmented and then discarded, and what is left in
\* fragmented_msg_data_offset does not exceed the header of a message that is
\* published next.  A CONNECT comes between two messages that are published
\* without a connection and with one.
OffsetsHarmless ==
  /\ \A p \in Plan : p[1] = "discard" => Fits(p[2])
  /\ \A p, q \in Plan :
       /\ p[1] \in {"publish", "enqueue"} /\ ~Fits(p[2])
       /\ q[1] = "publish" /\ Fits(q[2])
       => LeftOffset(p[2]) - (IF p[1] = "publish" THEN HeaderSize - 1 - 1 ELSE 0)
            <= HeaderSize + Len(VariableHeader(q[2]))

\* A packet of at most five bytes does not end in two with a high bit, which a
\* reader that goes on takes for those of a length.
LengthsPlain ==
  \A m \in Messages : \E n \in {Len(Packet(m))} :
    n <= HeaderSize => Packet(m)[n - 1] < Base \/ Packet(m)[n] < Base

\* A packet with an identifier has one byte of length, or is not read at all.
IdentifiersFound ==
  \A m \in Messages :
    m.type = "WITH_ID" => LengthBytes(Len(Body(m))) = 1 \/ Len(Packet(m)) > InBuffer

\* Not more than three bytes in a row have their high bits set.
Readable(s) == \A i \in 1 .. Len(s) - 3 : \E j \in i .. i + 3 : s[j] < Base

PacketsReadable == \A m, n \in Messages : Readable(Packet(m) \o Packet(n))

-----------------------------------------------------------------------------
(* Properties *)

\* Every variable has its type, and the reader never writes past its buffer.
TypeOK ==
  /\ total \in Nat
  /\ offset \in Int
  /\ \A i \in 1 .. Len(outbox) : outbox[i].message \in Messages
  /\ online \in BOOLEAN /\ cut \in BOOLEAN
  /\ wire \in Seq(Byte)
  /\ sent \in Seq(Messages)
  /\ buf \in Seq(Byte) /\ Len(buf) <= InBuffer
  /\ at \in {"closed", "idle", "first", "length", "header", "topic", "rest",
             "large", "payload"}
  /\ before \in 0 .. InBuffer
  /\ rest \in Int
  /\ calls \in 0 .. MaxCalls
  /\ faults \in 0 .. MaxFaults

\* What has been read of a packet and what is on its way are the packets
\* written and not delivered: none is written with a wrong length, none
\* loses a byte to another, however reads cut the stream, as long as no stall
\* has cut a message short.
InStep ==
  at \notin {"payload", "closed"} /\ ~cut =>
    buf \o wire = FlattenSeq([i \in 1 .. Len(sent) - Len(got) |->
                                Packet(sent[Len(got) + i])])

\* The identifier of a PUBLISH does not fit in the buffer with what precedes it.
Overlong(m) ==
  /\ m.type = "PUBLISH" /\ m.qos > 0
  /\ 1 + LengthBytes(Len(Body(m))) + Len(VariableHeader(m)) > InBuffer

\* What is made of a message: of one whose identifier does not fit, if it is
\* not refused, the identifier is lost and what the buffer has no room for is
\* taken for the data.
Received(m) ==
  IF Overlong(m)
  THEN [m EXCEPT !.id = 0, !.data = SubSeq(Packet(m), InBuffer + 1, Len(Packet(m)))]
  ELSE m

\* Messages are delivered as they were published: in order, whole, with
\* their level, topic and identifier, the fragmented ones too, but for those whose
\* identifier does not fit, which mqtt_message_receive takes for ones that do.
ReceivedAsSent == cut \/ IsPrefix(got, [i \in DOMAIN sent |-> Received(sent[i])])

=============================================================================
