------------------------------ MODULE MqttMessage ------------------------------
(***************************************************************************)
(* The packets of lib/mqtt_msg.c: how the client lays out a message in its *)
(* buffer of OutBuffer bytes, and what it reads back from such bytes.    *)
(*                                                                         *)
(* A byte is a number below 2 * Base, with Base = 128 in the code: a byte  *)
(* of the remaining length that has its high bit set is not the last one.  *)
(* The first byte of a packet is a number of its own for each type, level  *)
(* and legal combination of flags.                                         *)
(***************************************************************************)
EXTENDS Integers, Sequences, FiniteSets

CONSTANTS
  Base,           \* half the values of a byte
  OutBuffer,      \* buffer_length of the connection, for writing
  InBuffer        \* in_buffer_length

HeaderSize == 5   \* MQTT_MAX_FIXED_HEADER_SIZE

ASSUME MessageAssumption ==
  /\ Base \in Nat /\ Base >= 4
  /\ OutBuffer \in Nat /\ OutBuffer > HeaderSize
  /\ InBuffer \in Nat /\ InBuffer > HeaderSize

Byte == 0 .. 2 * Base - 1

\* The first byte: PUBLISH of the three levels, a packet that begins with an
\* identifier, one that is a header only, or one of a type the client does not
\* know
FirstByte(m) == CASE m.type = "PUBLISH" -> m.qos
                  [] m.type = "WITH_ID" -> 3
                  [] m.type = "BARE"    -> 4
                  [] OTHER              -> 5

IsPublish(b) == b <= 2                    \* mqtt_get_type
Qos(b) == b                               \* mqtt_get_qos
HasValidHeader(b) == b <= 4               \* mqtt_has_valid_msg_hdr

Word(n) == <<n \div (2 * Base), n % (2 * Base)>>
WordAt(b, i) == b[i] * 2 * Base + b[i + 1]

-----------------------------------------------------------------------------
(* Writing *)

\* What fini_message has left of a length before each byte of it
Left(n) == LET a == n \div Base
               b == a \div Base
           IN  <<n, a, b, b \div Base>>

\* The longest message of MQTT; fini_message fails for a longer one
MaxLength == Base * Base * Base * Base - 1

LengthBytes(n) ==
  CHOOSE k \in 1 .. 4 : Left(n)[k] < Base /\ \A j \in 1 .. k - 1 : Left(n)[j] >= Base

\* The remaining length, seven bits to a byte
RemainingLength(n) ==
  [i \in 1 .. LengthBytes(n) |->
     (Left(n)[i] % Base) + (IF i < LengthBytes(n) THEN Base ELSE 0)]

\* append_string and append_message_id of a PUBLISH
VariableHeader(m) ==
  Word(Len(m.topic)) \o m.topic \o IF m.qos > 0 THEN Word(m.id) ELSE <<>>

\* An outbound_message: its bytes, and what is known of a fragmented one
Outbound(bytes, total, offset) ==
  [bytes |-> bytes, total |-> total, offset |-> offset]

\* fini_message: the fixed header goes in front of the body
Finished(m, body, total, offset) ==
  LET n == IF total # 0 THEN total - HeaderSize ELSE Len(body)
  IN  Outbound(<<FirstByte(m)>> \o RemainingLength(n) \o body, total,
               offset - (HeaderSize - 1 - LengthBytes(n)))

\* mqtt_msg_publish: what does not fit in the buffer is left for later
PublishMessage(m, offset) ==
  LET used == HeaderSize + Len(VariableHeader(m))
      room == OutBuffer - used
  IN  IF Len(m.data) > room
      THEN Finished(m, VariableHeader(m) \o SubSeq(m.data, 1, room),
                    used + Len(m.data), used)
      ELSE Finished(m, VariableHeader(m) \o m.data, 0, offset)

\* mqtt_msg_puback, pubrec, pubrel and pubcomp; mqtt_msg_subscribe and
\* unsubscribe, whose topic filters are the data; mqtt_msg_pingreq
OtherBody(m) == IF m.type = "BARE" THEN <<>> ELSE Word(m.id) \o m.data

OtherMessage(m, total, offset) == Finished(m, OtherBody(m), total, offset)

\* A packet as MQTT defines it (external)
Body(m) == IF m.type = "PUBLISH" THEN VariableHeader(m) \o m.data ELSE OtherBody(m)

Packet(m) == <<FirstByte(m)>> \o RemainingLength(Len(Body(m))) \o Body(m)

-----------------------------------------------------------------------------
(* Reading; b is a packet or its beginning *)

\* The positions of the remaining length
LengthAt(b) == {i \in 2 .. Len(b) : \A j \in 2 .. i - 1 : b[j] >= Base}

FixedLength(b) == 1 + Cardinality(LengthAt(b))

\* mqtt_get_total_length
TotalLength(b) ==
  LET value[i \in 2 .. Len(b) + 1] ==
        IF i \notin LengthAt(b) THEN 0 ELSE (b[i] % Base) + Base * value[i + 1]
  IN  value[2] + FixedLength(b)

\* Mutant: the identifier of a level-1 message belongs to its data
VariableLengthShort(b) == 2 + WordAt(b, FixedLength(b) + 1)

\* The variable header of a PUBLISH
VariableLength(b) ==
  2 + WordAt(b, FixedLength(b) + 1) + IF Qos(b[1]) > 0 THEN 2 ELSE 0

\* ... which mqtt_get_publish_topic refuses when it is not all there
Malformed(b) ==
  /\ IsPublish(b[1])
  /\ ~(/\ FixedLength(b) + 2 < Len(b)
       /\ FixedLength(b) + 2 + WordAt(b, FixedLength(b) + 1) <= Len(b))

\* mqtt_get_publish_topic
PublishTopic(b) ==
  SubSeq(b, FixedLength(b) + 3,
         FixedLength(b) + 2 + WordAt(b, FixedLength(b) + 1))

\* mqtt_get_publish_data, which is cut at the end of the buffer
PublishData(b) == SubSeq(b, FixedLength(b) + VariableLength(b) + 1, Len(b))

\* mqtt_get_id, which knows a packet with one byte of remaining length only
MessageId(b) ==
  IF ~IsPublish(b[1]) THEN IF Len(b) < 4 \/ b[2] >= Base THEN 0 ELSE WordAt(b, 3)
  ELSE IF Qos(b[1]) = 0 \/ FixedLength(b) + VariableLength(b) > Len(b) THEN 0
  ELSE WordAt(b, FixedLength(b) + VariableLength(b) - 1)

\* What process_receive and deliver_publish make of a packet
Decoded(b) ==
  IF IsPublish(b[1])
  THEN [type |-> "PUBLISH", qos |-> Qos(b[1]), topic |-> PublishTopic(b),
        data |-> PublishData(b), id |-> MessageId(b)]
  ELSE [type |-> IF b[1] = 3 THEN "WITH_ID" ELSE "BARE", qos |-> 0,
        topic |-> <<>>, data |-> SubSeq(b, 5, Len(b)), id |-> MessageId(b)]

=============================================================================
