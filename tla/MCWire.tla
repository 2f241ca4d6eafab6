-------------------------------- MODULE MCWire --------------------------------
(* A small instance of MqttWire: four values to a length byte, buffers of    *)
(* eleven and sixteen bytes, messages that fit and messages that do not.   *)
EXTENDS MqttWire

Message(qos, topic, data, id) ==
  [type |-> "PUBLISH", qos |-> qos, topic |-> topic, data |-> data, id |-> id]
WithId(type, id, data) ==
  [type |-> type, qos |-> 0, topic |-> <<>>, data |-> data, id |-> id]

Small == Message(1, <<2>>, <<7>>, 3)
Tiny == Message(0, <<1>>, <<6>>, 0)
Large == Message(1, <<2, 3, 1>>, <<0, 5, 1, 7, 1, 3, 7, 2, 2, 6, 0, 1>>, 9)
\* Topics of six and seven bytes: with the header of a message above level 0
\* they make 13 and 14 bytes, of which the reader counts 11 and 12; without an
\* identifier 12, of which it counts 10
LongTopic == Message(1, <<1, 1, 2, 2, 3, 3>>, <<6>>, 5)
LongerTopic == Message(1, <<1, 1, 2, 2, 3, 3, 1>>, <<>>, 5)
PlainTopic == Message(0, <<1, 1, 2, 2, 3, 3, 1>>, <<6>>, 0)

\* Every call.  The topic of the large message is short, so that the offset it
\* may leave behind does not exceed the header of another
MCPlan ==
  { <<"publish", Small>>, <<"publish", Large>>, <<"publish", LongTopic>>,
    <<"publish", LongerTopic>>, <<"publish", PlainTopic>>,
    <<"enqueue", Small>>, <<"publish", Tiny>>, <<"discard", Tiny>>,
    <<"write", WithId("WITH_ID", 1, <<2>>)>>,
    <<"write", WithId("WITH_ID", 1, [i \in 1 .. 10 |-> 2])>>,
    <<"write", WithId("BARE", 0, <<>>)>>,
    <<"write", WithId("AUTH", 1, <<>>)>> }

\* The calls are such as the theorems are about
ASSUME MCPlanAssumption ==
  /\ OffsetsHarmless /\ LengthsPlain /\ IdentifiersFound /\ PacketsReadable
  /\ InBuffer >= HeaderSize + 4
=============================================================================
