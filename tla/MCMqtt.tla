-------------------------------- MODULE MCMqtt --------------------------------
(* A small instance of MqttClient.  Two messages and one failure, or one     *)
(* message with more calls or with early retransmissions.                    *)
EXTENDS MqttClient

CONSTANTS q0, q1, p2, s, u, i1, i2

Scenario(work, calls_, most, auto, refresh, backlog) ==
  [work |-> work, calls |-> calls_, most |-> most, auto |-> auto, refresh |-> refresh,
   backlog |-> backlog]

MCScenarios ==
  { Scenario({q1, p2}, {"start"}, 1, TRUE, FALSE, 0),
    Scenario({p2}, {"start", "stop"}, 2, TRUE, FALSE, 2),
    Scenario({q1}, {"start", "stop"}, 4, TRUE, FALSE, 1),
    Scenario({q0}, {"start", "disconnect"}, 2, TRUE, FALSE, 0),
    Scenario({s}, {"start", "disconnect", "reconnect"}, 2, FALSE, FALSE, 0),
    Scenario({u}, {"start", "reconnect"}, 2, TRUE, FALSE, 1),
    Scenario({i1, i2}, {"start"}, 2, TRUE, TRUE, 0) }
=============================================================================
