----------------------------- MODULE MqttDelivery -----------------------------
(***************************************************************************)
(* What the MQTT client promises of the messages an application hands it   *)
(* (docs/en/index.rst, "MQTT Message Retransmission"): the broker forwards *)
(* a message of level 2 at most once, and one of level 1 or 2 at least     *)
(* once before its publication is reported.                                *)
(***************************************************************************)
EXTENDS Naturals

CONSTANTS
  Exact,      \* messages of level 2
  Repeated    \* the other messages with an answer: level 1, subscriptions

Kept == Exact \cup Repeated

VARIABLES
  fate,       \* of each message: "new", "taken", "published" or "gone"
  forwarded   \* how often the broker acted on it: never, once, or more

deliveryVars == <<fate, forwarded>>

Init ==
  /\ fate = [m \in Kept |-> "new"]
  /\ forwarded = [m \in Kept |-> 0]

\* The application hands a message over; a call that fails may do so too
Take(m) ==
  /\ fate[m] = "new"
  /\ fate' = [fate EXCEPT ![m] = "taken"]
  /\ UNCHANGED forwarded

\* The broker acts on it, possibly after the client has given up
Forward(m) ==
  /\ fate[m] # "new"
  /\ m \in Exact => forwarded[m] = 0
  /\ forwarded' = [forwarded EXCEPT ![m] = IF @ = 0 THEN 1 ELSE 2]
  /\ UNCHANGED fate

\* The application is told that the message has been published
Confirm(m) ==
  /\ fate[m] = "taken"
  /\ forwarded[m] > 0
  /\ fate' = [fate EXCEPT ![m] = "published"]
  /\ UNCHANGED forwarded

\* Messages expire, or the client is stopped
GiveUp(S) ==
  /\ \A m \in S : fate[m] = "taken"
  /\ fate' = [m \in Kept |-> IF m \in S THEN "gone" ELSE fate[m]]
  /\ UNCHANGED forwarded

Next ==
  \/ \E m \in Kept : Take(m) \/ Forward(m) \/ Confirm(m)
  \/ \E S \in SUBSET Kept : GiveUp(S)

Spec == Init /\ [][Next]_deliveryVars

=============================================================================
