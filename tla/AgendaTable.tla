----------------------------- MODULE AgendaTable -----------------------------
(***************************************************************************)
(* What the agenda promises a client: a table that survives power cuts, in *)
(* which a request takes effect as a whole or not at all, and which holds  *)
(* the effect by the time the request is answered with 200.                *)
(***************************************************************************)
EXTENDS AgendaData

VARIABLES
  table,     \* what the agenda will be after a reboot
  pending,   \* the request being served, or None
  answer     \* status of the last answered request, "none" while serving

tableVars == <<table, pending, answer>>

Effect(r) == [table EXCEPT ![r.reg] = Contents(r)]

Init ==
  /\ table = [i \in Registers |-> Empty]
  /\ pending = None
  /\ answer = "none"

Receive(r) ==
  /\ pending = None
  /\ Valid(r)
  /\ pending' = r
  /\ answer' = "none"
  /\ UNCHANGED table

Reject(r) ==
  /\ pending = None
  /\ ~Valid(r)
  /\ answer' = "400"
  /\ UNCHANGED <<table, pending>>

TakeEffect ==
  /\ pending # None
  /\ table' = Effect(pending)
  /\ UNCHANGED <<pending, answer>>

Confirm ==
  /\ pending # None
  /\ table = Effect(pending)
  /\ pending' = None
  /\ answer' = "200"
  /\ UNCHANGED table

\* A change that could not be stored is answered with 400 and has no effect
GiveUp ==
  /\ pending # None
  /\ pending' = None
  /\ answer' = "400"
  /\ UNCHANGED table

PowerLoss ==
  /\ table' \in {table} \cup (IF pending = None THEN {} ELSE {Effect(pending)})
  /\ pending' = None
  /\ answer' = "none"

Next ==
  \/ \E r \in Requests : Receive(r) \/ Reject(r)
  \/ TakeEffect
  \/ Confirm
  \/ GiveUp
  \/ PowerLoss

Spec == Init /\ [][Next]_tableVars

=============================================================================
