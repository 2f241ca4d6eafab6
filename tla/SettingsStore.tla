---------------------------- MODULE SettingsStore ----------------------------
(***************************************************************************)
(* What the control core promises about the settings of POST /api/control, *)
(* the position of the curtain excepted: a request takes effect in parts,  *)
(* but an answer of 200 means that all of it is in force and that every    *)
(* boot from then on comes up with it; until the next such answer a boot   *)
(* comes up with settings that have been in force since the last one.      *)
(***************************************************************************)
CONSTANTS
  Fields,    \* the names of the settings, the position excepted
  Settings,  \* those the board accepts, all limits kept
  Parts,     \* the sets of fields that take effect together
  Default,   \* the settings of a board whose flash holds none
  Requests,  \* the bodies of a request
  Absent,    \* what a body has for a key it does not name
  Forgets    \* whether the flash may turn out to be unreadable at a boot

VARIABLES
  inForce,   \* the settings the board acts on
  wanted,    \* those the pending request asks for, or those in force
  bootable,  \* those in force, and all a boot may come up with
  answer     \* "pending" from a request to its answer, "none" after a boot

storeVars == <<inForce, wanted, bootable, answer>>

Init ==
  /\ inForce = Default
  /\ wanted = Default
  /\ bootable = {Default}
  /\ answer = "none"

Named(r, f) == r[f] # Absent

\* The body to the letter
Literal(r) == [f \in Fields |-> IF Named(r, f) THEN r[f] ELSE inForce[f]]

\* A request within the limits gets what it says.  Beyond them it gets
\* something within, but what it does not name stays; only the threshold of
\* the alarm follows the set point.
Ask(r) ==
  /\ answer # "pending"
  /\ answer' = "pending"
  /\ wanted' \in Settings
  /\ Literal(r) \in Settings => wanted' = Literal(r)
  /\ \A f \in Fields :
       Named(r, f) \/ (f = "max" /\ Named(r, "desired")) \/ wanted'[f] = inForce[f]
  /\ UNCHANGED <<inForce, bootable>>

\* Part of the request takes effect; what was in force may be on its way to
\* flash, or may never get there.
Change(part) ==
  /\ answer = "pending"
  /\ inForce' = [f \in Fields |-> IF f \in part THEN wanted[f] ELSE inForce[f]]
  /\ bootable' \subseteq bootable \cup {inForce'}
  /\ inForce' \in bootable'
  /\ UNCHANGED <<wanted, answer>>

\* What is left of bootable when some older settings cannot return any more
Fewer == {b \in SUBSET bootable : inForce \in b}

\* Progress of a save, or its failure
Settle ==
  /\ UNCHANGED <<answer, inForce, wanted>>
  /\ bootable' \in Fewer

Confirm ==
  /\ answer = "pending"
  /\ answer' = "200"
  /\ inForce = wanted
  /\ bootable' = {inForce}
  /\ UNCHANGED <<inForce, wanted>>

\* After an answer of 500 part of the request may be in force and stay so.
GiveUp ==
  /\ answer = "pending"
  /\ answer' = "500"
  /\ wanted' = inForce
  /\ bootable' \in Fewer
  /\ UNCHANGED inForce

Boot ==
  /\ \E stored \in bootable :
       /\ inForce' = stored \/ (Forgets /\ inForce' = Default)
       /\ bootable' = {stored, inForce'}
  /\ wanted' = inForce'
  /\ answer' = "none"

Next ==
  \/ Settle
  \/ \E r \in Requests : Ask(r)
  \/ \E part \in Parts : Change(part)
  \/ Confirm
  \/ GiveUp
  \/ Boot

Spec == Init /\ [][Next]_storeVars

=============================================================================
