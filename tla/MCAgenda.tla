------------------------------- MODULE MCAgenda -------------------------------
(* Small instances of Agenda.                                               *)
EXTENDS AgendaReply

CONSTANTS malformed, absent, empty, none

Change(r, h, m, p, d) ==
  [kind |-> "change", reg |-> r, hour |-> h, minutes |-> m, pct |-> p,
   days |-> d]
Erase(r) == [kind |-> "erase", reg |-> r]

ChangeFaults == {"change"}
EraseFaults == {"erase"}
NoFaults == {}

\* Three registers, one of them changed in two ways; positions that are cut
\* (200), wrap (300 is 44) or are missing; all that the handlers refuse
StoreRequests ==
  { Change(1, 0, 1, 300, {0, 6}), Change(2, 0, 0, 200, {}),
    Change(3, 0, 1, 50, 0 .. 6),
    Change(2, 0, 1, absent, {6}),
    Erase(1), Erase(2), Erase(3),
    Change(4, 0, 0, 50, {0}), Erase(0), Change(1, 1, 0, 50, {0}),
    Change(1, 0, 2, 50, {0}), Change(1, 0, 0, 50, malformed) }

\* All ten registers, each for half past six on the five working days
FullRequests ==
  { Change(i, 18, 30, 50, 0 .. 4) : i \in 1 .. 10 }
=============================================================================
