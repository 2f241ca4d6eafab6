----------------------------- MODULE MCAgendaClock -----------------------------
(* A small instance of AgendaClock: days of one hour, hours of two minutes.  *)
EXTENDS AgendaClock

CONSTANTS malformed, absent, empty, none

Change(r, h, m, p, d) ==
  [kind |-> "change", reg |-> r, hour |-> h, minutes |-> m, pct |-> p,
   days |-> d]
Erase(r) == [kind |-> "erase", reg |-> r]

\* Two entries that collide on Sundays, one of which also names Mondays
ClockRequests ==
  { Change(1, 0, 1, 30, {6}), Change(2, 0, 1, 200, {0, 6}), Erase(1) }

MCFaults == {"change", "erase", "commit", "read"}
MCHandPcts == {10}
=============================================================================
