------------------------------ MODULE AgendaData ------------------------------
(***************************************************************************)
(* What main/register.c stores and what a request may ask of it:           *)
(* timer_register_t, and the bodies of POST /regchange.json and            *)
(* POST /regerase.json as their handlers in main/http_server.c hand them   *)
(* on.                                                                     *)
(***************************************************************************)
EXTENDS FanLaw

CONSTANTS
  NumRegisters,   \* MAX_REGISTERS, 10
  DayHours,       \* 24; small instances use shorter days and hours
  HourMinutes,    \* 60
  Requests,       \* the requests clients send
  Malformed,      \* selectedDays is not an array of seven flags
  Absent,         \* curtain_percent is missing or not a number
  Empty,          \* an inactive register, or a key that is not in NVS
  None            \* no request in progress

Registers == 1 .. NumRegisters
Hours == 0 .. DayHours - 1
Minutes == 0 .. HourMinutes - 1
Days == 0 .. 6    \* 0 is Monday, 6 is Sunday

\* An active timer_register_t
Entry == [hour : Hours, minutes : Minutes, days : SUBSET Days, pct : Percent]

Tables == [Registers -> Entry \cup {Empty}]

ASSUME SizesAssumption ==
  NumRegisters \in Nat /\ DayHours \in Nat \ {0} /\ HourMinutes \in Nat \ {0}

ASSUME SentinelsAssumption ==
  /\ Empty \notin Entry
  /\ Absent \notin Int
  /\ None \notin Requests

ASSUME RequestsAssumption ==
  \A r \in Requests :
    /\ r.kind \in {"change", "erase"}
    /\ r.reg \in Int
    /\ r.kind = "change" =>
         /\ r.hour \in Int /\ r.minutes \in Int
         /\ r.pct \in Int \cup {Absent}
         /\ r.days = Malformed \/ r.days \subseteq Days

\* Requests the handlers do not answer with 400 before touching NVS
Valid(r) ==
  /\ r.reg \in Registers
  /\ r.kind = "change" =>
       r.days # Malformed /\ r.hour \in Hours /\ r.minutes \in Minutes

\* What a valid request makes of its register
Contents(r) ==
  IF r.kind = "erase"
  THEN Empty
  ELSE [hour |-> r.hour, minutes |-> r.minutes, days |-> r.days,
        pct |-> ClampPercent(IF r.pct = Absent THEN 100 ELSE U8(r.pct))]

=============================================================================
