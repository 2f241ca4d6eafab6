----------------------------- MODULE AgendaProofs -----------------------------
(* Theorems about Agenda and AgendaClock, for every table size, every set of *)
(* requests and every clock.                                                 *)
EXTENDS AgendaClock, TLAPS

-----------------------------------------------------------------------------
(* Type correctness of the agenda *)

\* A percentage from the wire is in range after the cast and the clamp of
\* registers_update.
LEMMA WirePercent ==
  ASSUME NEW v \in Int PROVE ClampPercent(U8(v)) \in Percent
BY DEF ClampPercent, U8, Percent

\* A request that passed the checks turns its register into an entry or
\* empties it.
LEMMA ContentsType ==
  ASSUME NEW r \in Requests, Valid(r)
  PROVE  r.reg \in Registers /\ Contents(r) \in Entry \cup {Empty}
<1>1. CASE r.kind = "erase"
  BY <1>1 DEF Valid, Contents
<1>2. CASE r.kind = "change"
  <2>1. /\ r.reg \in Registers
        /\ r.hour \in Hours /\ r.minutes \in Minutes
        /\ r.days \in SUBSET Days
        /\ r.pct \in Int \cup {Absent}
    BY <1>2, RequestsAssumption DEF Valid
  <2>2. ClampPercent(100) \in Percent
    BY DEF ClampPercent, Percent
  <2>3. ClampPercent(IF r.pct = Absent THEN 100 ELSE U8(r.pct)) \in Percent
    <3>1. CASE r.pct = Absent
      BY <2>2, <3>1
    <3>2. CASE r.pct # Absent
      BY <2>1, <3>2, WirePercent
    <3> QED BY <3>1, <3>2
  <2> QED
    BY <1>2, <2>1, <2>3 DEF Contents, Entry
<1> QED
  BY <1>1, <1>2, RequestsAssumption

\* A table stays a table when a served request is written into it.
LEMMA TableUpdate ==
  ASSUME NEW t \in Tables, NEW r \in Requests, Valid(r)
  PROVE  [t EXCEPT ![r.reg] = Contents(r)] \in Tables
BY ContentsType DEF Tables

\* Whatever survives a power cut is a table, and so is what is read of it.
LEMMA TableMix ==
  ASSUME NEW t \in Tables, NEW u \in Tables, NEW S
  PROVE  /\ [i \in Registers |-> IF i \in S THEN t[i] ELSE u[i]] \in Tables
         /\ [i \in Registers |-> IF i \in S THEN Empty ELSE t[i]] \in Tables
BY DEF Tables

LEMMA AgendaTypeInit == Init => TypeOK
BY SentinelsAssumption DEF Init, TypeOK, Blank, Tables

LEMMA AgendaTypeNext == TypeOK /\ [Next]_agendaVars => TypeOK'
<1> SUFFICES ASSUME TypeOK, [Next]_agendaVars PROVE TypeOK'
  OBVIOUS
<1>1. ASSUME NEW r \in Requests, Accept(r) PROVE TypeOK'
  BY <1>1, SentinelsAssumption DEF Accept, TypeOK, Valid
<1>2. ASSUME NEW r \in Requests, Reject(r) PROVE TypeOK'
  BY <1>2 DEF Reject, Answer, TypeOK
<1>3. CASE Store
  <2>1. step = "store" /\ req \in Requests /\ Valid(req)
    BY <1>3 DEF Store, TypeOK
  <2>2. blob' \in Tables
    BY <1>3, <2>1, TableUpdate DEF Store, TypeOK
  <2> QED
    BY <1>3, <2>1, <2>2 DEF Store, TypeOK, Valid
<1>4. CASE StoreFails
  <2>1. step = "store" /\ req \in Requests /\ Valid(req)
    BY <1>4 DEF StoreFails, TypeOK
  <2> QED
    BY <1>4, <2>1 DEF StoreFails, Answer, TypeOK, Valid
<1>5. CASE Commit
  BY <1>5 DEF Commit, TypeOK, Valid
<1>6. CASE CommitFails
  BY <1>6 DEF CommitFails, Answer, TypeOK, Valid
<1>7. CASE Install
  <2>1. step = "install" /\ req \in Requests /\ Valid(req)
    BY <1>7 DEF Install, TypeOK
  <2>2. ram' \in Tables
    BY <1>7, <2>1, TableUpdate DEF Install, TypeOK
  <2> QED
    BY <1>7, <2>1, <2>2 DEF Install, Answer, TypeOK
<1>8. CASE PowerCut
  <2>1. PICK written, lost :
          /\ durable' = [i \in Registers |->
                           IF i \in written THEN blob[i] ELSE durable[i]]
          /\ blob' = durable'
          /\ ram' = [i \in Registers |->
                       IF i \in lost THEN Empty ELSE durable'[i]]
    BY <1>8 DEF PowerCut
  <2>2. durable' \in Tables
    BY <2>1, TableMix DEF TypeOK
  <2>3. ram' \in Tables
    BY <2>1, <2>2, TableMix
  <2> QED
    BY <1>8, <2>1, <2>2, <2>3 DEF PowerCut, Answer, TypeOK
<1>9. CASE UNCHANGED agendaVars
  BY <1>9 DEF agendaVars, TypeOK, Valid
<1> QED
  BY <1>1, <1>2, <1>3, <1>4, <1>5, <1>6, <1>7, <1>8, <1>9 DEF Next, CommitCall

\* RAM and flash hold entries of the right shape, and a handler past its
\* checks has a valid request, through every failure and power cut.
THEOREM AgendaTypeCorrect == Spec => []TypeOK
<1> QED
  BY AgendaTypeInit, AgendaTypeNext, PTL DEF Spec

-----------------------------------------------------------------------------
(* No active entry is lost *)

\* A change stores an entry, never an empty register.
LEMMA ChangeStoresEntry ==
  ASSUME NEW r \in Requests, Valid(r), r.kind = "change"
  PROVE  Contents(r) # Empty
<1>1. Contents(r) = [hour |-> r.hour, minutes |-> r.minutes, days |-> r.days,
        pct |-> ClampPercent(IF r.pct = Absent THEN 100 ELSE U8(r.pct))]
  BY DEF Contents
<1>2. Contents(r) \in Entry
  <2>1. CASE r.pct = Absent
    BY <1>1, <2>1, RequestsAssumption DEF Valid, Entry, ClampPercent, Percent
  <2>2. CASE r.pct # Absent
    BY <1>1, <2>2, RequestsAssumption, WirePercent DEF Valid, Entry
  <2> QED BY <2>1, <2>2
<1> QED
  BY <1>2, SentinelsAssumption

\* On its way to RAM an entry has passed through flash: the value a handler
\* is about to commit, or to install, is already there.
KeptInv ==
  /\ TypeOK
  /\ NoActiveEntryLost
  /\ step = "commit" /\ req.kind = "change" => blob[req.reg] # Empty
  /\ step = "install" /\ req.kind = "change" =>
       blob[req.reg] # Empty /\ durable[req.reg] # Empty

LEMMA KeptInit == Init => KeptInv
BY AgendaTypeInit DEF Init, KeptInv, NoActiveEntryLost, Blank

LEMMA KeptNext == KeptInv /\ [Next]_agendaVars => KeptInv'
<1> SUFFICES ASSUME KeptInv, [Next]_agendaVars PROVE KeptInv'
  OBVIOUS
<1>0. TypeOK /\ TypeOK'
  BY AgendaTypeNext DEF KeptInv
<1>t. /\ ram \in Tables /\ blob \in Tables /\ durable \in Tables
      /\ step # "idle" => req \in Requests /\ req # None /\ Valid(req)
                         /\ req.reg \in Registers
                         /\ req.kind \in {"change", "erase"}
  BY <1>0, RequestsAssumption DEF TypeOK, Valid
<1>1. ASSUME NEW r \in Requests, Accept(r) PROVE KeptInv'
  BY <1>0, <1>1 DEF Accept, KeptInv, NoActiveEntryLost, Erasing, TypeOK
<1>2. ASSUME NEW r \in Requests, Reject(r) PROVE KeptInv'
  BY <1>0, <1>2 DEF Reject, Answer, KeptInv, NoActiveEntryLost, Erasing, TypeOK
<1>3. CASE Store
  <2>1. step = "store" /\ step' = "commit" /\ req' = req
        /\ blob' = [blob EXCEPT ![req.reg] = Contents(req)]
        /\ ram' = ram /\ durable' = durable
    BY <1>3 DEF Store
  <2>2. req.kind = "change" => blob'[req.reg] # Empty
    BY <1>t, <2>1, ChangeStoresEntry DEF Tables
  <2>3. NoActiveEntryLost'
    <3> SUFFICES ASSUME NEW i \in Registers, ram'[i] # Empty, ~Erasing(i)'
                 PROVE  durable'[i] # Empty /\ blob'[i] # Empty
      BY DEF NoActiveEntryLost
    <3>1. durable[i] # Empty /\ blob[i] # Empty
      BY <2>1 DEF KeptInv, NoActiveEntryLost, Erasing
    <3>2. CASE i = req.reg
      BY <1>t, <2>1, <2>2, <3>1, <3>2 DEF Erasing
    <3>3. CASE i # req.reg
      BY <1>t, <2>1, <3>1, <3>3 DEF Tables
    <3> QED BY <3>2, <3>3
  <2> QED
    BY <1>0, <2>1, <2>2, <2>3 DEF KeptInv
<1>4. CASE StoreFails
  BY <1>0, <1>4 DEF StoreFails, Answer, KeptInv, NoActiveEntryLost, Erasing, TypeOK
<1>5. CASE Commit
  BY <1>0, <1>5 DEF Commit, KeptInv, NoActiveEntryLost, Erasing
<1>6. CASE CommitFails
  BY <1>0, <1>6 DEF CommitFails, Answer, KeptInv, NoActiveEntryLost, Erasing, TypeOK
<1>7. CASE Install
  <2>1. step = "install" /\ req' = None /\ step' = "idle"
        /\ ram' = [ram EXCEPT ![req.reg] = Contents(req)]
        /\ blob' = blob /\ durable' = durable
    BY <1>7 DEF Install, Answer
  <2>2. NoActiveEntryLost'
    <3> SUFFICES ASSUME NEW i \in Registers, ram'[i] # Empty
                 PROVE  durable'[i] # Empty /\ blob'[i] # Empty
      BY DEF NoActiveEntryLost
    <3>1. CASE i = req.reg
      <4>1. ram'[i] = Contents(req)
        BY <1>t, <2>1, <3>1 DEF Tables
      <4>2. req.kind = "change"
        BY <1>t, <2>1, <4>1 DEF Contents
      <4> QED
        BY <2>1, <3>1, <4>2 DEF KeptInv
    <3>2. CASE i # req.reg
      BY <1>t, <2>1, <3>2 DEF Tables, KeptInv, NoActiveEntryLost, Erasing
    <3> QED BY <3>1, <3>2
  <2> QED
    BY <1>0, <2>1, <2>2 DEF KeptInv
<1>8. CASE PowerCut
  <2>1. PICK written, lost :
          /\ durable' = [i \in Registers |->
                           IF i \in written THEN blob[i] ELSE durable[i]]
          /\ blob' = durable'
          /\ ram' = [i \in Registers |->
                       IF i \in lost THEN Empty ELSE durable'[i]]
    BY <1>8 DEF PowerCut
  <2>2. NoActiveEntryLost'
    BY <2>1 DEF NoActiveEntryLost
  <2>3. step' = "idle"
    BY <1>8 DEF PowerCut, Answer
  <2> QED
    BY <1>0, <2>2, <2>3 DEF KeptInv
<1>9. CASE UNCHANGED agendaVars
  BY <1>0, <1>9 DEF agendaVars, KeptInv, NoActiveEntryLost, Erasing
<1> QED
  BY <1>1, <1>2, <1>3, <1>4, <1>5, <1>6, <1>7, <1>8, <1>9 DEF Next, CommitCall

\* Whatever NVS call fails and wherever power is cut, an entry the board acts
\* on is in flash: registers_update writes flash before RAM.
THEOREM EntriesKept == Spec => []NoActiveEntryLost
<1>1. KeptInv => NoActiveEntryLost
  BY DEF KeptInv
<1> QED
  BY KeptInit, KeptNext, <1>1, PTL DEF Spec

-----------------------------------------------------------------------------
(* RAM and flash agree, and the agenda implements AgendaTable, when only     *)
(* registers_update can meet an error, and before anything is committed.     *)

\* Where the three copies of the table differ: only in the register being
\* served, and in the order flash, commit, RAM.
FlashInv ==
  /\ TypeOK
  /\ step \in {"idle", "store"} => ram = durable /\ durable = blob
  /\ step = "commit" =>
       ram = durable /\ blob = [durable EXCEPT ![req.reg] = Contents(req)]
  /\ step = "install" =>
       durable = blob /\ durable = [ram EXCEPT ![req.reg] = Contents(req)]

LEMMA FlashInit == Init => FlashInv
BY AgendaTypeInit DEF Init, FlashInv

\* The flash a board boots from, when only a change can be cut short.
LEMMA PowerCutMix ==
  ASSUME Faults \subseteq {"change"}, FlashInv, PowerCut
  PROVE  /\ ram' = durable' /\ blob' = durable'
         /\ durable' \in {durable, blob}
<1>1. PICK written, lost :
        /\ lost = {}
        /\ durable' = [i \in Registers |->
                         IF i \in written THEN blob[i] ELSE durable[i]]
        /\ blob' = durable'
        /\ ram' = [i \in Registers |->
                     IF i \in lost THEN Empty ELSE durable'[i]]
  BY DEF PowerCut
<1>2. ram' = durable'
  BY <1>1
<1>3. CASE step = "commit"
  <2>1. /\ durable \in Tables
        /\ req.reg \in Registers
        /\ blob = [durable EXCEPT ![req.reg] = Contents(req)]
    BY <1>3 DEF FlashInv, TypeOK, Valid
  <2>2. /\ DOMAIN durable = Registers /\ DOMAIN blob = Registers
        /\ \A i \in Registers : i # req.reg => blob[i] = durable[i]
        /\ durable = [i \in Registers |-> durable[i]]
        /\ blob = [i \in Registers |-> blob[i]]
    BY <2>1 DEF Tables
  <2>3. CASE req.reg \in written
    <3>1. \A i \in Registers :
            (IF i \in written THEN blob[i] ELSE durable[i]) = blob[i]
      BY <2>2, <2>3
    <3>2. durable' = blob
      BY <1>1, <2>2, <3>1
    <3> QED BY <1>1, <1>2, <3>2
  <2>4. CASE req.reg \notin written
    <3>1. \A i \in Registers :
            (IF i \in written THEN blob[i] ELSE durable[i]) = durable[i]
      BY <2>2, <2>4
    <3>2. durable' = durable
      BY <1>1, <2>2, <3>1
    <3> QED BY <1>1, <1>2, <3>2
  <2> QED BY <2>3, <2>4
<1>4. CASE step # "commit"
  <2>1. durable = blob /\ durable \in Tables
    BY <1>4 DEF FlashInv, TypeOK
  <2>2. durable' = durable
    BY <1>1, <2>1 DEF Tables
  <2> QED BY <1>1, <1>2, <2>2
<1> QED BY <1>3, <1>4

LEMMA FlashNext ==
  ASSUME Faults \subseteq {"change"}
  PROVE  FlashInv /\ [Next]_agendaVars => FlashInv'
<1> SUFFICES ASSUME FlashInv, [Next]_agendaVars PROVE FlashInv'
  OBVIOUS
<1>0. TypeOK /\ TypeOK'
  BY AgendaTypeNext DEF FlashInv
<1>1. ASSUME NEW r \in Requests, Accept(r) PROVE FlashInv'
  BY <1>0, <1>1 DEF Accept, FlashInv
<1>2. ASSUME NEW r \in Requests, Reject(r) PROVE FlashInv'
  BY <1>0, <1>2 DEF Reject, Answer, FlashInv
<1>3. CASE Store
  BY <1>0, <1>3 DEF Store, FlashInv
<1>4. CASE StoreFails
  BY <1>0, <1>4 DEF StoreFails, Answer, FlashInv
<1>5. CASE Commit
  BY <1>0, <1>5 DEF Commit, FlashInv
<1>6. CASE CommitFails
  BY <1>6 DEF CommitFails
<1>7. CASE Install
  BY <1>0, <1>7 DEF Install, Answer, FlashInv
<1>8. CASE PowerCut
  <2>1. step' = "idle"
    BY <1>8 DEF PowerCut, Answer
  <2> QED
    BY <1>0, <1>8, <2>1, PowerCutMix DEF FlashInv
<1>9. CASE UNCHANGED agendaVars
  BY <1>0, <1>9 DEF agendaVars, FlashInv
<1> QED
  BY <1>1, <1>2, <1>3, <1>4, <1>5, <1>6, <1>7, <1>8, <1>9 DEF Next, CommitCall

\* Between requests a reboot would change nothing.
THEOREM RamFlashAgree ==
  ASSUME Faults \subseteq {"change"}
  PROVE  Spec => []RamIsFlash
<1>1. FlashInv => RamIsFlash
  BY DEF FlashInv, RamIsFlash
<1> QED
  BY FlashInit, FlashNext, <1>1, PTL DEF Spec

\* Both modules read a request in the same way.
LEMMA SameRequests ==
  /\ Table!Registers = Registers
  /\ \A r : Table!Valid(r) <=> Valid(r)
  /\ \A r : Table!Contents(r) = Contents(r)
<1>1. Table!Registers = Registers
  BY DEF Table!Registers, Registers
<1>2. \A r : Table!Valid(r) <=> Valid(r)
  BY <1>1 DEF Table!Valid, Valid, Table!Hours, Hours, Table!Minutes, Minutes
<1>3. \A r : Table!Contents(r) = Contents(r)
  BY DEF Table!Contents, Contents, Table!ClampPercent, ClampPercent,
         Table!U8, U8
<1> QED BY <1>1, <1>2, <1>3

LEMMA TableInit == Init => Table!Init
BY SameRequests DEF Init, Table!Init, Blank

LEMMA TableStep ==
  ASSUME Faults \subseteq {"change"}
  PROVE  FlashInv /\ [Next]_agendaVars => [Table!Next]_(Table!tableVars)
<1> SUFFICES ASSUME FlashInv, [Next]_agendaVars
             PROVE  [Table!Next]_(Table!tableVars)
  OBVIOUS
<1> USE DEF Table!tableVars
<1>0. TypeOK
  BY DEF FlashInv
<1>1. ASSUME NEW r \in Requests, Accept(r) PROVE Table!Receive(r)
  BY <1>0, <1>1, SameRequests DEF Accept, Table!Receive, TypeOK
<1>2. ASSUME NEW r \in Requests, Reject(r) PROVE Table!Reject(r)
  BY <1>0, <1>2, SameRequests DEF Reject, Answer, Table!Reject, TypeOK
<1>3. CASE Store
  BY <1>3 DEF Store
<1>4. CASE StoreFails
  <2>1. req.kind = "change" /\ req # None /\ Answer("400")
        /\ durable' = durable
    BY <1>0, <1>4 DEF StoreFails, TypeOK
  <2> QED
    BY <2>1 DEF Answer, Table!Next, Table!GiveUp
<1>5. CASE Commit
  <2>1. req # None /\ durable' = [durable EXCEPT ![req.reg] = Contents(req)]
        /\ req' = req /\ reply' = reply
    BY <1>0, <1>5 DEF Commit, FlashInv, TypeOK
  <2> QED
    BY <2>1, SameRequests DEF Table!Next, Table!TakeEffect, Table!Effect
<1>6. CASE CommitFails
  BY <1>6 DEF CommitFails
<1>7. CASE Install
  <2>1. /\ req # None /\ req.reg \in Registers
        /\ ram \in Tables
        /\ durable = [ram EXCEPT ![req.reg] = Contents(req)]
    BY <1>0, <1>7 DEF Install, FlashInv, TypeOK, Valid
  <2>2. durable = [durable EXCEPT ![req.reg] = Contents(req)]
    BY <2>1 DEF Tables
  <2>3. req' = None /\ reply' = "200" /\ durable' = durable
    BY <1>7 DEF Install, Answer
  <2> QED
    BY <2>1, <2>2, <2>3, SameRequests DEF Table!Next, Table!Confirm, Table!Effect
<1>8. CASE PowerCut
  <2>1. durable' \in {durable, blob}
    BY <1>8, PowerCutMix
  <2>2. req' = None /\ reply' = "none"
    BY <1>8 DEF PowerCut, Answer
  <2>3. \/ durable' = durable
        \/ req # None /\ durable' = [durable EXCEPT ![req.reg] = Contents(req)]
    <3>1. step # "commit" => durable = blob
      BY <1>0 DEF FlashInv, TypeOK
    <3>2. step = "commit" =>
            req # None /\ blob = [durable EXCEPT ![req.reg] = Contents(req)]
      BY <1>0 DEF FlashInv, TypeOK
    <3> QED BY <2>1, <3>1, <3>2
  <2> QED
    BY <2>2, <2>3, SameRequests DEF Table!Next, Table!PowerLoss, Table!Effect
<1>9. CASE UNCHANGED agendaVars
  BY <1>9 DEF agendaVars
<1> QED
  BY <1>1, <1>2, <1>3, <1>4, <1>5, <1>6, <1>7, <1>8, <1>9
     DEF Next, CommitCall, Table!Next

\* The agenda is the table clients are promised: a request takes effect in
\* flash as a whole, by the time it is answered with 200, and a power cut
\* leaves it done or not done.
THEOREM AgendaImplementsTable ==
  ASSUME Faults \subseteq {"change"}
  PROVE  Spec => ImplementsTable
<1> QED
  BY TableInit, FlashInit, FlashNext, TableStep, PTL
     DEF Spec, ImplementsTable, Table!Spec

-----------------------------------------------------------------------------
(* The agenda against the clock *)

LEMMA ClockTypeInit == ClockInit => ClockTypeOK
<1>1. /\ 0 \in Days /\ 0 \in Hours /\ 0 \in Minutes /\ 0 \in Percent
      /\ 0 \in 0 .. MinuteTicks - 1 /\ 0 \in 0 .. CycleMax
  BY ClockAssumption, SizesAssumption DEF Days, Hours, Minutes, Percent
<1> QED
  BY <1>1, AgendaTypeInit DEF ClockInit, ClockTypeOK

\* Every step of the composition is a step of the agenda or leaves it alone.
LEMMA AgendaUnderClock == [ClockNext]_vars => [Next]_agendaVars
BY DEF ClockNext, AgendaStep, SetCurtain, TimeSync, Look, Tick, Reboot, Next,
       vars

LEMMA ClockTypeNext == ClockTypeOK /\ [ClockNext]_vars => ClockTypeOK'
<1> SUFFICES ASSUME ClockTypeOK, [ClockNext]_vars PROVE ClockTypeOK'
  OBVIOUS
<1>0. TypeOK'
  BY AgendaTypeNext, AgendaUnderClock DEF ClockTypeOK
<1>1. CASE AgendaStep
  BY <1>0, <1>1 DEF AgendaStep, timeVars, ClockTypeOK
<1>2. CASE SetCurtain
  BY <1>0, <1>2, ClockAssumption DEF SetCurtain, timeVars, ClockTypeOK
<1>3. CASE TimeSync
  BY <1>0, <1>3 DEF TimeSync, timeVars, ClockTypeOK
<1>4. CASE Look
  <2>1. elapsed' \in 0 .. CycleMax
    BY <1>4, ClockAssumption DEF Look
  <2>2. curtain' \in Percent
    BY <1>4 DEF Look, FirstMatch, Matches, ClockTypeOK, TypeOK, Tables, Entry
  <2> QED
    BY <1>0, <1>4, <2>1, <2>2 DEF Look, timeVars, ClockTypeOK
<1>5. CASE Tick
  <2>1. elapsed' \in 0 .. CycleMax
    BY <1>5, ClockAssumption DEF Tick, ClockTypeOK
  <2>2. CASE tick + 1 < MinuteTicks
    BY <1>0, <1>5, <2>1, <2>2, ClockAssumption DEF Tick, ClockTypeOK
  <2>3. CASE tick + 1 = MinuteTicks
    <3>1. tick' = 0 /\ 0 \in 0 .. MinuteTicks - 1 /\ calm' = TRUE
      BY <1>5, <2>3, ClockAssumption DEF Tick
    <3>2. minute' \in Minutes
      BY <1>5, <2>3, SizesAssumption, ClockAssumption
         DEF Tick, ClockTypeOK, Minutes
    <3>3. hour' \in Hours
      BY <1>5, <2>3, SizesAssumption, ClockAssumption
         DEF Tick, ClockTypeOK, Hours
    <3>4. wday' \in Days
      BY <1>5, <2>3, ClockAssumption DEF Tick, ClockTypeOK, Days
    <3> QED
      BY <1>0, <1>5, <2>1, <3>1, <3>2, <3>3, <3>4 DEF Tick, ClockTypeOK
  <2> QED BY <1>5, <2>2, <2>3 DEF Tick
<1>6. CASE Reboot
  <2>1. 0 \in 0 .. CycleMax
    BY ClockAssumption
  <2> QED
    BY <1>0, <1>6, <2>1 DEF Reboot, timeVars, ClockTypeOK
<1>7. CASE UNCHANGED vars
  BY <1>0, <1>7 DEF vars, timeVars, ClockTypeOK
<1> QED
  BY <1>1, <1>2, <1>3, <1>4, <1>5, <1>6, <1>7 DEF ClockNext

\* Clock, cycle and curtain stay in their ranges.
THEOREM ClockTypeCorrect == ClockSpec => []ClockTypeOK
<1> QED
  BY ClockTypeInit, ClockTypeNext, PTL DEF ClockSpec

\* Once control_task has looked inside the window of a calm minute, the
\* curtain stands where the first matching entry wants it, until something
\* else happens.  The last look was elapsed ticks ago.
LookedInv ==
  /\ ClockTypeOK
  /\ calm /\ synced /\ auto /\ elapsed <= tick /\ tick - elapsed < WindowTicks
       => \A i \in Registers : FirstMatch(i) => curtain = ram[i].pct

LEMMA LookedInit == ClockInit => LookedInv
BY ClockTypeInit DEF ClockInit, LookedInv

LEMMA OneFirstMatch ==
  ASSUME NEW i \in Registers, NEW j \in Registers, FirstMatch(i), FirstMatch(j)
  PROVE  i = j
BY SizesAssumption DEF FirstMatch, Registers

LEMMA LookedNext == LookedInv /\ [ClockNext]_vars => LookedInv'
<1> SUFFICES ASSUME LookedInv, [ClockNext]_vars PROVE LookedInv'
  OBVIOUS
<1>0. ClockTypeOK /\ ClockTypeOK'
  BY ClockTypeNext DEF LookedInv
<1>1. CASE AgendaStep
  <2>1. CASE ram' = ram
    BY <1>0, <1>1, <2>1
       DEF AgendaStep, timeVars, LookedInv, FirstMatch, Matches
  <2>2. CASE ram' # ram
    BY <1>0, <1>1, <2>2 DEF AgendaStep, LookedInv
  <2> QED BY <2>1, <2>2
<1>2. CASE SetCurtain
  BY <1>0, <1>2 DEF SetCurtain, LookedInv
<1>3. CASE TimeSync
  BY <1>0, <1>3 DEF TimeSync, LookedInv
<1>4. CASE Look
  <2>1. /\ elapsed' = 0 /\ tick' = tick /\ ram' = ram
        /\ wday' = wday /\ hour' = hour /\ minute' = minute
        /\ synced' = synced /\ auto' = auto /\ calm' = calm
    BY <1>4 DEF Look, timeVars, agendaVars
  <2>2. SUFFICES ASSUME synced, auto, tick < WindowTicks,
                        NEW i \in Registers, FirstMatch(i)
                 PROVE  curtain' = ram[i].pct
    BY <1>0, <2>1, ClockAssumption
       DEF LookedInv, FirstMatch, Matches, ClockTypeOK
  <2>3. \E j \in Registers : FirstMatch(j) /\ curtain' = ram[j].pct
    BY <1>4, <2>2 DEF Look, InWindow
  <2> QED
    BY <2>2, <2>3, OneFirstMatch
<1>5. CASE Tick
  <2>1. CASE tick + 1 < MinuteTicks
    BY <1>0, <1>5, <2>1
       DEF Tick, agendaVars, LookedInv, ClockTypeOK, FirstMatch, Matches
  <2>2. CASE tick + 1 = MinuteTicks
    BY <1>0, <1>5, <2>2, ClockAssumption DEF Tick, LookedInv, ClockTypeOK
  <2> QED BY <1>5, <2>1, <2>2 DEF Tick
<1>6. CASE Reboot
  BY <1>0, <1>6 DEF Reboot, LookedInv
<1>7. CASE UNCHANGED vars
  BY <1>0, <1>7
     DEF vars, timeVars, agendaVars, LookedInv, FirstMatch, Matches
<1> QED
  BY <1>1, <1>2, <1>3, <1>4, <1>5, <1>6, <1>7 DEF ClockNext

\* The index computed from tm_wday names today's day.
LEMMA TodayIsMondayBased ==
  ASSUME NEW d \in Days, wday \in Days
  PROVE  DAY_NAMES[d + 1] = Today <=> d = MondayBased(wday)
<1>1. wday = 0 \/ wday = 1 \/ wday = 2 \/ wday = 3 \/ wday = 4 \/ wday = 5
      \/ wday = 6
  BY DEF Days
<1>2. d = 0 \/ d = 1 \/ d = 2 \/ d = 3 \/ d = 4 \/ d = 5 \/ d = 6
  BY DEF Days
<1> QED
  BY <1>1, <1>2 DEF DAY_NAMES, Today, MondayBased

LEMMA DueIsMatch ==
  ASSUME ClockTypeOK, NEW i \in Registers
  PROVE  DueNow(i) <=> Matches(i)
<1>1. ram[i] # Empty => ram[i].days \subseteq Days
  BY DEF ClockTypeOK, TypeOK, Tables, Entry
<1>2. wday \in Days /\ MondayBased(wday) \in Days
  BY DEF ClockTypeOK, Days, MondayBased
<1> QED
  BY <1>1, <1>2, TodayIsMondayBased DEF DueNow, Matches

\* When control_task looks at least once in every WindowTicks ticks, no entry
\* falls between two looks.
THEOREM DueApplied ==
  ASSUME CycleMax <= WindowTicks
  PROVE  ClockSpec => DueEntryApplied
<1> DEFINE Applied ==
      tick = WindowTicks - 1 /\ tick' = WindowTicks /\ calm /\ synced /\ auto
       => \A i \in Registers :
            DueNow(i) /\ (\A j \in 1 .. i - 1 : ~DueNow(j))
              => curtain = ram[i].pct
<1>1. LookedInv /\ [ClockNext]_vars => [Applied]_vars
  <2> SUFFICES ASSUME LookedInv, ClockNext,
                      tick = WindowTicks - 1, tick' = WindowTicks,
                      calm, synced, auto,
                      NEW i \in Registers,
                      DueNow(i), \A j \in 1 .. i - 1 : ~DueNow(j)
               PROVE  curtain = ram[i].pct
    OBVIOUS
  <2>1. ClockTypeOK
    BY DEF LookedInv
  <2>2. tick' # tick
    BY <2>1, ClockAssumption DEF ClockTypeOK
  <2>3. Tick
    BY <2>2 DEF ClockNext, AgendaStep, SetCurtain, TimeSync, Look, Reboot,
                timeVars
  <2>4. elapsed <= tick /\ tick - elapsed < WindowTicks
    BY <2>1, <2>3, ClockAssumption DEF Tick, ClockTypeOK
  <2>5. \A j \in 1 .. i - 1 : j \in Registers
    BY SizesAssumption DEF Registers
  <2>6. FirstMatch(i)
    BY <2>1, <2>5, DueIsMatch DEF FirstMatch
  <2> QED
    BY <2>4, <2>6 DEF LookedInv
<1> QED
  BY <1>1, LookedInit, LookedNext, PTL DEF ClockSpec, DueEntryApplied

=============================================================================
