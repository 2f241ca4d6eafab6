------------------------------ MODULE AgendaClock ------------------------------
(***************************************************************************)
(* The agenda against the clock: apply_schedule_if_needed of               *)
(* main/control_system.c looks once per cycle of control_task whether an   *)
(* entry matches the local time, in the first seconds of its minute only.  *)
(*                                                                         *)
(* Time advances in ticks.  A cycle is one second of vTaskDelay plus the   *)
(* work of the cycle, flash writes included, so looks are between CycleMin *)
(* and CycleMax ticks apart.                                               *)
(***************************************************************************)
EXTENDS Agenda, Sequences

CONSTANTS
  MinuteTicks,   \* ticks in a minute
  WindowTicks,   \* ticks in the three seconds in which an entry matches
  CycleMin,      \* ticks in CONTROL_TASK_MS
  CycleMax,      \* the longest time from one look to the next
  HandPcts       \* curtain positions clients ask for in POST /api/control

ASSUME ClockAssumption ==
  /\ MinuteTicks \in Nat /\ WindowTicks \in Nat
  /\ CycleMin \in Nat \ {0} /\ CycleMax \in Nat
  /\ CycleMin <= CycleMax
  /\ 0 < WindowTicks /\ WindowTicks < MinuteTicks
  /\ HandPcts \subseteq Percent

VARIABLES
  wday, hour, minute,   \* local time as struct tm has it: Sunday is 0
  tick,                 \* ticks since the minute began
  synced,               \* time_was_synchronized of wifi_app.c
  auto,                 \* whether curtain_mode is CONTROL_MODE_AUTO
  curtain,              \* s_state.curtain_percent
  elapsed,              \* ticks since control_task last looked
  calm                  \* history: since the minute began, nobody has touched
                        \* agenda, curtain, mode or clock but control_task

timeVars == <<wday, hour, minute, tick>>
vars == <<agendaVars, timeVars, synced, auto, curtain, elapsed, calm>>

-----------------------------------------------------------------------------

\* tm_wday to the index of timer_register_t.days
MondayBased(d) == (d + 6) % 7

Matches(i) ==
  /\ ram[i] # Empty
  /\ MondayBased(wday) \in ram[i].days
  /\ ram[i].hour = hour
  /\ ram[i].minutes = minute

\* The first register that matches, as the loop with its break finds it
FirstMatch(i) == Matches(i) /\ \A j \in 1 .. i - 1 : ~Matches(j)

\* Mutant: a match in the first tick of the minute only
FirstTick == tick = 0

\* timeinfo->tm_sec < 3
InWindow == tick < WindowTicks

ClockInit ==
  /\ Init
  /\ wday = 0 /\ hour = 0 /\ minute = 0 /\ tick = 0
  /\ synced = FALSE
  /\ auto = FALSE
  /\ curtain = 0
  /\ elapsed = 0
  /\ calm = FALSE

\* A handler of the agenda takes a step
AgendaStep ==
  /\ \/ \E r \in Requests : Accept(r) \/ Reject(r)
     \/ Store
     \/ StoreFails
     \/ CommitCall
     \/ Install
  /\ calm' = (calm /\ ram' = ram)
  /\ UNCHANGED <<timeVars, synced, auto, curtain, elapsed>>

\* POST /api/control sets mode and position of the curtain
SetCurtain ==
  /\ auto' \in BOOLEAN
  /\ curtain' \in HandPcts
  /\ calm' = FALSE
  /\ UNCHANGED <<agendaVars, timeVars, synced, elapsed>>

\* obtain_time succeeds; the clock that was meaningless is now right
TimeSync ==
  /\ ~synced
  /\ synced' = TRUE
  /\ calm' = FALSE
  /\ UNCHANGED <<agendaVars, timeVars, auto, curtain, elapsed>>

\* apply_schedule_if_needed, with set_curtain when an entry matches
Look ==
  /\ elapsed >= CycleMin
  /\ elapsed' = 0
  /\ IF auto /\ synced /\ InWindow /\ \E i \in Registers : FirstMatch(i)
     THEN \E i \in Registers : FirstMatch(i) /\ curtain' = ram[i].pct
     ELSE UNCHANGED curtain
  /\ UNCHANGED <<agendaVars, timeVars, synced, auto, calm>>

\* Time passes within the minute, or a minute begins
Tick ==
  /\ elapsed < CycleMax
  /\ elapsed' = elapsed + 1
  /\ \/ /\ tick + 1 < MinuteTicks
        /\ tick' = tick + 1
        /\ UNCHANGED <<wday, hour, minute, calm>>
     \/ /\ tick + 1 = MinuteTicks
        /\ tick' = 0
        /\ calm' = TRUE
        /\ minute' = (minute + 1) % HourMinutes
        /\ hour' = IF minute' = 0 THEN (hour + 1) % DayHours ELSE hour
        /\ wday' = IF minute' = 0 /\ hour' = 0 THEN (wday + 1) % 7 ELSE wday
  /\ UNCHANGED <<agendaVars, synced, auto, curtain>>

\* The curtain and its mode come back from ctrl_cfg (see ControlSystem), the
\* time does not
Reboot ==
  /\ PowerCut
  /\ synced' = FALSE
  /\ elapsed' = 0
  /\ calm' = FALSE
  /\ UNCHANGED <<timeVars, auto, curtain>>

ClockNext ==
  \/ AgendaStep
  \/ SetCurtain
  \/ TimeSync
  \/ Look
  \/ Tick
  \/ Reboot

ClockSpec == ClockInit /\ [][ClockNext]_vars

-----------------------------------------------------------------------------
(* Properties *)

ClockTypeOK ==
  /\ TypeOK
  /\ wday \in Days /\ hour \in Hours /\ minute \in Minutes
  /\ tick \in 0 .. MinuteTicks - 1
  /\ synced \in BOOLEAN /\ auto \in BOOLEAN /\ calm \in BOOLEAN
  /\ curtain \in Percent
  /\ elapsed \in 0 .. CycleMax

\* What the user reads: the days of an entry by name (DAY_NAMES of
\* register.c, Monday first) and today's name (struct tm, Sunday first)
DAY_NAMES == <<"Lu", "Ma", "Mi", "Ju", "Vi", "Sa", "Do">>
Today == <<"Do", "Lu", "Ma", "Mi", "Ju", "Vi", "Sa">>[wday + 1]

DueNow(i) ==
  /\ ram[i] # Empty
  /\ \E d \in ram[i].days : DAY_NAMES[d + 1] = Today
  /\ ram[i].hour = hour /\ ram[i].minutes = minute

\* When the first seconds of a minute are over, the curtain stands where the
\* lowest-numbered entry for this day and time wants it, provided the board
\* knows the time, the curtain is automatic and nobody touched anything since
\* the minute began: no entry falls between two looks of control_task.
DueEntryApplied ==
  [][tick = WindowTicks - 1 /\ tick' = WindowTicks /\ calm /\ synced /\ auto
       => \A i \in Registers :
            DueNow(i) /\ (\A j \in 1 .. i - 1 : ~DueNow(j))
              => curtain = ram[i].pct]_vars

=============================================================================
