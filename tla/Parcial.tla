-------------------------------- MODULE Parcial --------------------------------
(***************************************************************************)
(* The temperature monitor of Parcial01: three tasks on one core, of which *)
(* the runnable one of highest priority runs, a mutex that inherits        *)
(* priorities, a terminal, a button and two LEDs.                          *)
(*                                                                         *)
(* The terminal's task blocks while the UART sends (its transmit buffer    *)
(* has length 0), and holds the mutex meanwhile: this is when the others'  *)
(* waits time out.                                                         *)
(***************************************************************************)
EXTENDS Integers, Sequences, FiniteSets, SequencesExt

CONSTANTS
  Channels,     \* the colours of LED 1, in the order their ranges are read
  Ranges,       \* pairs <<min, max>> of degrees that a command may set
  FirstRange,   \* the range of a channel at boot
  Limits,       \* pairs <<min, max>> of duty that a command may set
  FirstLimits,
  Temps,        \* temperatures the NTC may show, FirstTemp before it is read
  FirstTemp,
  Thresholds,   \* what the potentiometer may stand for
  Gaps          \* milliseconds between two polls of the button

ASSUME ParcialAssumption ==
  /\ Channels \in Seq(STRING) /\ Channels # << >>
  /\ Ranges \cup {FirstRange} \subseteq Int \X Int
  /\ \A r \in Ranges \cup {FirstRange} : r[1] < r[2]
  /\ \A l \in Limits \cup {FirstLimits} : l[1] < l[2]
  /\ FirstTemp \in Int /\ Temps \subseteq Int /\ Thresholds \subseteq Int
  /\ Gaps \subseteq Nat /\ \A g \in Gaps : g >= 20

VARIABLES
  pc,       \* where each task is
  holder,   \* who holds s_adc_mutex
  shared,   \* s_shared_ntc_mv, as a temperature
  seen,     \* task_led2_btn's copy of it
  uart,     \* uart_module_t: the ranges and the unit, and the command half done
  limits,   \* duty_min and duty_max of LED 1
  local,    \* task_led1_temp: the temperature and the ranges read so far
  line,     \* the unit a line being printed was converted to
  duty,     \* the duty of the channels of LED 1
  led2,     \* LED 2 is lit
  button,   \* button_led_module_t: the last level and the time since a press
  finger    \* the button itself, and history of what was polled

vars == <<pc, holder, shared, seen, uart, limits, local, line, duty, led2, button,
          finger>>

-----------------------------------------------------------------------------
(* The scheduler *)

Tasks == {"led2", "led1", "uart"}
NoTask == "none"
Priority(t) == CASE t = "led2" -> 3 [] t = "led1" -> 2 [] t = "uart" -> 1

Waiting(t) == pc[t] = "wait" /\ holder # NoTask

\* A holder runs at the priority of the first that waits for it
Effective(t) ==
  IF holder # t THEN Priority(t)
  ELSE CHOOSE p \in 1 .. 3 :
         /\ \E u \in Tasks : (u = t \/ Waiting(u)) /\ Priority(u) = p
         /\ \A u \in Tasks : u = t \/ Waiting(u) => Priority(u) <= p

Runnable(t) == pc[t] \notin {"asleep", "sending"} /\ ~Waiting(t)

\* Mutant: the tasks share nothing but the mutex, as on two cores
MayRunBeside(t) == Runnable(t)

MayRun(t) ==
  /\ Runnable(t)
  /\ \A u \in Tasks : Runnable(u) => Effective(u) <= Effective(t)

Goes(t, where) == pc' = [pc EXCEPT ![t] = where]

\* vTaskDelay ends
Wakes(t) ==
  /\ pc[t] = "asleep"
  /\ Goes(t, "start")
  /\ UNCHANGED <<holder, shared, seen, uart, limits, local, line, duty, led2, button,
                 finger>>

\* xSemaphoreTake
Takes(t) ==
  /\ pc[t] = "wait"
  /\ MayRun(t)
  /\ holder' = t
  /\ Goes(t, "holds")
  /\ UNCHANGED <<shared, seen, uart, limits, local, line, duty, led2, button, finger>>

\* It returns pdFALSE; only output to the terminal takes that long
TimesOut(t) ==
  /\ Waiting(t)
  /\ pc[holder] = "sending"
  /\ Goes(t, "asleep")
  /\ UNCHANGED <<holder, shared, seen, uart, limits, local, line, duty, led2, button,
                 finger>>

-----------------------------------------------------------------------------
(* task_led1_temp *)

Led1Starts ==
  /\ pc["led1"] = "start" /\ MayRun("led1")
  /\ Goes("led1", "wait")
  /\ UNCHANGED <<holder, shared, seen, uart, limits, local, line, duty, led2, button,
                 finger>>

\* adc_module_read_ntc under the mutex
ReadNtc(temp) ==
  /\ pc["led1"] = "holds" /\ MayRun("led1")
  /\ holder' = NoTask
  /\ local' = [temp |-> temp, ranges |-> <<>>]
  /\ Goes("led1", "publish")
  /\ UNCHANGED <<shared, seen, uart, limits, line, duty, led2, button, finger>>

Publish ==
  /\ pc["led1"] = "publish" /\ MayRun("led1")
  /\ shared' = local.temp
  /\ Goes("led1", "ranges")
  /\ UNCHANGED <<holder, seen, uart, limits, local, line, duty, led2, button, finger>>

\* uart_get_temp_range, one float at a time and without the mutex
ReadBound ==
  LET read == Len(local.ranges)
      channel == Channels[read \div 2 + 1]
  IN  /\ pc["led1"] = "ranges" /\ MayRun("led1")
      /\ local' = [local EXCEPT !.ranges =
                     Append(@, uart.ranges[channel][(read % 2) + 1])]
      /\ Goes("led1", IF read + 1 = 2 * Len(Channels) THEN "apply" ELSE "ranges")
      /\ UNCHANGED <<holder, shared, seen, uart, limits, line, duty, led2, button,
                     finger>>

\* set_led_rgb_given_struct: duty_min holds for a channel that is off as well
Clamped(d, l) == IF d < l[1] THEN l[1] ELSE IF d > l[2] THEN l[2] ELSE d

\* set_led_rgb_by_temperature
Shown(j) ==
  LET l == limits[Channels[j]]
      within == local.ranges[2 * j - 1] <= local.temp /\ local.temp <= local.ranges[2 * j]
  IN  Clamped(IF within THEN l[2] ELSE 0, l)

ShowLed1 ==
  /\ pc["led1"] = "apply" /\ MayRun("led1")
  /\ duty' = [c \in Range(Channels) |->
                Shown(CHOOSE j \in 1 .. Len(Channels) : Channels[j] = c)]
  /\ local' = [temp |-> FirstTemp, ranges |-> <<>>]
  /\ Goes("led1", "asleep")
  /\ UNCHANGED <<holder, shared, seen, uart, limits, line, led2, button, finger>>

-----------------------------------------------------------------------------
(* task_led2_btn *)

Led2Starts ==
  /\ pc["led2"] = "start" /\ MayRun("led2")
  /\ seen' = shared
  /\ Goes("led2", "wait")
  /\ UNCHANGED <<holder, shared, uart, limits, local, line, duty, led2, button, finger>>

Debounce == 50    \* BTN_DEBOUNCE_MS

NextUnit(u) == CASE u = "C" -> "F" [] u = "F" -> "K" [] u = "K" -> "C"

\* Mutant: the level is not remembered when an edge has been counted
RememberedUnlessCounted(level, counted) == IF counted THEN button.level ELSE level

Remembered(level, counted) == level

\* What button_led_module_process reads from a button that is up, down, or
\* bouncing on the way
Levels == CASE finger.at = "up" -> {1} [] finger.at = "down" -> {0} [] OTHER -> {0, 1}

\* button_led_module_process
PollButton(gap, level, threshold) ==
  LET since == IF button.since + gap > Debounce THEN Debounce ELSE button.since + gap
      counted == button.level = 1 /\ level = 0 /\ since >= Debounce
  IN  /\ pc["led2"] = "holds" /\ MayRun("led2")
      /\ level \in Levels
      /\ finger.at \in {"falling", "rising"} => ~finger.polled
      /\ uart' = [uart EXCEPT !.unit = IF counted THEN NextUnit(@) ELSE @]
      /\ button' = [level |-> Remembered(level, counted),
                    since |-> IF counted THEN 0 ELSE since]
      /\ finger' = [at |-> finger.at, polled |-> TRUE,
                    count |-> IF counted THEN finger.count + 1 ELSE finger.count]
      /\ led2' = (seen > threshold)
      /\ seen' = FirstTemp
      /\ holder' = NoTask
      /\ Goes("led2", "asleep")
      /\ UNCHANGED <<shared, limits, local, line, duty>>

\* The finger.  A press is noticed when it lasts longer than a poll; it bounces
\* for less than the 20 ms between two polls; and presses are Debounce apart.
FingerMoves(from, to) ==
  /\ finger.at = from
  /\ finger' = [at |-> to, polled |-> FALSE,
                count |-> IF to = "falling" THEN 0 ELSE finger.count]
  /\ UNCHANGED <<pc, holder, shared, seen, uart, limits, local, line, duty, led2, button>>

FingerNext ==
  \/ FingerMoves("up", "falling") /\ finger.polled /\ button.since >= Debounce
  \/ FingerMoves("falling", "down")
  \/ FingerMoves("down", "rising") /\ finger.polled
  \/ FingerMoves("rising", "up")

-----------------------------------------------------------------------------
(* task_uart.  The mutex is held from the first byte read to the last sent. *)

UartStarts ==
  /\ pc["uart"] = "start" /\ MayRun("uart")
  /\ Goes("uart", "wait")
  /\ UNCHANGED <<holder, shared, seen, uart, limits, local, line, duty, led2, button,
                 finger>>

\* A command goes on with where
Executes(at, where) ==
  /\ pc["uart"] = at /\ MayRun("uart")
  /\ Goes("uart", where)
  /\ UNCHANGED <<holder, shared, seen, local, duty, led2, button, finger>>

\* SET_TEMP_R, _G and _B: two stores
SetTempMin(c, r) ==
  /\ Executes("holds", "set temp")
  /\ uart' = [ranges |-> [uart.ranges EXCEPT ![c] = <<r[1], @[2]>>],
              unit |-> uart.unit, command |-> <<c, r>>]
  /\ UNCHANGED <<limits, line>>

SetTempMax ==
  /\ Executes("set temp", "sending")
  /\ uart' = [ranges |-> [uart.ranges EXCEPT ![uart.command[1]] = uart.command[2]],
              unit |-> uart.unit, command |-> <<>>]
  /\ UNCHANGED <<limits, line>>

\* SET_R, _G and _B
SetDutyMin(c, l) ==
  /\ Executes("holds", "set duty")
  /\ uart' = [uart EXCEPT !.command = <<c, l>>]
  /\ limits' = [limits EXCEPT ![c] = <<l[1], @[2]>>]
  /\ UNCHANGED line

SetDutyMax ==
  /\ Executes("set duty", "sending")
  /\ uart' = [uart EXCEPT !.command = <<>>]
  /\ limits' = [limits EXCEPT ![uart.command[1]] = uart.command[2]]
  /\ UNCHANGED line

\* TEMP with a unit.  When a line is due is left out: it may be at any time.
SetUnit(u) ==
  /\ Executes("holds", "sending")
  /\ uart' = [uart EXCEPT !.unit = u]
  /\ UNCHANGED <<limits, line>>

\* print_temp_line, READ_TEMP and READ_UMBRAL convert to the unit, then name it
Convert ==
  /\ Executes("holds", "name unit")
  /\ line' = uart.unit
  /\ UNCHANGED <<uart, limits>>

NameUnit ==
  /\ Executes("name unit", "sending")
  /\ line' = "none"
  /\ UNCHANGED <<uart, limits>>

\* The UART has sent all; the task goes on with the next command
Sent ==
  /\ pc["uart"] = "sending"
  /\ Goes("uart", "holds")
  /\ UNCHANGED <<holder, shared, seen, uart, limits, local, line, duty, led2, button,
                 finger>>

\* uart_module_process returns
UartGives ==
  /\ pc["uart"] = "holds" /\ MayRun("uart")
  /\ holder' = NoTask
  /\ Goes("uart", "asleep")
  /\ UNCHANGED <<shared, seen, uart, limits, local, line, duty, led2, button, finger>>

-----------------------------------------------------------------------------

\* app_main
Init ==
  /\ pc = [t \in Tasks |-> "start"]
  /\ holder = NoTask
  /\ shared = FirstTemp /\ seen = FirstTemp
  /\ uart = [ranges |-> [c \in Range(Channels) |-> FirstRange], unit |-> "C",
             command |-> <<>>]
  /\ limits = [c \in Range(Channels) |-> FirstLimits]
  /\ local = [temp |-> FirstTemp, ranges |-> <<>>]
  /\ line = "none"
  /\ duty = [c \in Range(Channels) |-> 0]
  /\ led2 = FALSE
  /\ button = [level |-> 1, since |-> 0]
  /\ finger = [at |-> "up", polled |-> FALSE, count |-> 1]

Led1Next == Led1Starts \/ (\E t \in Temps : ReadNtc(t)) \/ Publish \/ ReadBound \/ ShowLed1

Led2Next ==
  \/ Led2Starts
  \/ \E gap \in Gaps, level \in {0, 1}, threshold \in Thresholds :
       PollButton(gap, level, threshold)

UartNext ==
  \/ UartStarts \/ SetTempMax \/ SetDutyMax \/ Convert \/ NameUnit
  \/ Sent \/ UartGives
  \/ \E c \in Range(Channels) :
       (\E r \in Ranges : SetTempMin(c, r)) \/ (\E l \in Limits : SetDutyMin(c, l))
  \/ \E u \in {"C", "F", "K"} : SetUnit(u)

Next ==
  \/ \E t \in Tasks : Wakes(t) \/ Takes(t) \/ TimesOut(t)
  \/ Led1Next \/ Led2Next \/ UartNext \/ FingerNext

Spec == Init /\ [][Next]_vars

-----------------------------------------------------------------------------
(* Properties *)

\* LED 1 is set from ranges and limits that are in force together, although its
\* task reads them without the mutex (uart_get_temp_range): no command is half
\* done, and none has been done since the reading.  And a temperature is printed
\* with the name of the unit it was converted to, although the button changes
\* the unit.
SettingsWhole ==
  /\ pc["led1"] = "apply" =>
       /\ uart.command = <<>>
       /\ \A j \in 1 .. Len(Channels) :
            uart.ranges[Channels[j]] = <<local.ranges[2 * j - 1], local.ranges[2 * j]>>
  /\ pc["uart"] = "name unit" => line = uart.unit

\* A press of the button changes the unit once, however it bounces and whatever
\* polls are lost while the terminal prints.
PressCountedOnce ==
  /\ finger.count <= 1
  /\ finger.at = "down" /\ finger.polled => finger.count = 1

=============================================================================
