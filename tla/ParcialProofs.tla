---------------------------- MODULE ParcialProofs ----------------------------
(* Theorems about Parcial, for any channels, ranges, limits and temperatures: *)
(* a press of the button counts once, and an unlocked reader sees whole       *)
(* settings because of the priorities.                                        *)
EXTENDS Parcial, TLAPS

-----------------------------------------------------------------------------
(* The button *)

\* A press that has not been counted finds the button as it was when released
\* for Debounce; one that has been counted leaves it pressed.
Uncounted ==
  finger.count = 0 /\ button.level = 1 /\ button.since = Debounce

Counted == finger.count = 1 /\ button.level = 0

ButtonInv ==
  /\ finger \in [at : {"up", "falling", "down", "rising"}, polled : BOOLEAN,
                 count : 0 .. 1]
  /\ button \in [level : {0, 1}, since : 0 .. Debounce]
  /\ finger.at = "up" =>
       finger.count = 1 /\ (finger.polled => button.level = 1)
  /\ finger.at \in {"falling", "down"} => Uncounted \/ Counted
  /\ finger.at = "falling" /\ ~finger.polled => Uncounted
  /\ finger.at = "down" /\ finger.polled => Counted
  /\ finger.at = "rising" =>
       finger.count = 1 /\ (~finger.polled => button.level = 0)

\* The time since a press stops growing at Debounce.
LEMMA Saturates ==
  \A a \in 0 .. Debounce, g \in Nat :
    LET since == IF a + g > Debounce THEN Debounce ELSE a + g
    IN  since \in 0 .. Debounce /\ since >= a
BY DEF Debounce

LEMMA Saturated == \A a \in 0 .. Debounce : a >= Debounce => a = Debounce
BY DEF Debounce

LEMMA ButtonInvKept ==
  ASSUME ButtonInv, [Next]_vars
  PROVE  ButtonInv'
<1> USE ParcialAssumption DEF ButtonInv, Uncounted, Counted, Debounce
<1>1. ASSUME NEW t \in Tasks, Wakes(t)
      PROVE  ButtonInv'
  BY <1>1 DEF Wakes
<1>2. ASSUME NEW t \in Tasks, Takes(t)
      PROVE  ButtonInv'
  BY <1>2 DEF Takes
<1>3. ASSUME NEW t \in Tasks, TimesOut(t)
      PROVE  ButtonInv'
  BY <1>3 DEF TimesOut
<1>4. CASE Led1Starts
  BY <1>4 DEF Led1Starts
<1>5. ASSUME NEW temp \in Temps, ReadNtc(temp)
      PROVE  ButtonInv'
  BY <1>5 DEF ReadNtc
<1>6. CASE Publish
  BY <1>6 DEF Publish
<1>7. CASE ReadBound
  BY <1>7 DEF ReadBound
<1>8. CASE ShowLed1
  BY <1>8 DEF ShowLed1
<1>9. CASE Led2Starts
  BY <1>9 DEF Led2Starts
<1>10. ASSUME NEW gap \in Gaps, NEW level \in {0, 1},
             NEW threshold \in Thresholds, PollButton(gap, level, threshold)
      PROVE  ButtonInv'
  <2>1. PICK since \in 0 .. Debounce :
          /\ since >= button.since
          /\ \E counted \in BOOLEAN :
               /\ counted <=> button.level = 1 /\ level = 0 /\ since >= Debounce
               /\ button' = [level |-> level, since |-> IF counted THEN 0 ELSE since]
               /\ finger' = [at |-> finger.at, polled |-> TRUE,
                     count |-> IF counted THEN finger.count + 1 ELSE finger.count]
    <3>1. gap \in Nat /\ button.since \in 0 .. Debounce
      BY ParcialAssumption
    <3> DEFINE since == IF button.since + gap > Debounce THEN Debounce
                        ELSE button.since + gap
    <3>2. since \in 0 .. Debounce /\ since >= button.since
      BY <3>1, Saturates
    <3>3. QED
      BY <1>10, <3>2, ZenonT(30) DEF PollButton, Remembered
  <2>2. PICK counted \in BOOLEAN :
          /\ counted <=> button.level = 1 /\ level = 0 /\ since >= Debounce
          /\ button' = [level |-> level, since |-> IF counted THEN 0 ELSE since]
          /\ finger' = [at |-> finger.at, polled |-> TRUE,
                count |-> IF counted THEN finger.count + 1 ELSE finger.count]
    BY <2>1
  <2>3. /\ button'.level = level /\ button'.since = IF counted THEN 0 ELSE since
        /\ button' \in [level : {0, 1}, since : 0 .. Debounce]
    BY <2>1, <2>2
  <2>4. /\ finger'.at = finger.at /\ finger'.polled = TRUE
        /\ finger'.count = IF counted THEN finger.count + 1 ELSE finger.count
    BY <2>2
  <2>5. /\ finger.at = "up" => level = 1
        /\ finger.at = "down" => level = 0
        /\ finger.at \in {"falling", "rising"} => ~finger.polled
    BY <1>10 DEF PollButton, Levels
  <2>6. finger.count \in 0 .. 1 /\ (counted => finger.count = 0)
    BY <2>1, <2>2, <2>5
  <2>7. finger' \in [at : {"up", "falling", "down", "rising"}, polled : BOOLEAN,
                      count : 0 .. 1]
    BY <2>2, <2>6
  <2>8. QED
    BY <2>1, <2>2, <2>3, <2>4, <2>5, <2>6, <2>7
<1>11. CASE UartStarts
  BY <1>11 DEF UartStarts
<1>12. ASSUME NEW c \in Range(Channels), NEW r \in Ranges, SetTempMin(c, r)
      PROVE  ButtonInv'
  BY <1>12 DEF SetTempMin, Executes
<1>13. CASE SetTempMax
  BY <1>13 DEF SetTempMax, Executes
<1>14. ASSUME NEW c \in Range(Channels), NEW l \in Limits, SetDutyMin(c, l)
      PROVE  ButtonInv'
  BY <1>14 DEF SetDutyMin, Executes
<1>15. CASE SetDutyMax
  BY <1>15 DEF SetDutyMax, Executes
<1>16. ASSUME NEW u \in {"C", "F", "K"}, SetUnit(u)
      PROVE  ButtonInv'
  BY <1>16 DEF SetUnit, Executes
<1>17. CASE Convert
  BY <1>17 DEF Convert, Executes
<1>18. CASE NameUnit
  BY <1>18 DEF NameUnit, Executes
<1>19. CASE Sent
  BY <1>19 DEF Sent
<1>20. CASE UartGives
  BY <1>20 DEF UartGives
<1>21. CASE FingerNext
  <2>1. ASSUME NEW from, NEW to \in {"up", "falling", "down", "rising"},
               FingerMoves(from, to)
        PROVE  /\ finger.at = from /\ finger'.at = to /\ finger'.polled = FALSE
               /\ finger'.count = IF to = "falling" THEN 0 ELSE finger.count
               /\ finger' \in [at : {"up", "falling", "down", "rising"},
                              polled : BOOLEAN, count : 0 .. 1]
               /\ UNCHANGED button
    BY <2>1 DEF FingerMoves
  <2>2. button.since \in 0 .. Debounce /\ finger.count \in 0 .. 1
    OBVIOUS
  <2>3. CASE FingerMoves("up", "falling") /\ finger.polled
               /\ button.since >= Debounce
    <3>1. button.since = Debounce
      BY <2>3, <2>2, Saturated
    <3>2. button.level = 1
      BY <2>1, <2>3
    <3>3. QED
      BY <2>1, <2>3, <3>1, <3>2
  <2>4. CASE FingerMoves("falling", "down")
    BY <2>1, <2>4
  <2>5. CASE FingerMoves("down", "rising") /\ finger.polled
    BY <2>1, <2>5
  <2>6. CASE FingerMoves("rising", "up")
    BY <2>1, <2>6
  <2>7. QED
    BY <1>21, <2>3, <2>4, <2>5, <2>6 DEF FingerNext
<1>22. CASE UNCHANGED vars
  BY <1>22 DEF vars
<1>23. QED
  BY <1>1, <1>2, <1>3, <1>4, <1>5, <1>6, <1>7, <1>8, <1>9, <1>10, <1>11,
     <1>12, <1>13, <1>14, <1>15, <1>16, <1>17, <1>18, <1>19, <1>20, <1>21,
     <1>22
  DEF Next, Led1Next, Led2Next, UartNext

\* The button is up at boot, as if a press had been counted long ago.
LEMMA ButtonInvInit == Init => ButtonInv
BY DEF Init, ButtonInv, Debounce

\* A press of the button changes the unit once, however it bounces
\* (button_led_module_process) and whatever polls time out for the mutex.
THEOREM PressesCountOnce == Spec => []PressCountedOnce
<1>1. ButtonInv => PressCountedOnce
  BY DEF ButtonInv, Counted, PressCountedOnce
<1>2. Spec => []ButtonInv
  BY ButtonInvInit, ButtonInvKept, PTL DEF Spec
<1>3. QED
  BY <1>1, <1>2, PTL

-----------------------------------------------------------------------------
(* The scheduler *)

Places ==
  {"start", "wait", "holds", "asleep", "publish", "ranges", "apply", "set temp",
   "set duty", "name unit", "sending"}

\* Where a task holds the mutex
Inside == {"holds", "set temp", "set duty", "name unit", "sending"}

\* task_led1_temp, once it has given the mutex back, runs until it sleeps: the
\* terminal's task, of lower priority, does not get the mutex meanwhile.
SchedulerInv ==
  /\ pc \in [Tasks -> Places]
  /\ holder \in Tasks \cup {NoTask}
  /\ \A t \in Tasks : pc[t] \in Inside <=> holder = t
  /\ pc["led1"] \in {"publish", "ranges", "apply"} => holder # "uart"

LEMMA Led1GoesFirst ==
  ASSUME holder = NoTask, pc["led1"] \in {"publish", "ranges", "apply"}
  PROVE  ~ MayRun("uart")
<1>1. Runnable("led1")
  BY DEF Runnable, Waiting
<1>2. Effective("led1") = 2 /\ Effective("uart") = 1
  BY DEF Effective, Priority, NoTask
<1>3. ~ (2 <= 1)
  OBVIOUS
<1>4. QED
  BY <1>1, <1>2, <1>3 DEF MayRun, Tasks

LEMMA SchedulerInvKept ==
  ASSUME SchedulerInv, [Next]_vars
  PROVE  SchedulerInv'
<1> USE DEF SchedulerInv, Tasks, NoTask, Inside, Places, Goes
<1>1. ASSUME NEW t \in Tasks, Wakes(t)
      PROVE  SchedulerInv'
  BY <1>1 DEF Wakes
<1>2. ASSUME NEW t \in Tasks, Takes(t)
      PROVE  SchedulerInv'
  <2>1. holder = NoTask /\ MayRun(t)
    BY <1>2 DEF Takes, MayRun, Runnable, Waiting
  <2>2. ~ (t = "uart" /\ pc["led1"] \in {"publish", "ranges", "apply"})
    BY <2>1, Led1GoesFirst
  <2>3. QED
    BY <1>2, <2>1, <2>2 DEF Takes
<1>3. ASSUME NEW t \in Tasks, TimesOut(t)
      PROVE  SchedulerInv'
  BY <1>3 DEF TimesOut, Waiting
<1>4. CASE Led1Starts
  BY <1>4 DEF Led1Starts
<1>5. ASSUME NEW temp \in Temps, ReadNtc(temp)
      PROVE  SchedulerInv'
  BY <1>5 DEF ReadNtc
<1>6. CASE Publish
  BY <1>6 DEF Publish
<1>7. CASE ReadBound
  BY <1>7 DEF ReadBound
<1>8. CASE ShowLed1
  BY <1>8 DEF ShowLed1
<1>9. CASE Led2Starts
  BY <1>9 DEF Led2Starts
<1>10. ASSUME NEW gap \in Gaps, NEW level \in {0, 1},
             NEW threshold \in Thresholds, PollButton(gap, level, threshold)
      PROVE  SchedulerInv'
  BY <1>10 DEF PollButton
<1>11. CASE UartStarts
  BY <1>11 DEF UartStarts
<1>12. ASSUME NEW c \in Range(Channels), NEW r \in Ranges, SetTempMin(c, r)
      PROVE  SchedulerInv'
  BY <1>12 DEF SetTempMin, Executes
<1>13. CASE SetTempMax
  BY <1>13 DEF SetTempMax, Executes
<1>14. ASSUME NEW c \in Range(Channels), NEW l \in Limits, SetDutyMin(c, l)
      PROVE  SchedulerInv'
  BY <1>14 DEF SetDutyMin, Executes
<1>15. CASE SetDutyMax
  BY <1>15 DEF SetDutyMax, Executes
<1>16. ASSUME NEW u \in {"C", "F", "K"}, SetUnit(u)
      PROVE  SchedulerInv'
  BY <1>16 DEF SetUnit, Executes
<1>17. CASE Convert
  BY <1>17 DEF Convert, Executes
<1>18. CASE NameUnit
  BY <1>18 DEF NameUnit, Executes
<1>19. CASE Sent
  BY <1>19 DEF Sent
<1>20. CASE UartGives
  BY <1>20 DEF UartGives
<1>21. CASE FingerNext
  BY <1>21 DEF FingerNext, FingerMoves
<1>22. CASE UNCHANGED vars
  BY <1>22 DEF vars
<1>23. QED
  BY <1>1, <1>2, <1>3, <1>4, <1>5, <1>6, <1>7, <1>8, <1>9, <1>10, <1>11,
     <1>12, <1>13, <1>14, <1>15, <1>16, <1>17, <1>18, <1>19, <1>20, <1>21,
     <1>22
  DEF Next, Led1Next, Led2Next, UartNext

LEMMA SchedulerInvInit == Init => SchedulerInv
BY DEF Init, SchedulerInv, Tasks, NoTask, Inside, Places

LEMMA SchedulerAlways == Spec => []SchedulerInv
BY SchedulerInvInit, SchedulerInvKept, PTL DEF Spec

-----------------------------------------------------------------------------
(* The terminal's commands *)

LEMMA SomeChannel == Len(Channels) \in Nat /\ Len(Channels) > 0
BY ParcialAssumption

LEMMA ChannelsInRange == \A j \in 1 .. Len(Channels) : Channels[j] \in Range(Channels)
BY ParcialAssumption DEF Range

\* A command is half done between its two stores only, and a line names the
\* unit it was converted to.
CommandInv ==
  /\ uart = [ranges |-> uart.ranges, unit |-> uart.unit, command |-> uart.command]
  /\ uart.ranges \in [Range(Channels) -> Int \X Int]
  /\ pc["uart"] = "set temp" =>
       uart.command \in Range(Channels) \X Ranges
  /\ uart.command # <<>> => pc["uart"] \in {"set temp", "set duty"}
  /\ pc["uart"] = "name unit" => line = uart.unit

LEMMA SetTempMinKeeps ==
  ASSUME SchedulerInv, CommandInv,
         NEW c \in Range(Channels), NEW r \in Ranges, SetTempMin(c, r)
  PROVE  CommandInv'
<1>1. uart' = [ranges |-> [uart.ranges EXCEPT ![c] = <<r[1], @[2]>>],
               unit |-> uart.unit, command |-> <<c, r>>]
  BY DEF SetTempMin
<1>2. pc'["uart"] = "set temp"
  BY DEF SetTempMin, Executes, Goes, SchedulerInv, Tasks
<1>3. r \in Int \X Int
  BY ParcialAssumption
<1>4. uart.ranges[c] \in Int \X Int
  BY DEF CommandInv
<1>5. [uart.ranges EXCEPT ![c] = <<r[1], @[2]>>] \in [Range(Channels) -> Int \X Int]
  BY <1>3, <1>4 DEF CommandInv
<1>6. QED
  BY <1>1, <1>2, <1>5 DEF CommandInv

LEMMA SetTempMaxKeeps ==
  ASSUME SchedulerInv, CommandInv, SetTempMax
  PROVE  CommandInv'
<1>1. uart' = [ranges |-> [uart.ranges EXCEPT ![uart.command[1]] = uart.command[2]],
               unit |-> uart.unit, command |-> <<>>]
  BY DEF SetTempMax
<1>2. pc["uart"] = "set temp" /\ pc'["uart"] = "sending"
  BY DEF SetTempMax, Executes, Goes, SchedulerInv, Tasks
<1>3. uart.command \in Range(Channels) \X Ranges
  BY <1>2 DEF CommandInv
<1>4. uart.command[1] \in Range(Channels) /\ uart.command[2] \in Int \X Int
  BY <1>3, ParcialAssumption
<1>5. [uart.ranges EXCEPT ![uart.command[1]] = uart.command[2]]
        \in [Range(Channels) -> Int \X Int]
  BY <1>4 DEF CommandInv
<1>6. QED
  BY <1>1, <1>2, <1>5 DEF CommandInv

LEMMA CommandInvKept ==
  ASSUME SchedulerInv, CommandInv, [Next]_vars
  PROVE  CommandInv'
<1> USE ParcialAssumption DEF CommandInv, SchedulerInv, Goes, Tasks, Inside
<1>1. ASSUME NEW t \in Tasks, Wakes(t)
      PROVE  CommandInv'
  BY <1>1 DEF Wakes
<1>2. ASSUME NEW t \in Tasks, Takes(t)
      PROVE  CommandInv'
  BY <1>2 DEF Takes
<1>3. ASSUME NEW t \in Tasks, TimesOut(t)
      PROVE  CommandInv'
  BY <1>3 DEF TimesOut
<1>4. CASE Led1Starts
  BY <1>4 DEF Led1Starts
<1>5. ASSUME NEW temp \in Temps, ReadNtc(temp)
      PROVE  CommandInv'
  BY <1>5 DEF ReadNtc
<1>6. CASE Publish
  BY <1>6 DEF Publish
<1>7. CASE ReadBound
  BY <1>7 DEF ReadBound
<1>8. CASE ShowLed1
  BY <1>8 DEF ShowLed1
<1>9. CASE Led2Starts
  BY <1>9 DEF Led2Starts
<1>10. ASSUME NEW gap \in Gaps, NEW level \in {0, 1},
             NEW threshold \in Thresholds, PollButton(gap, level, threshold)
      PROVE  CommandInv'
  BY <1>10 DEF PollButton
<1>11. CASE UartStarts
  BY <1>11 DEF UartStarts
<1>12. ASSUME NEW c \in Range(Channels), NEW r \in Ranges, SetTempMin(c, r)
      PROVE  CommandInv'
  BY <1>12, SetTempMinKeeps
<1>13. CASE SetTempMax
  BY <1>13, SetTempMaxKeeps
<1>14. ASSUME NEW c \in Range(Channels), NEW l \in Limits, SetDutyMin(c, l)
      PROVE  CommandInv'
  BY <1>14 DEF SetDutyMin, Executes
<1>15. CASE SetDutyMax
  BY <1>15 DEF SetDutyMax, Executes
<1>16. ASSUME NEW u \in {"C", "F", "K"}, SetUnit(u)
      PROVE  CommandInv'
  BY <1>16 DEF SetUnit, Executes
<1>17. CASE Convert
  BY <1>17 DEF Convert, Executes
<1>18. CASE NameUnit
  BY <1>18 DEF NameUnit, Executes
<1>19. CASE Sent
  BY <1>19 DEF Sent
<1>20. CASE UartGives
  BY <1>20 DEF UartGives
<1>21. CASE FingerNext
  BY <1>21 DEF FingerNext, FingerMoves
<1>22. CASE UNCHANGED vars
  BY <1>22 DEF vars
<1>23. QED
  BY <1>1, <1>2, <1>3, <1>4, <1>5, <1>6, <1>7, <1>8, <1>9, <1>10, <1>11,
     <1>12, <1>13, <1>14, <1>15, <1>16, <1>17, <1>18, <1>19, <1>20, <1>21,
     <1>22
  DEF Next, Led1Next, Led2Next, UartNext

LEMMA CommandInvInit == Init => CommandInv
BY ParcialAssumption DEF Init, CommandInv, Tasks

-----------------------------------------------------------------------------
(* uart_get_temp_range *)

\* What has been read of the ranges is what they are.
Read ==
  \A j \in 1 .. Len(Channels) :
    /\ 2 * j - 1 <= Len(local.ranges) =>
         local.ranges[2 * j - 1] = uart.ranges[Channels[j]][1]
    /\ 2 * j <= Len(local.ranges) =>
         local.ranges[2 * j] = uart.ranges[Channels[j]][2]

ReadInv ==
  /\ local = [temp |-> local.temp, ranges |-> local.ranges]
  /\ local.ranges \in Seq(Int)
  /\ pc["led1"] = "publish" => local.ranges = <<>>
  /\ pc["led1"] = "ranges" => Len(local.ranges) < 2 * Len(Channels) /\ Read
  /\ pc["led1"] = "apply" => Len(local.ranges) = 2 * Len(Channels) /\ Read

LEMMA Appended ==
  \A s \in Seq(Int), x \in Int :
    /\ Append(s, x) \in Seq(Int)
    /\ Len(Append(s, x)) = Len(s) + 1
    /\ Append(s, x)[Len(s) + 1] = x
    /\ \A i \in 1 .. Len(s) : Append(s, x)[i] = s[i]
OBVIOUS

\* Which float is read next
LEMMA NextRead ==
  \A read, j \in Nat :
    /\ 2 * j - 1 = read + 1 => read \div 2 + 1 = j /\ (read % 2) + 1 = 1
    /\ 2 * j = read + 1 => read \div 2 + 1 = j /\ (read % 2) + 1 = 2
OBVIOUS

LEMMA NextInRange ==
  \A read, n \in Nat :
    read < 2 * n => read \div 2 + 1 \in 1 .. n /\ (read % 2) + 1 \in 1 .. 2
OBVIOUS

LEMMA PublishKeeps ==
  ASSUME SchedulerInv, ReadInv, Publish
  PROVE  ReadInv'
<1>1. /\ pc["led1"] = "publish" /\ pc'["led1"] = "ranges"
      /\ UNCHANGED local
  BY DEF Publish, Goes, SchedulerInv, Tasks
<1>2. local'.ranges = <<>> /\ Len(local'.ranges) = 0
  BY <1>1 DEF ReadInv
<1>3. Read'
  <2> SUFFICES ASSUME NEW j \in 1 .. Len(Channels)
               PROVE  2 * j - 1 > Len(local'.ranges) /\ 2 * j > Len(local'.ranges)
    BY SomeChannel, <1>2 DEF Read
  <2>1. QED
    BY <1>2, SomeChannel
<1>4. Len(local'.ranges) < 2 * Len(Channels)
  BY <1>2, SomeChannel
<1>5. QED
  BY <1>1, <1>2, <1>3, <1>4 DEF ReadInv

LEMMA ReadBoundKeeps ==
  ASSUME SchedulerInv, CommandInv, ReadInv, ReadBound
  PROVE  ReadInv'
<1> DEFINE read == Len(local.ranges)
           next == uart.ranges[Channels[read \div 2 + 1]][(read % 2) + 1]
<1>1. /\ pc["led1"] = "ranges" /\ UNCHANGED uart
      /\ local' = [local EXCEPT !.ranges = Append(@, next)]
      /\ pc'["led1"] = IF read + 1 = 2 * Len(Channels) THEN "apply" ELSE "ranges"
  BY DEF ReadBound, Goes, SchedulerInv, Tasks
<1>2. read \in Nat /\ local.ranges \in Seq(Int) /\ read < 2 * Len(Channels) /\ Read
  BY <1>1 DEF ReadInv
<1>3. read \div 2 + 1 \in 1 .. Len(Channels) /\ (read % 2) + 1 \in 1 .. 2
  BY <1>2, NextInRange, SomeChannel
<1>4. next \in Int
  <2>1. Channels[read \div 2 + 1] \in Range(Channels)
    BY <1>3, ChannelsInRange
  <2>2. uart.ranges[Channels[read \div 2 + 1]] \in Int \X Int
    BY <2>1 DEF CommandInv
  <2>3. \A p \in Int \X Int, i \in 1 .. 2 : p[i] \in Int
    OBVIOUS
  <2>4. QED
    BY <1>3, <2>2, <2>3
<1> HIDE DEF next
<1>5. /\ local' = [temp |-> local.temp, ranges |-> Append(local.ranges, next)]
      /\ local'.ranges = Append(local.ranges, next)
  BY <1>1 DEF ReadInv
<1>6. /\ local'.ranges \in Seq(Int) /\ Len(local'.ranges) = read + 1
      /\ local'.ranges[read + 1] = next
      /\ \A i \in 1 .. read : local'.ranges[i] = local.ranges[i]
  BY <1>2, <1>4, <1>5, Appended
<1> HIDE DEF read
<1>7. Read'
  <2> SUFFICES ASSUME NEW j \in 1 .. Len(Channels)
               PROVE  /\ 2 * j - 1 <= read + 1 =>
                           local'.ranges[2 * j - 1] = uart.ranges[Channels[j]][1]
                      /\ 2 * j <= read + 1 =>
                           local'.ranges[2 * j] = uart.ranges[Channels[j]][2]
    BY <1>1, <1>6 DEF Read
  <2>1. j \in Nat /\ j >= 1
    BY SomeChannel
  <2>2. /\ 2 * j - 1 <= read => local.ranges[2 * j - 1] = uart.ranges[Channels[j]][1]
        /\ 2 * j <= read => local.ranges[2 * j] = uart.ranges[Channels[j]][2]
    BY <1>2 DEF Read, read
  <2>3. CASE 2 * j - 1 = read + 1
    <3>1. next = uart.ranges[Channels[j]][1]
      BY <1>2, <2>1, <2>3, NextRead DEF next
    <3>2. QED
      BY <1>2, <1>6, <2>1, <2>3, <3>1
  <2>4. CASE 2 * j = read + 1
    <3>1. next = uart.ranges[Channels[j]][2]
      BY <1>2, <2>1, <2>4, NextRead DEF next
    <3>2. 2 * j - 1 \in 1 .. read
      BY <1>2, <2>1, <2>4
    <3>3. local'.ranges[2 * j] = next
      BY <1>6, <2>4
    <3>4. local'.ranges[2 * j - 1] = uart.ranges[Channels[j]][1]
      BY <1>6, <2>2, <3>2
    <3>5. QED
      BY <3>1, <3>3, <3>4
  <2>5. CASE 2 * j <= read
    <3>1. 2 * j - 1 \in 1 .. read /\ 2 * j \in 1 .. read
      BY <1>2, <2>1, <2>5
    <3>2. QED
      BY <1>2, <1>6, <2>1, <2>2, <2>5, <3>1
  <2>6. CASE 2 * j - 1 > read + 1
    BY <1>2, <2>1, <2>6
  <2>7. 2 * j - 1 = read + 1 \/ 2 * j = read + 1 \/ 2 * j <= read
          \/ 2 * j - 1 > read + 1
    BY <1>2, <2>1
  <2>8. QED
    BY <2>3, <2>4, <2>5, <2>6, <2>7
<1>8. pc'["led1"] = "apply" => Len(local'.ranges) = 2 * Len(Channels)
  BY <1>1, <1>6
<1>9. pc'["led1"] = "ranges" => Len(local'.ranges) < 2 * Len(Channels)
  BY <1>1, <1>2, <1>6, SomeChannel
<1>10. pc'["led1"] # "publish"
  BY <1>1
<1>11. local' = [temp |-> local'.temp, ranges |-> local'.ranges]
  BY <1>5
<1>12. QED
  BY <1>6, <1>7, <1>8, <1>9, <1>10, <1>11 DEF ReadInv

LEMMA EmptyRead ==
  ASSUME NEW temp, local' = [temp |-> temp, ranges |-> <<>>],
         pc'["led1"] \in {"asleep", "publish"}
  PROVE  ReadInv'
BY DEF ReadInv

LEMMA ReadInvKept ==
  ASSUME SchedulerInv, CommandInv, ReadInv, [Next]_vars
  PROVE  ReadInv'
<1> USE ParcialAssumption
    DEF ReadInv, Read, CommandInv, SchedulerInv, Goes, Tasks, Inside
<1>1. ASSUME NEW t \in Tasks, Wakes(t)
      PROVE  ReadInv'
  BY <1>1 DEF Wakes
<1>2. ASSUME NEW t \in Tasks, Takes(t)
      PROVE  ReadInv'
  BY <1>2 DEF Takes
<1>3. ASSUME NEW t \in Tasks, TimesOut(t)
      PROVE  ReadInv'
  BY <1>3 DEF TimesOut
<1>4. CASE Led1Starts
  BY <1>4 DEF Led1Starts
<1>5. ASSUME NEW temp \in Temps, ReadNtc(temp)
      PROVE  ReadInv'
  <2>1. /\ local' = [temp |-> temp, ranges |-> <<>>]
        /\ pc'["led1"] = "publish"
    BY <1>5 DEF ReadNtc
  <2> HIDE DEF ReadInv
  <2>2. QED
    BY <2>1, EmptyRead
<1>6. CASE Publish
  BY <1>6, PublishKeeps
<1>7. CASE ReadBound
  BY <1>7, ReadBoundKeeps
<1>8. CASE ShowLed1
  <2>1. /\ local' = [temp |-> FirstTemp, ranges |-> <<>>]
        /\ pc'["led1"] = "asleep"
    BY <1>8 DEF ShowLed1
  <2> HIDE DEF ReadInv
  <2>2. QED
    BY <2>1, EmptyRead
<1>9. CASE Led2Starts
  BY <1>9 DEF Led2Starts
<1>10. ASSUME NEW gap \in Gaps, NEW level \in {0, 1},
             NEW threshold \in Thresholds, PollButton(gap, level, threshold)
      PROVE  ReadInv'
  BY <1>10 DEF PollButton
<1>11. CASE UartStarts
  BY <1>11 DEF UartStarts
<1>12. ASSUME NEW c \in Range(Channels), NEW r \in Ranges, SetTempMin(c, r)
      PROVE  ReadInv'
  BY <1>12 DEF SetTempMin, Executes
<1>13. CASE SetTempMax
  BY <1>13 DEF SetTempMax, Executes
<1>14. ASSUME NEW c \in Range(Channels), NEW l \in Limits, SetDutyMin(c, l)
      PROVE  ReadInv'
  BY <1>14 DEF SetDutyMin, Executes
<1>15. CASE SetDutyMax
  BY <1>15 DEF SetDutyMax, Executes
<1>16. ASSUME NEW u \in {"C", "F", "K"}, SetUnit(u)
      PROVE  ReadInv'
  BY <1>16 DEF SetUnit, Executes
<1>17. CASE Convert
  BY <1>17 DEF Convert, Executes
<1>18. CASE NameUnit
  BY <1>18 DEF NameUnit, Executes
<1>19. CASE Sent
  BY <1>19 DEF Sent
<1>20. CASE UartGives
  BY <1>20 DEF UartGives
<1>21. CASE FingerNext
  BY <1>21 DEF FingerNext, FingerMoves
<1>22. CASE UNCHANGED vars
  BY <1>22 DEF vars
<1>23. QED
  BY <1>1, <1>2, <1>3, <1>4, <1>5, <1>6, <1>7, <1>8, <1>9, <1>10, <1>11,
     <1>12, <1>13, <1>14, <1>15, <1>16, <1>17, <1>18, <1>19, <1>20, <1>21,
     <1>22
  DEF Next, Led1Next, Led2Next, UartNext

LEMMA ReadInvInit == Init => ReadInv
BY DEF Init, ReadInv, Tasks

\* LED 1 is set from ranges in force together although task_led1_temp reads
\* them without the mutex, and a printed temperature has the name of its unit.
THEOREM SettingsAreWhole == Spec => []SettingsWhole
<1>1. SchedulerInv /\ CommandInv /\ ReadInv => SettingsWhole
  <2> SUFFICES ASSUME SchedulerInv, CommandInv, ReadInv
               PROVE  SettingsWhole
    OBVIOUS
  <2>1. ASSUME pc["led1"] = "apply"
        PROVE  uart.command = <<>>
    BY <2>1 DEF SchedulerInv, CommandInv, Inside, Tasks
  <2>2. ASSUME pc["led1"] = "apply", NEW j \in 1 .. Len(Channels)
        PROVE  uart.ranges[Channels[j]]
                 = <<local.ranges[2 * j - 1], local.ranges[2 * j]>>
    <3>1. uart.ranges[Channels[j]] \in Int \X Int
      BY ChannelsInRange DEF CommandInv
    <3>2. 2 * j - 1 <= Len(local.ranges) /\ 2 * j <= Len(local.ranges)
      BY <2>2, ParcialAssumption DEF ReadInv
    <3>3. /\ local.ranges[2 * j - 1] = uart.ranges[Channels[j]][1]
          /\ local.ranges[2 * j] = uart.ranges[Channels[j]][2]
      BY <2>2, <3>2 DEF ReadInv, Read
    <3>4. QED
      BY <3>1, <3>3
  <2>3. QED
    BY <2>1, <2>2 DEF SettingsWhole, CommandInv
<1>2. Spec => [](SchedulerInv /\ CommandInv /\ ReadInv)
  BY SchedulerInvInit, SchedulerInvKept, CommandInvInit, CommandInvKept,
     ReadInvInit, ReadInvKept, PTL
  DEF Spec
<1>3. QED
  BY <1>1, <1>2, PTL

=============================================================================
