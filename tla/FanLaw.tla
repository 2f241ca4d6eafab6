------------------------------- MODULE FanLaw -------------------------------
(***************************************************************************)
(* The arithmetic of main/control_system.c: clamping of percentages and    *)
(* set points, the uint8_t conversion of JSON numbers in http_server.c,    *)
(* and the proportional fan law compute_fan_percent.                       *)
(*                                                                         *)
(* Temperatures are integers that count half degrees Celsius, so the       *)
(* constants of the code (0.5, 100.0, 120.0, ...) are exact; the rounding  *)
(* error of the C float is the abstraction made here.                      *)
(***************************************************************************)
EXTENDS Integers

Percent == 0 .. 100
Byte == 0 .. 255

DesiredMin == -40      \* -20.0 degrees, the lowest set point
DesiredMax == 200      \* 100.0 degrees, the highest set point
MaxTempCeil == 240     \* 120.0 degrees, the highest alarm threshold
Span == 1              \* 0.5 degrees between set point and threshold
SensorFloor == -400    \* -200.0 degrees, below it the fan law gives up

DesiredRange == DesiredMin .. DesiredMax
MaxTempRange == DesiredMin + Span .. MaxTempCeil

Clamp(v, lo, hi) == IF v < lo THEN lo ELSE IF v > hi THEN hi ELSE v

\* Mutant: a percentage that is not clamped
UnclampedPercent(v) == v

ClampPercent(v) == IF v > 100 THEN 100 ELSE v

\* (uint8_t) of a JSON valueint: the low eight bits
U8(v) == v % 256

ClampDesired(d) == Clamp(d, DesiredMin, DesiredMax)

\* Mutant: the threshold is clamped without regard to the set point
ClampMaxTempAlone(desired, m) == Clamp(m, DesiredMin + Span, MaxTempCeil)

ClampMaxTemp(desired, m) == Clamp(m, desired + Span, MaxTempCeil)

\* The threshold the law really uses: never closer than Span to the set point
EffectiveMax(desired, m) == IF m <= desired + Span THEN desired + Span ELSE m

\* Mutant: the conversion to uint8_t truncates
TruncatedPercent(num, den) == (100 * num) \div den

\* roundf(num * 100 / den) for num \in 0 .. den, den > 0: half rounds up
RoundedPercent(num, den) == (200 * num + den) \div (2 * den)

ComputeFan(temp, desired, m) ==
  LET top == EffectiveMax(desired, m)
  IN  CASE temp <= SensorFloor -> 0
        [] temp > SensorFloor /\ temp <= desired -> 0
        [] temp > SensorFloor /\ temp > desired /\ temp >= top -> 100
        [] OTHER -> RoundedPercent(temp - desired, top - desired)
=============================================================================
