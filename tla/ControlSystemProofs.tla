------------------------- MODULE ControlSystemProofs -------------------------
(* Theorems about ControlSystem, for every priority, every set of requests   *)
(* and readings, with or without faults: type correctness, sanity of the     *)
(* configuration, the actuators, the documented fan law, acknowledged        *)
(* settings that are in flash and survive a power cut, and the settings      *)
(* store that all of it implements.                                          *)
EXTENDS ControlSystem, TLAPS

-----------------------------------------------------------------------------
(* The arithmetic of FanLaw, for all integers.                              *)

LEMMA ClampInRange ==
  ASSUME NEW v \in Int, NEW lo \in Int, NEW hi \in Int, lo <= hi
  PROVE  Clamp(v, lo, hi) \in lo .. hi
BY DEF Clamp

LEMMA U8InByte ==
  ASSUME NEW v \in Int
  PROVE  U8(v) \in 0 .. 255
BY DEF U8

LEMMA ClampPercentInPercent ==
  ASSUME NEW v \in Nat
  PROVE  ClampPercent(v) \in Percent
BY DEF ClampPercent, Percent

LEMMA ClampPercentIdentity ==
  ASSUME NEW v \in Percent
  PROVE  ClampPercent(v) = v
BY DEF ClampPercent, Percent

LEMMA DesiredInRange ==
  ASSUME NEW d \in Int
  PROVE  ClampDesired(d) \in DesiredRange
<1>1. DesiredMin \in Int /\ DesiredMax \in Int /\ DesiredMin <= DesiredMax
  BY DEF DesiredMin, DesiredMax
<1>2. Clamp(d, DesiredMin, DesiredMax) \in DesiredMin .. DesiredMax
  BY <1>1, ClampInRange
<1>3. QED
  BY <1>2 DEF ClampDesired, DesiredRange

LEMMA MaxTempInRange ==
  ASSUME NEW desired \in DesiredRange, NEW m \in Int
  PROVE  ClampMaxTemp(desired, m) \in desired + Span .. MaxTempCeil
BY ClampInRange
   DEF ClampMaxTemp, DesiredRange, DesiredMin, DesiredMax, MaxTempCeil, Span

\* The quotient of the rounding division brackets its numerator.
LEMMA RoundedPercentBracket ==
  ASSUME NEW den \in Nat \ {0}, NEW num \in 0 .. den
  PROVE  /\ RoundedPercent(num, den) \in Int
         /\ 2 * den * RoundedPercent(num, den) <= 200 * num + den
         /\ 200 * num + den < 2 * den * RoundedPercent(num, den) + 2 * den
BY DEF RoundedPercent

LEMMA TimesMonotone ==
  ASSUME NEW k \in Nat, NEW a \in Int, NEW b \in Int, a <= b
  PROVE  k * a <= k * b
OBVIOUS

LEMMA RoundedPercentInPercent ==
  ASSUME NEW den \in Nat \ {0}, NEW num \in 0 .. den
  PROVE  RoundedPercent(num, den) \in Percent
<1> DEFINE q == RoundedPercent(num, den)
<1>1. /\ q \in Int
      /\ 2 * (den * q) <= 200 * num + den
      /\ 200 * num + den < 2 * (den * q) + 2 * den
  <2>1. 2 * den * q = 2 * (den * q) /\ q \in Int
    BY RoundedPercentBracket
  <2>2. QED
    BY <2>1, RoundedPercentBracket
<1>2. ASSUME q <= -1
      PROVE  FALSE
  <2>1. den * q <= den * (-1)
    BY <1>1, <1>2, TimesMonotone
  <2>2. QED
    BY <1>1, <2>1
<1>3. ASSUME q >= 101
      PROVE  FALSE
  <2>1. den * 101 <= den * q
    BY <1>1, <1>3, TimesMonotone
  <2>2. QED
    BY <1>1, <2>1
<1>4. QED
  BY <1>1, <1>2, <1>3 DEF Percent

\* The fan is driven with a percentage at every temperature and for every
\* pair of thresholds, sane or not.
THEOREM ComputeFanInPercent ==
  ASSUME NEW temp \in Int, NEW desired \in Int, NEW m \in Int
  PROVE  ComputeFan(temp, desired, m) \in Percent
<1> DEFINE top == EffectiveMax(desired, m)
<1>1. top \in Int /\ top >= desired + 1
  BY DEF EffectiveMax, Span
<1>2. CASE temp <= SensorFloor \/ temp <= desired
  <2>1. ComputeFan(temp, desired, m) = 0
    BY <1>2 DEF ComputeFan, SensorFloor
  <2>2. QED
    BY <2>1 DEF Percent
<1>3. CASE temp > SensorFloor /\ temp > desired /\ temp >= top
  <2>1. ComputeFan(temp, desired, m) = 100
    BY <1>3 DEF ComputeFan, SensorFloor
  <2>2. QED
    BY <2>1 DEF Percent
<1>4. CASE temp > SensorFloor /\ temp > desired /\ temp < top
  <2>1. ComputeFan(temp, desired, m)
          = RoundedPercent(temp - desired, top - desired)
    BY <1>1, <1>4 DEF ComputeFan, SensorFloor
  <2>2. top - desired \in Nat \ {0} /\ temp - desired \in 0 .. top - desired
    BY <1>1, <1>4
  <2>3. QED
    BY <2>1, <2>2, RoundedPercentInPercent
<1>5. QED
  BY <1>1, <1>2, <1>3, <1>4 DEF SensorFloor
LEMMA RoundedPercentMonotone ==
  ASSUME NEW den \in Nat \ {0}, NEW a \in 0 .. den, NEW b \in 0 .. den, a <= b
  PROVE  RoundedPercent(a, den) <= RoundedPercent(b, den)
<1> DEFINE p == RoundedPercent(a, den)
           q == RoundedPercent(b, den)
<1>1. p \in Int /\ q \in Int
  <2>1. p \in Percent
    BY RoundedPercentInPercent
  <2>2. q \in Percent
    BY RoundedPercentInPercent
  <2>3. QED
    BY <2>1, <2>2 DEF Percent
<1>2. 2 * (den * p) <= 200 * a + den
  <2>1. 2 * den * p = 2 * (den * p)
    BY <1>1
  <2>2. QED
    BY <2>1, RoundedPercentBracket
<1>3. 200 * b + den < 2 * (den * q) + 2 * den
  <2>1. 2 * den * q = 2 * (den * q)
    BY <1>1
  <2>2. QED
    BY <2>1, RoundedPercentBracket
<1>4. ASSUME p >= q + 1
      PROVE  FALSE
  <2>1. den * (q + 1) <= den * p
    BY <1>1, <1>4, TimesMonotone
  <2>2. den * (q + 1) = den * q + den
    BY <1>1
  <2>3. den * p \in Int /\ den * q \in Int
    BY <1>1
  <2>4. QED
    BY <1>2, <1>3, <2>1, <2>2, <2>3
<1>5. QED
  BY <1>1, <1>4

\* A warmer room never gets a slower fan while the settings stay the same.
THEOREM ComputeFanMonotone ==
  ASSUME NEW cold \in Int, NEW warm \in Int, cold <= warm,
         NEW desired \in Int, NEW m \in Int
  PROVE  ComputeFan(cold, desired, m) <= ComputeFan(warm, desired, m)
<1> DEFINE top == EffectiveMax(desired, m)
<1>1. top \in Int /\ top >= desired + 1
  BY DEF EffectiveMax, Span
<1>2. /\ ComputeFan(cold, desired, m) \in 0 .. 100
      /\ ComputeFan(warm, desired, m) \in 0 .. 100
  BY ComputeFanInPercent DEF Percent
<1>3. CASE cold <= SensorFloor \/ cold <= desired
  <2>1. ComputeFan(cold, desired, m) = 0
    BY <1>3 DEF ComputeFan, SensorFloor
  <2>2. QED
    BY <1>2, <2>1
<1>4. CASE cold > SensorFloor /\ cold > desired /\ warm >= top
  <2>1. ComputeFan(warm, desired, m) = 100
    BY <1>4 DEF ComputeFan, SensorFloor
  <2>2. QED
    BY <1>2, <2>1
<1>5. CASE cold > SensorFloor /\ cold > desired /\ warm < top
  <2>1. ComputeFan(cold, desired, m)
          = RoundedPercent(cold - desired, top - desired)
    BY <1>1, <1>5 DEF ComputeFan, SensorFloor
  <2>2. ComputeFan(warm, desired, m)
          = RoundedPercent(warm - desired, top - desired)
    BY <1>1, <1>5 DEF ComputeFan, SensorFloor
  <2>3. /\ top - desired \in Nat \ {0}
        /\ cold - desired \in 0 .. top - desired
        /\ warm - desired \in 0 .. top - desired
        /\ cold - desired <= warm - desired
    BY <1>1, <1>5
  <2>4. QED
    BY <2>1, <2>2, <2>3, RoundedPercentMonotone
<1>6. QED
  BY <1>1, <1>3, <1>4, <1>5 DEF SensorFloor

-----------------------------------------------------------------------------
(* The setters keep a configuration typed and sane. *)

LEMMA SetThermalSane ==
  ASSUME NEW c \in Config, Sane(c), NEW a \in Config
  PROVE  SetThermal(c, a) \in Config /\ Sane(SetThermal(c, a))
<1> DEFINE d == ClampDesired(a.desired)
           m == ClampMaxTemp(d, a.max)
           f == ClampPercent(a.mfan)
<1>1. d \in DesiredRange /\ d \in Int
  <2>1. a.desired \in Int
    BY DEF Config
  <2>2. d \in DesiredRange
    BY <2>1, DesiredInRange
  <2>3. QED
    BY <2>2 DEF DesiredRange, DesiredMin, DesiredMax
<1>2. m \in d + Span .. MaxTempCeil /\ m \in Int
  <2>1. a.max \in Int
    BY DEF Config
  <2>2. m \in d + Span .. MaxTempCeil
    BY <1>1, <2>1, MaxTempInRange
  <2>3. QED
    BY <1>1, <2>2 DEF Span, MaxTempCeil
<1>3. f \in Percent /\ f \in Byte
  <2>1. a.mfan \in Nat
    BY DEF Config, Byte
  <2>2. f \in Percent
    BY <2>1, ClampPercentInPercent
  <2>3. QED
    BY <2>2 DEF Percent, Byte
<1>4. SetThermal(c, a)
        = [c EXCEPT !.tmode = a.tmode, !.desired = d, !.max = m, !.mfan = f]
  BY DEF SetThermal
<1> HIDE DEF d, m, f
<1>5. SetThermal(c, a) \in Config
  BY <1>1, <1>2, <1>3, <1>4 DEF Config
<1>6. /\ SetThermal(c, a).desired = d
      /\ SetThermal(c, a).max = m
      /\ SetThermal(c, a).mfan = f
      /\ SetThermal(c, a).curtain = c.curtain
      /\ SetThermal(c, a).bright = c.bright
  BY <1>4 DEF Config
<1>7. QED
  BY <1>1, <1>2, <1>3, <1>5, <1>6 DEF Sane

LEMMA SetCurtainSane ==
  ASSUME NEW c \in Config, Sane(c), NEW mode \in Mode, NEW pct \in Byte
  PROVE  SetCurtain(c, mode, pct) \in Config /\ Sane(SetCurtain(c, mode, pct))
<1> DEFINE p == ClampPercent(pct)
<1>1. p \in Percent /\ p \in Byte
  <2>1. pct \in Nat
    BY DEF Byte
  <2>2. p \in Percent
    BY <2>1, ClampPercentInPercent
  <2>3. QED
    BY <2>2 DEF Percent, Byte
<1>2. SetCurtain(c, mode, pct) = [c EXCEPT !.cmode = mode, !.curtain = p]
  BY DEF SetCurtain
<1> HIDE DEF p
<1>3. QED
  BY <1>1, <1>2 DEF Config, Sane

LEMMA SetRgbSane ==
  ASSUME NEW c \in Config, Sane(c), NEW a \in Config
  PROVE  SetRgb(c, a) \in Config /\ Sane(SetRgb(c, a))
<1> DEFINE p == ClampPercent(a.bright)
<1>1. p \in Percent /\ p \in Byte
  <2>1. a.bright \in Nat
    BY DEF Config, Byte
  <2>2. p \in Percent
    BY <2>1, ClampPercentInPercent
  <2>3. QED
    BY <2>2 DEF Percent, Byte
<1>2. SetRgb(c, a) = [c EXCEPT !.colour = a.colour, !.bright = p]
  BY DEF SetRgb
<1> HIDE DEF p
<1>3. QED
  BY <1>1, <1>2 DEF Config, Sane

LEMMA DefaultConfigSane == DefaultConfig \in Config /\ Sane(DefaultConfig)
BY DataAssumption
   DEF DefaultConfig, Config, Sane, Mode, Byte, Percent, DesiredRange,
       DesiredMin, DesiredMax, MaxTempCeil, Span

\* A boot finds a sane configuration whatever the flash holds.
LEMMA LoadConfigSane ==
  ASSUME NEW b \in Config \cup {None}
  PROVE  LoadConfig(b) \in Config /\ Sane(LoadConfig(b))
<1>1. CASE b = None
  BY <1>1, DefaultConfigSane DEF LoadConfig
<1>2. CASE b # None
  <2>1. b \in Config /\ b.cmode \in Mode /\ b.curtain \in Byte
    BY <1>2 DEF Config
  <2> DEFINE c1 == SetThermal(DefaultConfig, b)
             c2 == SetCurtain(c1, b.cmode, b.curtain)
  <2>2. c1 \in Config /\ Sane(c1)
    BY <2>1, DefaultConfigSane, SetThermalSane
  <2>3. c2 \in Config /\ Sane(c2)
    BY <2>1, <2>2, SetCurtainSane
  <2>4. SetRgb(c2, b) \in Config /\ Sane(SetRgb(c2, b))
    BY <2>1, <2>3, SetRgbSane
  <2>5. LoadConfig(b) = SetRgb(c2, b)
    BY <1>2 DEF LoadConfig
  <2>6. QED
    BY <2>4, <2>5
<1>3. QED
  BY <1>1, <1>2

LEMMA OverlayTyped ==
  ASSUME NEW req \in Requests, NEW c \in Config
  PROVE  Overlay(req, c) \in Config
<1>1. ASSUME NEW v \in Int
      PROVE  U8(v) \in Byte
  BY U8InByte DEF Byte
<1>2. /\ req.tmode # Absent => req.tmode \in Mode
      /\ req.cmode # Absent => req.cmode \in Mode
      /\ req.colour # Absent => req.colour \in Colours
      /\ req.desired # Absent => req.desired \in Int
      /\ req.max # Absent => req.max \in Int
      /\ req.mfan # Absent => req.mfan \in Int
      /\ req.curtain # Absent => req.curtain \in Int
      /\ req.bright # Absent => req.bright \in Int
  BY RequestsAssumption
<1>3. QED
  BY <1>1, <1>2 DEF Overlay, Config

LEMMA LightTyped ==
  ASSUME NEW c \in Config
  PROVE  LightOf(c) \in Light
<1>1. c.bright \in Nat /\ c.colour \in Colours
  BY DEF Config, Byte
<1>2. ClampPercent(c.bright) \in Percent
  BY <1>1, ClampPercentInPercent
<1>3. QED
  BY <1>1, <1>2 DEF LightOf, Light

LEMMA TargetFanInPercent ==
  ASSUME NEW c \in Config, Sane(c), NEW temp \in Int
  PROVE  TargetFan(c, temp) \in Percent
<1>1. c.desired \in Int /\ c.max \in Int /\ c.mfan \in Percent
  BY DEF Config, Sane
<1>2. QED
  BY <1>1, ComputeFanInPercent DEF TargetFan
-----------------------------------------------------------------------------
(* The inductive invariant: types and sanity need one another, since the    *)
(* fan law's result is a percentage only for a sane manual percentage and   *)
(* an output only for a sane copy.                                          *)

IInv == TypeOK /\ ConfigSane

LEMMA BootOutTyped ==
  ASSUME NEW c \in Config, Sane(c)
  PROVE  BootOut(c) \in [fan : Percent, servo : Percent, light : Light,
                         led : BOOLEAN]
BY LightTyped DEF BootOut, Sane, Percent

LEMMA BootTyped ==
  /\ BootLive \in Live
  /\ BootPc \in [Tasks -> ControlLabels \cup HttpdLabels]
  /\ BootPc["control"] = "sleep" /\ BootPc["httpd"] = "idle"
  /\ BootSnap \in [Tasks -> Config \cup {None}]
BY DEF BootLive, Live, BootPc, BootSnap, Tasks, ControlLabels, HttpdLabels,
       Percent

LEMMA InitIInv == Init => IInv
<1> SUFFICES ASSUME Init
             PROVE  IInv
  OBVIOUS
<1>1. TypeOK
  BY DefaultConfigSane, BootOutTyped, BootTyped
     DEF Init, TypeOK, ControlLabels, HttpdLabels, Stages, Tasks
<1>2. ConfigSane
  BY DefaultConfigSane, BootTyped DEF Init, ConfigSane, Tasks
<1>3. QED
  BY <1>1, <1>2 DEF IInv

LEMMA PowerCutIInv == IInv /\ PowerCut => IInv'
<1> SUFFICES ASSUME IInv, PowerCut
             PROVE  IInv'
  OBVIOUS
<1>1. PICK survivor \in {blob, durable}, readable \in {TRUE, ~FlashFaults} :
        /\ blob' = survivor
        /\ durable' = survivor
        /\ cfg' = LoadConfig(IF readable THEN survivor ELSE None)
  BY DEF PowerCut
<1>2. survivor \in Config \cup {None} /\ (survivor # None => Sane(survivor))
  BY DEF IInv, TypeOK, ConfigSane
<1>3. cfg' \in Config /\ Sane(cfg')
  BY <1>1, <1>2, LoadConfigSane
<1>4. out' \in [fan : Percent, servo : Percent, light : Light, led : BOOLEAN]
  BY <1>3, BootOutTyped DEF PowerCut
<1>5. TypeOK'
  BY <1>1, <1>2, <1>3, <1>4, BootTyped
     DEF PowerCut, TypeOK, ControlLabels, HttpdLabels, Stages, Tasks
<1>6. ConfigSane'
  BY <1>1, <1>2, <1>3, BootTyped DEF PowerCut, ConfigSane, Tasks
<1>7. QED
  BY <1>5, <1>6 DEF IInv

-----------------------------------------------------------------------------
(* control_task *)

LEMMA ControlSampleIInv == IInv /\ ControlSample => IInv'
<1> SUFFICES ASSUME IInv, ControlSample
             PROVE  IInv'
  OBVIOUS
<1> USE DEF IInv
<1>1. cfg \in Config /\ Sane(cfg) /\ live.temp \in Int
  BY DEF TypeOK, ConfigSane, Live
<1>2. live' \in Live
  <2>1. PICK r \in Readings :
          LET valid == r # NoReading
              temp == IF valid THEN r ELSE live.temp
          IN  live' = [temp |-> temp, valid |-> valid,
                       fan |-> TargetFan(cfg, temp),
                       alarm |-> valid /\ temp > cfg.max]
    BY DEF ControlSample
  <2> DEFINE temp == IF r # NoReading THEN r ELSE live.temp
  <2>2. temp \in Int
    BY <1>1, ReadingsAssumption
  <2>3. TargetFan(cfg, temp) \in Percent
    BY <1>1, <2>2, TargetFanInPercent
  <2>4. live' = [temp |-> temp, valid |-> r # NoReading,
                 fan |-> TargetFan(cfg, temp),
                 alarm |-> r # NoReading /\ temp > cfg.max]
    BY <2>1
  <2> HIDE DEF temp
  <2>5. QED
    BY <2>2, <2>3, <2>4 DEF Live
<1>3. local' \in [cfg : Config, live : Live] /\ local'.cfg = cfg
  BY <1>1, <1>2 DEF ControlSample
<1>4. /\ pc' = [pc EXCEPT !["control"] = "act"]
      /\ UNCHANGED <<cfg, outVars, handlerVars, storeVars, synced, due>>
  BY DEF ControlSample, Goto
<1>5. TypeOK'
  BY <1>2, <1>3, <1>4
     DEF TypeOK, outVars, handlerVars, storeVars, ControlLabels, Tasks
<1>6. ConfigSane'
  BY <1>1, <1>3, <1>4
     DEF TypeOK, ConfigSane, storeVars, Tasks
<1>7. QED
  BY <1>5, <1>6

LEMMA ControlActuateIInv == IInv /\ ControlActuate => IInv'
<1> SUFFICES ASSUME IInv, ControlActuate
             PROVE  IInv'
  OBVIOUS
<1> USE DEF IInv
<1>1. local \in [cfg : Config, live : Live] /\ Sane(local.cfg)
  BY DEF TypeOK, ConfigSane, ControlActuate, At
<1>2. blink' \in BOOLEAN
  BY DEF ControlActuate, NextLevel
<1>3. out' \in [fan : Percent, servo : Percent, light : Light, led : BOOLEAN]
  <2>1. LightOf(local.cfg) \in Light
    BY <1>1, LightTyped
  <2>2. local.live.fan \in Percent /\ local.cfg.curtain \in Percent
    BY <1>1 DEF Live, Sane
  <2>3. /\ ClampPercent(local.live.fan) \in Percent
        /\ ClampPercent(local.cfg.curtain) \in Percent
    BY <2>2, ClampPercentIdentity
  <2>4. QED
    BY <1>2, <2>1, <2>3 DEF ControlActuate, DrivenOutputs
<1>4. /\ pc' = [pc EXCEPT !["control"] = "check"]
      /\ UNCHANGED <<stateVars, handlerVars, storeVars, ledState, synced, due>>
  BY DEF ControlActuate, Goto
<1>5. TypeOK'
  BY <1>2, <1>3, <1>4
     DEF TypeOK, stateVars, handlerVars, storeVars, ControlLabels, Tasks
<1>6. ConfigSane'
  BY <1>4 DEF TypeOK, ConfigSane, stateVars, storeVars, Tasks
<1>7. QED
  BY <1>5, <1>6

LEMMA NothingDueIInv == IInv /\ NothingDue => IInv'
<1> SUFFICES ASSUME IInv, NothingDue
             PROVE  IInv'
  OBVIOUS
<1>1. TypeOK'
  BY DEF IInv, NothingDue, Goto, TypeOK, stateVars, outVars, handlerVars,
         storeVars, ControlLabels, Tasks
<1>2. ConfigSane'
  BY DEF IInv, NothingDue, Goto, TypeOK, ConfigSane, stateVars, storeVars, Tasks
<1>3. QED
  BY <1>1, <1>2 DEF IInv

LEMMA ScheduleDueIInv == IInv /\ ScheduleDue => IInv'
<1> SUFFICES ASSUME IInv, ScheduleDue
             PROVE  IInv'
  OBVIOUS
<1>1. TypeOK'
  BY DEF IInv, ScheduleDue, Goto, TypeOK, stateVars, outVars, handlerVars,
         storeVars, ControlLabels, Tasks
<1>2. ConfigSane'
  BY DEF IInv, ScheduleDue, Goto, TypeOK, ConfigSane, stateVars, storeVars,
         Tasks
<1>3. QED
  BY <1>1, <1>2 DEF IInv

LEMMA ControlApplyIInv == IInv /\ ControlApply => IInv'
<1> SUFFICES ASSUME IInv, ControlApply
             PROVE  IInv'
  OBVIOUS
<1> USE DEF IInv
<1>1. due \in Byte
  BY DataAssumption DEF TypeOK, ControlApply, At
<1>2. cfg' \in Config /\ Sane(cfg')
  <2>1. cfg \in Config /\ Sane(cfg) /\ "auto" \in Mode
    BY DEF TypeOK, ConfigSane, Mode
  <2>2. QED
    BY <1>1, <2>1, SetCurtainSane DEF ControlApply
<1>3. /\ pc["control"] = "apply"
      /\ pc' = [pc EXCEPT !["control"] = "drive"]
      /\ UNCHANGED <<live, outVars, handlerVars, storeVars, synced, local, due>>
  BY DEF ControlApply, Goto, At
<1>4. TypeOK'
  BY <1>2, <1>3
     DEF TypeOK, outVars, handlerVars, storeVars, ControlLabels, Tasks
<1>5. ConfigSane'
  BY <1>2, <1>3 DEF TypeOK, ConfigSane, storeVars, Tasks
<1>6. QED
  BY <1>4, <1>5

LEMMA ControlDriveIInv == IInv /\ ControlDrive => IInv'
<1> SUFFICES ASSUME IInv, ControlDrive
             PROVE  IInv'
  OBVIOUS
<1> USE DEF IInv
<1>1. ClampPercent(due) \in Percent
  <2>1. due \in Nat
    BY DataAssumption DEF TypeOK, ControlDrive, At, Byte
  <2>2. QED
    BY <2>1, ClampPercentInPercent
<1>2. out' \in [fan : Percent, servo : Percent, light : Light, led : BOOLEAN]
  BY <1>1 DEF ControlDrive, TypeOK
<1>3. /\ pc' = [pc EXCEPT !["control"] = "open"]
      /\ UNCHANGED <<stateVars, blink, ledState, handlerVars, storeVars, synced,
                     local>>
  BY DEF ControlDrive, Goto
<1>4. TypeOK'
  BY <1>2, <1>3
     DEF TypeOK, stateVars, handlerVars, storeVars, ControlLabels, Tasks
<1>5. ConfigSane'
  BY <1>3 DEF TypeOK, ConfigSane, stateVars, storeVars, Tasks
<1>6. QED
  BY <1>4, <1>5
-----------------------------------------------------------------------------
(* The HTTP server task *)

LEMMA ControlRequestIInv ==
  ASSUME IInv, NEW req \in Requests, ControlRequest(req)
  PROVE  IInv'
<1> USE DEF IInv
<1>1. args' \in Config
  BY OverlayTyped DEF TypeOK, ControlRequest
<1>2. /\ pc' = [pc EXCEPT !["httpd"] = "apply"]
      /\ stage' = "thermal" /\ reply' = "none"
      /\ UNCHANGED <<stateVars, outVars, storeVars, synced, local, due>>
  BY DEF ControlRequest, Goto
<1>3. TypeOK'
  BY <1>1, <1>2
     DEF TypeOK, stateVars, outVars, storeVars, HttpdLabels, Stages, Tasks
<1>4. ConfigSane'
  BY <1>2 DEF TypeOK, ConfigSane, stateVars, storeVars, Tasks
<1>5. QED
  BY <1>3, <1>4

LEMMA HttpdApplyIInv == IInv /\ HttpdApply => IInv'
<1> SUFFICES ASSUME IInv, HttpdApply
             PROVE  IInv'
  OBVIOUS
<1> USE DEF IInv
<1>1. args \in Config /\ cfg \in Config /\ Sane(cfg)
  BY DEF TypeOK, ConfigSane, HttpdApply, At
<1>2. cfg' \in Config /\ Sane(cfg')
  <2>1. CASE stage = "thermal"
    BY <1>1, <2>1, SetThermalSane DEF HttpdApply
  <2>2. CASE stage = "curtain"
    <3>1. args.cmode \in Mode /\ args.curtain \in Byte
      BY <1>1 DEF Config
    <3>2. cfg' = SetCurtain(cfg, args.cmode, args.curtain)
      BY <2>2 DEF HttpdApply
    <3>3. QED
      BY <1>1, <3>1, <3>2, SetCurtainSane
  <2>3. CASE stage = "rgb"
    BY <1>1, <2>3, SetRgbSane DEF HttpdApply
  <2>4. QED
    BY <2>1, <2>2, <2>3 DEF TypeOK, Stages
<1>3. /\ pc["httpd"] # "idle"
      /\ pc' = [pc EXCEPT !["httpd"] =
                  IF stage = "thermal" THEN "open" ELSE "drive"]
      /\ UNCHANGED <<live, outVars, handlerVars, storeVars, synced, local, due>>
  BY DEF HttpdApply, Goto, At
<1>4. TypeOK'
  BY <1>2, <1>3
     DEF TypeOK, outVars, handlerVars, storeVars, HttpdLabels, Tasks
<1>5. ConfigSane'
  BY <1>2, <1>3 DEF TypeOK, ConfigSane, storeVars, Tasks
<1>6. QED
  BY <1>4, <1>5

LEMMA HttpdDriveIInv == IInv /\ HttpdDrive => IInv'
<1> SUFFICES ASSUME IInv, HttpdDrive
             PROVE  IInv'
  OBVIOUS
<1> USE DEF IInv
<1>1. pc["httpd"] # "idle" /\ args \in Config
  BY DEF TypeOK, HttpdDrive, At
<1>2. ClampPercent(args.curtain) \in Percent /\ LightOf(args) \in Light
  <2>1. args.curtain \in Nat
    BY <1>1 DEF Config, Byte
  <2>2. QED
    BY <1>1, <2>1, ClampPercentInPercent, LightTyped
<1>3. out' \in [fan : Percent, servo : Percent, light : Light, led : BOOLEAN]
  BY <1>2 DEF HttpdDrive, TypeOK
<1>4. /\ pc' = [pc EXCEPT !["httpd"] = "open"]
      /\ UNCHANGED <<stateVars, blink, ledState, handlerVars, storeVars, synced,
                     local, due>>
  BY DEF HttpdDrive, Goto
<1>5. TypeOK'
  BY <1>1, <1>3, <1>4
     DEF TypeOK, stateVars, handlerVars, storeVars, HttpdLabels, Tasks
<1>6. ConfigSane'
  BY <1>4 DEF TypeOK, ConfigSane, stateVars, storeVars, Tasks
<1>7. QED
  BY <1>5, <1>6

-----------------------------------------------------------------------------
(* Saving, by either task *)

LEMMA NvsEnterIInv ==
  ASSUME IInv, NEW t \in Tasks, NvsEnter(t)
  PROVE  IInv'
<1>1. TypeOK'
  BY DEF IInv, NvsEnter, TypeOK, stateVars, outVars, handlerVars
<1>2. ConfigSane'
  BY DEF IInv, NvsEnter, ConfigSane, stateVars
<1>3. QED
  BY <1>1, <1>2 DEF IInv

\* Returning from a setter moves the task's control state and nothing else.
LEMMA SetterReturnsTyped ==
  ASSUME TypeOK, NEW t \in Tasks, NEW ok \in BOOLEAN, SetterReturns(t, ok),
         pc[t] \in NvsCalls
  PROVE  /\ pc' \in [Tasks -> ControlLabels \cup HttpdLabels]
         /\ pc'["control"] \in ControlLabels
         /\ pc'["httpd"] \in HttpdLabels
         /\ \A u \in Tasks : pc'[u] = "blob" => pc[u] = "blob" /\ u # t
         /\ pc'["control"] = "act" => pc["control"] = "act"
         /\ pc'["control"] \in {"apply", "drive"} => pc'["control"] = pc["control"]
         /\ pc'["httpd"] # "idle" => args' = args /\ pc["httpd"] # "idle"
         /\ stage' \in Stages
         /\ reply' \in {"none", "200", "500"}
<1>1. CASE t = "control"
  BY <1>1 DEF SetterReturns, Goto, TypeOK, Tasks, ControlLabels, NvsCalls
<1>2. CASE t = "httpd" /\ ok /\ stage # "rgb"
  BY <1>2 DEF SetterReturns, Goto, TypeOK, Tasks, HttpdLabels, Stages, NvsCalls
<1>3. CASE t = "httpd" /\ ~(ok /\ stage # "rgb")
  BY <1>3 DEF SetterReturns, Goto, TypeOK, Tasks, HttpdLabels, Stages, NvsCalls
<1>4. QED
  BY <1>1, <1>2, <1>3 DEF Tasks

LEMMA NvsFailsIInv ==
  ASSUME IInv, NEW t \in Tasks, NvsFails(t)
  PROVE  IInv'
<1> USE DEF IInv
<1>1. /\ pc[t] \in NvsCalls
      /\ nvs' = "none"
      /\ snap' = [snap EXCEPT ![t] = None]
      /\ SetterReturns(t, FALSE)
      /\ UNCHANGED <<stateVars, outVars, synced, local, due, blob, durable>>
  BY DEF NvsFails
<1>2. /\ pc' \in [Tasks -> ControlLabels \cup HttpdLabels]
      /\ pc'["control"] \in ControlLabels
      /\ pc'["httpd"] \in HttpdLabels
      /\ \A u \in Tasks : pc'[u] = "blob" => pc[u] = "blob" /\ u # t
      /\ pc'["control"] = "act" => pc["control"] = "act"
      /\ pc'["control"] \in {"apply", "drive"} => pc'["control"] = pc["control"]
      /\ pc'["httpd"] # "idle" => args' = args /\ pc["httpd"] # "idle"
      /\ stage' \in Stages
      /\ reply' \in {"none", "200", "500"}
  BY <1>1, SetterReturnsTyped
<1>3. /\ snap' \in [Tasks -> Config \cup {None}]
      /\ \A u \in Tasks : pc'[u] = "blob" => snap'[u] = snap[u] /\ pc[u] = "blob"
  BY <1>1, <1>2 DEF TypeOK
<1>4. TypeOK'
  BY <1>1, <1>2, <1>3 DEF TypeOK, stateVars, outVars
<1>5. ConfigSane'
  BY <1>1, <1>2, <1>3 DEF ConfigSane, stateVars
<1>6. QED
  BY <1>4, <1>5

LEMMA NvsOpenIInv ==
  ASSUME IInv, NEW t \in Tasks, NvsOpen(t)
  PROVE  IInv'
<1>1. TypeOK'
  BY DEF IInv, NvsOpen, At, Goto, TypeOK, stateVars, outVars, handlerVars, Tasks,
         ControlLabels, HttpdLabels
<1>2. ConfigSane'
  BY DEF IInv, NvsOpen, At, Goto, TypeOK, ConfigSane, stateVars, Tasks
<1>3. QED
  BY <1>1, <1>2 DEF IInv

LEMMA SaveSnapshotIInv ==
  ASSUME IInv, NEW t \in Tasks, SaveSnapshot(t)
  PROVE  IInv'
<1>1. TypeOK'
  BY DEF IInv, SaveSnapshot, At, Goto, TypeOK, stateVars, outVars, handlerVars,
         Tasks, ControlLabels, HttpdLabels
<1>2. ConfigSane'
  BY DEF IInv, SaveSnapshot, At, Goto, TypeOK, ConfigSane, stateVars, Tasks
<1>3. QED
  BY <1>1, <1>2 DEF IInv

LEMMA NvsSetBlobIInv ==
  ASSUME IInv, NEW t \in Tasks, NvsSetBlob(t)
  PROVE  IInv'
<1>1. TypeOK'
  BY DEF IInv, NvsSetBlob, At, Goto, TypeOK, stateVars, outVars, handlerVars,
         Tasks, ControlLabels, HttpdLabels
<1>2. ConfigSane'
  BY DEF IInv, NvsSetBlob, At, Goto, TypeOK, ConfigSane, stateVars, Tasks
<1>3. QED
  BY <1>1, <1>2 DEF IInv

LEMMA NvsCommitIInv ==
  ASSUME IInv, NEW t \in Tasks, NvsCommit(t)
  PROVE  IInv'
<1> USE DEF IInv
<1>1. /\ pc[t] \in NvsCalls
      /\ nvs' = "none"
      /\ durable' = blob
      /\ SetterReturns(t, TRUE)
      /\ UNCHANGED <<stateVars, outVars, synced, local, due, snap, blob>>
  BY DEF NvsCommit, At, NvsCalls
<1>2. /\ pc' \in [Tasks -> ControlLabels \cup HttpdLabels]
      /\ pc'["control"] \in ControlLabels
      /\ pc'["httpd"] \in HttpdLabels
      /\ \A u \in Tasks : pc'[u] = "blob" => pc[u] = "blob" /\ u # t
      /\ pc'["control"] = "act" => pc["control"] = "act"
      /\ pc'["control"] \in {"apply", "drive"} => pc'["control"] = pc["control"]
      /\ pc'["httpd"] # "idle" => args' = args /\ pc["httpd"] # "idle"
      /\ stage' \in Stages
      /\ reply' \in {"none", "200", "500"}
  BY <1>1, SetterReturnsTyped
<1>3. TypeOK'
  BY <1>1, <1>2 DEF TypeOK, stateVars, outVars
<1>4. ConfigSane'
  BY <1>1, <1>2 DEF TypeOK, ConfigSane, stateVars
<1>5. QED
  BY <1>3, <1>4

LEMMA SaveConfigIInv ==
  ASSUME IInv, NEW t \in Tasks, SaveConfig(t)
  PROVE  IInv'
BY NvsEnterIInv, NvsFailsIInv, NvsOpenIInv, SaveSnapshotIInv, NvsSetBlobIInv,
   NvsCommitIInv DEF SaveConfig

-----------------------------------------------------------------------------
(* The environment *)

LEMMA ToggleLedIInv == IInv /\ ToggleLed => IInv'
<1> SUFFICES ASSUME IInv, ToggleLed
             PROVE  IInv'
  OBVIOUS
<1>1. TypeOK'
  BY ZenonT(30) DEF IInv, ToggleLed, TypeOK, stateVars, handlerVars, storeVars
<1>2. ConfigSane'
  BY DEF IInv, ToggleLed, ConfigSane, stateVars, storeVars
<1>3. QED
  BY <1>1, <1>2 DEF IInv

LEMMA WifiIInv ==
  IInv /\ (WifiShowsColour \/ WifiNvsEnter \/ WifiNvsLeave \/ TimeSync) => IInv'
<1> USE DEF IInv
<1>1. IInv /\ WifiShowsColour => IInv'
  <2> SUFFICES ASSUME IInv, WifiShowsColour
               PROVE  IInv'
    OBVIOUS
  <2>1. PICK c \in WifiColours :
          out' = [out EXCEPT !.light = [colour |-> c, bright |-> 100]]
    BY DEF WifiShowsColour
  <2>2. [colour |-> c, bright |-> 100] \in Light
    BY DEF Light, Percent
  <2>3. TypeOK'
    BY <2>1, <2>2
       DEF WifiShowsColour, TypeOK, stateVars, handlerVars, storeVars
  <2>4. ConfigSane'
    BY DEF WifiShowsColour, ConfigSane, stateVars, storeVars
  <2>5. QED
    BY <2>3, <2>4
<1>2. IInv /\ (WifiNvsEnter \/ WifiNvsLeave) => IInv'
  BY DEF WifiNvsEnter, WifiNvsLeave, TypeOK, ConfigSane, stateVars, outVars,
         handlerVars
<1>3. IInv /\ TimeSync => IInv'
  BY DEF TimeSync, TypeOK, ConfigSane, stateVars, outVars, handlerVars, storeVars
<1>4. QED
  BY <1>1, <1>2, <1>3

LEMMA StutterIInv == IInv /\ UNCHANGED vars => IInv'
BY DEF IInv, TypeOK, ConfigSane, vars

LEMMA NextIInv == IInv /\ [Next]_vars => IInv'
<1> SUFFICES ASSUME IInv, [Next]_vars
             PROVE  IInv'
  OBVIOUS
<1>1. CASE ControlStep
  <2>1. CASE SaveConfig("control")
    BY <2>1, SaveConfigIInv DEF Tasks
  <2>2. QED
    BY <1>1, <2>1, ControlSampleIInv, ControlActuateIInv, NothingDueIInv,
       ScheduleDueIInv, ControlApplyIInv, ControlDriveIInv DEF ControlStep
<1>2. CASE \E req \in Requests : ControlRequest(req)
  BY <1>2, ControlRequestIInv
<1>3. CASE HttpdStep
  <2>1. CASE SaveConfig("httpd")
    BY <2>1, SaveConfigIInv DEF Tasks
  <2>2. QED
    BY <1>3, <2>1, HttpdApplyIInv, HttpdDriveIInv DEF HttpdStep
<1>4. QED
  BY <1>1, <1>2, <1>3, ToggleLedIInv, WifiIInv, PowerCutIInv, StutterIInv
     DEF Next

\* Type correctness, for all constants.
THEOREM TypeCorrect == Spec => []TypeOK
<1>1. IInv => TypeOK
  BY DEF IInv
<1>2. QED
  BY <1>1, InitIInv, NextIInv, PTL DEF Spec

\* The configuration is sane in RAM, in every task's copy and in flash, for
\* all requests, priorities, faults and power cuts.
THEOREM ConfigAlwaysSane == Spec => []ConfigSane
<1>1. IInv => ConfigSane
  BY DEF IInv
<1>2. QED
  BY <1>1, InitIInv, NextIInv, PTL DEF Spec
-----------------------------------------------------------------------------
(* What control_task's priority is good for. While it is between the lock   *)
(* and the outputs, or between reading the curtain mode and set_curtain, it *)
(* does not block, so a server of lower priority cannot change s_state.     *)

PriorityInv ==
  /\ pc["control"] = "act" => local = [cfg |-> cfg, live |-> live]
  /\ pc["control"] = "apply" => cfg.cmode = "auto"

LEMMA LowerServerWaits ==
  ASSUME HttpdPrio < ControlPrio, MayRun("httpd")
  PROVE  pc["control"] \notin {"act", "apply"}
BY PriorityAssumption DEF MayRun, ControlBlocked, Asleep, NvsCalls

LEMMA SavePriorityInv ==
  ASSUME HttpdPrio < ControlPrio, TypeOK, PriorityInv, NEW t \in Tasks,
         SaveConfig(t)
  PROVE  PriorityInv'
<1>1. UNCHANGED <<cfg, live, local>>
  BY DEF SaveConfig, NvsEnter, NvsFails, NvsOpen, SaveSnapshot, NvsSetBlob,
         NvsCommit, stateVars
<1>2. pc'["control"] \in {"act", "apply"} => pc'["control"] = pc["control"]
  <2>1. CASE NvsEnter(t)
    BY <2>1 DEF NvsEnter
  <2>2. CASE NvsFails(t)
    BY <2>2 DEF NvsFails, SetterReturns, Goto, Tasks, TypeOK
  <2>3. CASE NvsOpen(t)
    BY <2>3 DEF NvsOpen, Goto, Tasks, TypeOK
  <2>4. CASE SaveSnapshot(t)
    BY <2>4 DEF SaveSnapshot, Goto, Tasks, TypeOK
  <2>5. CASE NvsSetBlob(t)
    BY <2>5 DEF NvsSetBlob, Goto, Tasks, TypeOK
  <2>6. CASE NvsCommit(t)
    BY <2>6 DEF NvsCommit, SetterReturns, Goto, Tasks, TypeOK
  <2>7. QED
    BY <2>1, <2>2, <2>3, <2>4, <2>5, <2>6 DEF SaveConfig
<1>3. QED
  BY <1>1, <1>2 DEF PriorityInv

LEMMA NextPriorityInv ==
  ASSUME HttpdPrio < ControlPrio
  PROVE  TypeOK /\ PriorityInv /\ [Next]_vars => PriorityInv'
<1> SUFFICES ASSUME TypeOK, PriorityInv, [Next]_vars
             PROVE  PriorityInv'
  OBVIOUS
<1> USE DEF Tasks
<1>1. CASE ControlStep
  <2>1. CASE ControlSample
    BY <2>1 DEF ControlSample, Goto, TypeOK, PriorityInv
  <2>2. CASE ControlActuate
    BY <2>2 DEF ControlActuate, Goto, TypeOK, PriorityInv
  <2>3. CASE NothingDue
    BY <2>3 DEF NothingDue, Goto, TypeOK, PriorityInv
  <2>4. CASE ScheduleDue
    BY <2>4 DEF ScheduleDue, Goto, TypeOK, PriorityInv, stateVars
  <2>5. CASE ControlApply
    BY <2>5 DEF ControlApply, Goto, TypeOK, PriorityInv
  <2>6. CASE ControlDrive
    BY <2>6 DEF ControlDrive, Goto, TypeOK, PriorityInv
  <2>7. QED
    BY <1>1, <2>1, <2>2, <2>3, <2>4, <2>5, <2>6, SavePriorityInv
       DEF ControlStep
<1>2. CASE \E req \in Requests : ControlRequest(req)
  BY <1>2 DEF ControlRequest, Goto, TypeOK, PriorityInv, stateVars
<1>3. CASE HttpdStep
  <2>1. CASE HttpdApply
    <3>1. pc["control"] \notin {"act", "apply"}
      BY <2>1, LowerServerWaits DEF HttpdApply, At
    <3>2. QED
      BY <2>1, <3>1 DEF HttpdApply, Goto, TypeOK, PriorityInv
  <2>2. CASE HttpdDrive
    BY <2>2 DEF HttpdDrive, Goto, TypeOK, PriorityInv, stateVars
  <2>3. QED
    BY <1>3, <2>1, <2>2, SavePriorityInv DEF HttpdStep
<1>4. CASE ToggleLed \/ WifiShowsColour \/ TimeSync
  BY <1>4 DEF ToggleLed, WifiShowsColour, TimeSync, PriorityInv, stateVars
<1>5. CASE WifiNvsEnter \/ WifiNvsLeave
  BY <1>5 DEF WifiNvsEnter, WifiNvsLeave, PriorityInv, stateVars
<1>6. CASE PowerCut
  BY <1>6, BootTyped DEF PowerCut, PriorityInv
<1>7. CASE UNCHANGED vars
  BY <1>7 DEF vars, PriorityInv
<1>8. QED
  BY <1>1, <1>2, <1>3, <1>4, <1>5, <1>6, <1>7 DEF Next

\* A manual choice of the curtain is never overridden by the agenda as long
\* as the server runs below control_task.
THEOREM ManualKept ==
  ASSUME HttpdPrio < ControlPrio
  PROVE  Spec => ManualNotOverridden
<1>1. Init => PriorityInv
  BY BootTyped DEF Init, PriorityInv
<1>2. TypeOK /\ PriorityInv /\ [Next]_vars => PriorityInv'
  BY NextPriorityInv
<1>3. PriorityInv /\ [Next]_vars
        => [pc["control"] = "apply" /\ pc'["control"] = "drive"
              => cfg.cmode = "auto"]_vars
  BY DEF PriorityInv
<1>4. QED
  BY <1>1, <1>2, <1>3, TypeCorrect, PTL DEF Spec, ManualNotOverridden

\* Only control_task's writing of the outputs takes it from "act" to "check".
LEMMA ActuatesAlone ==
  ASSUME TypeOK, [Next]_vars, pc["control"] = "act", pc'["control"] = "check"
  PROVE  ControlActuate
<1>1. \A t \in Tasks : SaveConfig(t) => pc'["control"] # "check"
  BY DEF TypeOK, SaveConfig, NvsEnter, NvsFails, NvsOpen, SaveSnapshot,
         NvsSetBlob, NvsCommit, SetterReturns, Goto, At, Tasks, NvsCalls
<1>2. ~ControlStep \/ ControlActuate
  BY <1>1
     DEF TypeOK, ControlStep, ControlSample, NothingDue, ScheduleDue,
         ControlApply, ControlDrive, Goto, At, Tasks
<1>3. \A req \in Requests : ~ControlRequest(req)
  BY DEF TypeOK, ControlRequest, Goto, Tasks
<1>4. ~HttpdStep
  BY <1>1 DEF TypeOK, HttpdStep, HttpdApply, HttpdDrive, Goto, Tasks
<1>5. ~(ToggleLed \/ WifiShowsColour \/ TimeSync \/ WifiNvsEnter
          \/ WifiNvsLeave \/ PowerCut \/ UNCHANGED vars)
  BY BootTyped
     DEF ToggleLed, WifiShowsColour, TimeSync, WifiNvsEnter, WifiNvsLeave,
         PowerCut, vars
<1>6. QED
  BY <1>2, <1>3, <1>4, <1>5 DEF Next

\* The outputs driven in a cycle are those of the state at that moment, as
\* long as the server runs below control_task.
THEOREM CopyIsCurrent ==
  ASSUME HttpdPrio < ControlPrio
  PROVE  Spec => ActuatesCurrentState
<1>1. Init => PriorityInv
  BY BootTyped DEF Init, PriorityInv
<1>2. TypeOK /\ PriorityInv /\ [Next]_vars => PriorityInv'
  BY NextPriorityInv
<1>3. ASSUME IInv, PriorityInv, [Next]_vars,
             pc["control"] = "act", pc'["control"] = "check"
      PROVE  /\ out'.servo = cfg.curtain
             /\ out'.light = LightOf(cfg)
             /\ out'.fan = live.fan
  <2>1. ControlActuate
    BY <1>3, ActuatesAlone DEF IInv
  <2>2. local.cfg = cfg /\ local.live = live
    BY <1>3 DEF PriorityInv
  <2>3. cfg.curtain \in Percent /\ live.fan \in Percent
    BY <1>3 DEF IInv, TypeOK, ConfigSane, Sane, Live
  <2>4. QED
    BY <2>1, <2>2, <2>3, ClampPercentIdentity DEF ControlActuate, DrivenOutputs
<1>4. IInv /\ PriorityInv /\ [Next]_vars
        => [pc["control"] = "act" /\ pc'["control"] = "check"
              => /\ out'.servo = cfg.curtain
                 /\ out'.light = LightOf(cfg)
                 /\ out'.fan = live.fan]_vars
  BY <1>3
<1>5. IInv => TypeOK
  BY DEF IInv
<1>6. QED
  BY <1>1, <1>2, <1>4, <1>5, InitIInv, NextIInv, PTL
     DEF Spec, ActuatesCurrentState

-----------------------------------------------------------------------------
(* The fan *)

\* The three clauses of the documented law, for a rise over the set point
\* and the range from the set point to the threshold
FanLaw(fan, rise, range) ==
  /\ rise <= 0 => fan = 0
  /\ rise >= range => fan = 100
  /\ rise \in 0 .. range => 2 * (fan * range - 100 * rise) \in -range .. range

LEMMA ComputeFanLawful ==
  ASSUME NEW temp \in Int, NEW desired \in DesiredRange, NEW m \in Int,
         m >= desired + Span
  PROVE  FanLaw(ComputeFan(temp, desired, m), temp - desired, m - desired)
<1> DEFINE fan == ComputeFan(temp, desired, m)
           rise == temp - desired
           range == m - desired
<1>1. /\ desired \in Int /\ desired >= -40
      /\ EffectiveMax(desired, m) = m
      /\ range \in Nat \ {0} /\ rise \in Int
  BY DEF DesiredRange, DesiredMin, DesiredMax, EffectiveMax, Span
<1>2. CASE rise <= 0
  <2>1. fan = 0
    BY <1>1, <1>2 DEF ComputeFan, SensorFloor
  <2>2. QED
    BY <1>1, <1>2, <2>1 DEF FanLaw
<1>3. CASE rise > 0 /\ rise >= range
  <2>1. fan = 100
    BY <1>1, <1>3 DEF ComputeFan, SensorFloor
  <2>2. QED
    BY <1>1, <1>3, <2>1 DEF FanLaw
<1>4. CASE rise > 0 /\ rise < range
  <2>1. fan = RoundedPercent(rise, range)
    BY <1>1, <1>4 DEF ComputeFan, SensorFloor
  <2>2. rise \in 0 .. range
    BY <1>1, <1>4
  <2>3. /\ fan \in Int
        /\ 2 * (fan * range) <= 200 * rise + range
        /\ 200 * rise + range < 2 * (fan * range) + 2 * range
    <3>1. fan \in Int
      BY <1>1, <2>1, <2>2, RoundedPercentBracket
    <3>2. 2 * range * fan = 2 * (fan * range)
      BY <1>1, <3>1
    <3>3. QED
      BY <1>1, <2>1, <2>2, <3>1, <3>2, RoundedPercentBracket
  <2>4. fan * range \in Int
    BY <1>1, <2>3
  <2>5. 2 * (fan * range - 100 * rise) \in -range .. range
    <3> HIDE DEF fan, rise, range
    <3>1. QED
      BY <1>1, <2>3, <2>4
  <2> HIDE DEF fan, rise, range
  <2>6. QED
    BY <1>1, <1>4, <2>5 DEF FanLaw, fan, rise, range
<1>5. QED
  BY <1>1, <1>2, <1>3, <1>4

\* control_task's copy holds the fan percentage of its own temperature and
\* settings, and an alarm only above the threshold
FanInv ==
  pc["control"] = "act" =>
    /\ local.live.fan = TargetFan(local.cfg, local.live.temp)
    /\ local.live.alarm => local.live.temp > local.cfg.max

LEMMA NextFanInv == TypeOK /\ FanInv /\ [Next]_vars => FanInv'
<1> SUFFICES ASSUME TypeOK, FanInv, [Next]_vars
             PROVE  FanInv'
  OBVIOUS
<1> USE DEF Tasks
<1>1. CASE ControlSample
  <2>1. PICK r \in Readings :
          LET valid == r # NoReading
              temp == IF valid THEN r ELSE live.temp
          IN  live' = [temp |-> temp, valid |-> valid,
                       fan |-> TargetFan(cfg, temp),
                       alarm |-> valid /\ temp > cfg.max]
    BY <1>1 DEF ControlSample
  <2>2. live'.fan = TargetFan(cfg, live'.temp)
    BY <2>1
  <2>3. live'.alarm => live'.temp > cfg.max
    BY <2>1
  <2>4. local'.cfg = cfg /\ local'.live = live'
    BY <1>1 DEF ControlSample
  <2>5. QED
    BY <2>2, <2>3, <2>4 DEF FanInv
<1>2. ASSUME NEW t \in Tasks, SaveConfig(t)
      PROVE  local' = local /\ (pc'["control"] = "act" => pc["control"] = "act")
  BY <1>2
     DEF SaveConfig, NvsEnter, NvsFails, NvsOpen, SaveSnapshot, NvsSetBlob,
         NvsCommit, SetterReturns, Goto, TypeOK
<1>3. CASE ControlStep /\ ~ControlSample
  <2>1. CASE SaveConfig("control")
    BY <1>2, <2>1 DEF FanInv
  <2>2. CASE ControlActuate \/ NothingDue \/ ScheduleDue \/ ControlApply
               \/ ControlDrive
    BY <2>2
       DEF ControlActuate, NothingDue, ScheduleDue, ControlApply, ControlDrive,
           Goto, TypeOK, FanInv
  <2>3. QED
    BY <1>3, <2>1, <2>2 DEF ControlStep
<1>4. CASE \E req \in Requests : ControlRequest(req)
  BY <1>4 DEF ControlRequest, Goto, TypeOK, FanInv
<1>5. CASE HttpdStep
  <2>1. CASE SaveConfig("httpd")
    BY <1>2, <2>1 DEF FanInv
  <2>2. CASE HttpdApply \/ HttpdDrive
    BY <2>2 DEF HttpdApply, HttpdDrive, Goto, TypeOK, FanInv
  <2>3. QED
    BY <1>5, <2>1, <2>2 DEF HttpdStep
<1>6. CASE ToggleLed \/ WifiShowsColour \/ TimeSync \/ WifiNvsEnter
             \/ WifiNvsLeave \/ UNCHANGED vars
  BY <1>6
     DEF ToggleLed, WifiShowsColour, TimeSync, WifiNvsEnter, WifiNvsLeave,
         vars, FanInv
<1>7. CASE PowerCut
  BY <1>7, BootTyped DEF PowerCut, FanInv
<1>8. QED
  BY <1>1, <1>3, <1>4, <1>5, <1>6, <1>7 DEF Next

\* Whatever the settings, the temperatures and the interleaving, control_task
\* drives the fan by the documented law.
THEOREM FanLawKept == Spec => FanFollowsTemperature
<1>1. Init => FanInv
  BY BootTyped DEF Init, FanInv
<1>2. TypeOK /\ FanInv /\ [Next]_vars => FanInv'
  BY NextFanInv
<1>3. ASSUME IInv, FanInv, [Next]_vars,
             pc["control"] = "act", pc'["control"] = "check",
             local.cfg.tmode = "auto"
      PROVE  LET rise == local.live.temp - local.cfg.desired
                 range == local.cfg.max - local.cfg.desired
             IN  /\ rise <= 0 => out'.fan = 0
                 /\ rise >= range => out'.fan = 100
                 /\ rise \in 0 .. range =>
                      2 * (out'.fan * range - 100 * rise) \in -range .. range
                 /\ out'.led => out'.fan = 100
  <2> DEFINE temp == local.live.temp
             desired == local.cfg.desired
             top == local.cfg.max
             fan == ComputeFan(temp, desired, top)
  <2>1. ControlActuate
    BY <1>3, ActuatesAlone DEF IInv
  <2>2. temp \in Int /\ desired \in DesiredRange /\ desired \in Int
          /\ top \in Int /\ top >= desired + Span
    <3>1. local.cfg \in Config /\ local.live \in Live /\ Sane(local.cfg)
      BY <1>3 DEF IInv, TypeOK, ConfigSane
    <3>2. QED
      BY <3>1 DEF Config, Live, Sane, Span, MaxTempCeil
  <2>3. local.live.fan = fan
    BY <1>3 DEF FanInv, TargetFan
  <2>4. out'.fan = fan
    <3>1. fan \in Percent
      BY <2>2, ComputeFanInPercent
    <3>2. out'.fan = ClampPercent(fan)
      BY <2>1, <2>3 DEF ControlActuate, DrivenOutputs
    <3>3. QED
      BY <3>1, <3>2, ClampPercentIdentity
  <2>5. FanLaw(out'.fan, temp - desired, top - desired)
    BY <2>2, <2>4, ComputeFanLawful
  <2>6. out'.led => temp > top
    BY <1>3, <2>1 DEF FanInv, ControlActuate, DrivenOutputs, NextLevel
  <2>7. temp > top => temp - desired >= top - desired
    BY <2>2
  <2>8. QED
    BY <2>5, <2>6, <2>7 DEF FanLaw
<1>4. IInv /\ FanInv /\ [Next]_vars
        => [pc["control"] = "act" /\ pc'["control"] = "check"
              /\ local.cfg.tmode = "auto"
             => LET rise == local.live.temp - local.cfg.desired
                    range == local.cfg.max - local.cfg.desired
                IN  /\ rise <= 0 => out'.fan = 0
                    /\ rise >= range => out'.fan = 100
                    /\ rise \in 0 .. range =>
                         2 * (out'.fan * range - 100 * rise) \in -range .. range
                    /\ out'.led => out'.fan = 100]_vars
  BY <1>3
<1>5. IInv => TypeOK
  BY DEF IInv
<1>6. QED
  BY <1>1, <1>2, <1>4, <1>5, InitIInv, NextIInv, PTL
     DEF Spec, FanFollowsTemperature

-----------------------------------------------------------------------------
(* The alarm *)

\* Without POST /toogle_led.json the pin shows alarm_gpio_level.
BlinkInv == out.led = blink

LEMMA NextBlinkInv ==
  ASSUME ~LedToggles, TypeOK, BlinkInv, [Next]_vars
  PROVE  BlinkInv'
<1>1. out.led \in BOOLEAN /\ out = [fan |-> out.fan, servo |-> out.servo,
                                    light |-> out.light, led |-> out.led]
  BY DEF TypeOK
<1>2. ASSUME NEW t \in Tasks, SaveConfig(t)
      PROVE  UNCHANGED <<out, blink>>
  BY <1>2
     DEF SaveConfig, NvsEnter, NvsFails, NvsOpen, SaveSnapshot, NvsSetBlob,
         NvsCommit, outVars
<1>3. CASE ControlStep
  <2>1. CASE SaveConfig("control")
    BY <1>2, <2>1 DEF BlinkInv, Tasks
  <2>2. CASE ControlActuate
    <3>1. out'.led = blink'
      BY <1>1, <2>2 DEF ControlActuate, DrivenOutputs
    <3>2. QED
      BY <3>1 DEF BlinkInv
  <2>3. CASE ControlDrive
    BY <1>1, <2>3 DEF ControlDrive, BlinkInv
  <2>4. CASE ControlSample \/ NothingDue \/ ScheduleDue \/ ControlApply
    BY <2>4
       DEF ControlSample, NothingDue, ScheduleDue, ControlApply, outVars, BlinkInv
  <2>5. QED
    BY <1>3, <2>1, <2>2, <2>3, <2>4 DEF ControlStep
<1>4. CASE \E req \in Requests : ControlRequest(req)
  BY <1>4 DEF ControlRequest, outVars, BlinkInv
<1>5. CASE HttpdStep
  <2>1. CASE SaveConfig("httpd")
    BY <1>2, <2>1 DEF BlinkInv, Tasks
  <2>2. CASE HttpdApply
    BY <2>2 DEF HttpdApply, outVars, BlinkInv
  <2>3. CASE HttpdDrive
    BY <1>1, <2>3 DEF HttpdDrive, BlinkInv
  <2>4. QED
    BY <1>5, <2>1, <2>2, <2>3 DEF HttpdStep
<1>6. CASE ToggleLed
  BY <1>6 DEF ToggleLed
<1>7. CASE WifiShowsColour
  BY <1>1, <1>7 DEF WifiShowsColour, BlinkInv
<1>8. CASE TimeSync \/ WifiNvsEnter \/ WifiNvsLeave \/ UNCHANGED vars
  BY <1>8 DEF TimeSync, WifiNvsEnter, WifiNvsLeave, vars, outVars, BlinkInv
<1>9. CASE PowerCut
  BY <1>9 DEF PowerCut, BootOut, BlinkInv
<1>10. QED
  BY <1>3, <1>4, <1>5, <1>6, <1>7, <1>8, <1>9 DEF Next

\* While the alarm lasts the LED changes in every cycle of control_task, for
\* all readings, requests and power cuts, as long as nobody toggles it.
THEOREM AlarmKeepsBlinking ==
  ASSUME ~LedToggles
  PROVE  Spec => AlarmBlinks
<1>1. Init => BlinkInv
  <2> SUFFICES ASSUME Init
               PROVE  BlinkInv
    OBVIOUS
  <2>1. out = BootOut(cfg) /\ blink = FALSE
    BY DEF Init
  <2>2. QED
    BY <2>1 DEF BootOut, BlinkInv
<1>2. TypeOK /\ BlinkInv /\ [Next]_vars => BlinkInv'
  BY NextBlinkInv
<1>3. ASSUME TypeOK, BlinkInv, [Next]_vars,
             pc["control"] = "act", pc'["control"] = "check", local.live.alarm
      PROVE  out'.led = ~out.led
  <2>1. ControlActuate
    BY <1>3, ActuatesAlone
  <2>2. blink' = NextLevel(local.live.alarm, blink)
    BY <2>1 DEF ControlActuate
  <2>3. local.live.alarm \in BOOLEAN /\ blink \in BOOLEAN
    BY <1>3 DEF TypeOK, Live
  <2>4. out'.led = blink'
    BY <2>1 DEF ControlActuate, DrivenOutputs
  <2>5. QED
    BY <1>3, <2>2, <2>3, <2>4 DEF NextLevel, BlinkInv
<1>4. TypeOK /\ BlinkInv /\ [Next]_vars
        => [pc["control"] = "act" /\ pc'["control"] = "check"
              /\ local.live.alarm
             => out'.led = ~out.led]_vars
  BY <1>3
<1>5. QED
  BY <1>1, <1>2, <1>4, TypeCorrect, PTL DEF Spec, AlarmBlinks

-----------------------------------------------------------------------------
(* An acknowledged setting is in flash *)

\* The handler has written s_state and will save what it wrote, or has done so
HttpdSaving ==
  \/ pc["httpd"] \in {"snap", "blob", "commit"}
  \/ pc["httpd"] = "open" /\ nvs = "httpd"
  \/ pc["httpd"] = "idle" /\ reply = "200"

\* From the moment the handler gets the NVS lock for its save, everything on
\* its way to flash agrees with s_state, curtain position excepted.  The lock
\* is what it waits for while control_task finishes a save begun before.
DurableInv ==
  /\ nvs = "httpd" => pc["httpd"] \in NvsCalls
  /\ HttpdSaving /\ pc["control"] = "blob" => SameButCurtain(snap["control"], cfg)
  /\ pc["httpd"] = "blob" => SameButCurtain(snap["httpd"], cfg)
  /\ pc["httpd"] = "commit" => blob # None /\ SameButCurtain(blob, cfg)
  /\ pc["httpd"] = "idle" /\ reply = "200"
       => /\ blob # None /\ SameButCurtain(blob, cfg)
          /\ durable # None /\ SameButCurtain(durable, cfg)

\* An agenda entry changes a configuration in automatic mode by its curtain
\* position only.
LEMMA AgendaSetsCurtainOnly ==
  ASSUME NEW c \in Config, c.cmode = "auto", NEW pct, NEW d,
         SameButCurtain(d, c)
  PROVE  SameButCurtain(d, SetCurtain(c, "auto", pct))
<1> DEFINE p == ClampPercent(pct)
<1>1. SetCurtain(c, "auto", pct) = [c EXCEPT !.cmode = "auto", !.curtain = p]
  BY DEF SetCurtain
<1> HIDE DEF p
<1>2. [SetCurtain(c, "auto", pct) EXCEPT !.curtain = 0] = [c EXCEPT !.curtain = 0]
  BY <1>1 DEF Config
<1>3. QED
  BY <1>2 DEF SameButCurtain

\* A handler of lower priority gets the lock only while control_task sleeps.
LEMMA HttpdEntersWhileAsleep ==
  ASSUME HttpdPrio < ControlPrio, NvsEnter("httpd")
  PROVE  pc["control"] = "sleep"
BY PriorityAssumption DEF NvsEnter, MayRun, ControlBlocked, Asleep

LEMMA ControlSaveDurableInv ==
  TypeOK /\ DurableInv /\ SaveConfig("control") => DurableInv'
<1> SUFFICES ASSUME TypeOK, DurableInv, SaveConfig("control")
             PROVE  DurableInv'
  OBVIOUS
<1> USE DEF Tasks, NvsCalls
<1>1. CASE NvsEnter("control")
  BY <1>1
     DEF NvsEnter, TypeOK, DurableInv, HttpdSaving, stateVars, handlerVars
<1>2. CASE NvsFails("control")
  BY <1>2
     DEF NvsFails, SetterReturns, Goto, TypeOK, DurableInv, HttpdSaving,
         stateVars
<1>3. CASE NvsOpen("control")
  BY <1>3
     DEF NvsOpen, Goto, TypeOK, DurableInv, HttpdSaving, stateVars, handlerVars
<1>4. CASE SaveSnapshot("control")
  BY <1>4
     DEF SaveSnapshot, Goto, At, TypeOK, DurableInv, HttpdSaving, SameButCurtain,
         stateVars, handlerVars
<1>5. CASE NvsSetBlob("control")
  <2>1. snap["control"] # None
    BY <1>5, NoneAssumption DEF NvsSetBlob, At, TypeOK
  <2>2. QED
    BY <1>5, <2>1
       DEF NvsSetBlob, Goto, At, TypeOK, DurableInv, HttpdSaving, stateVars,
           handlerVars
<1>6. CASE NvsCommit("control")
  BY <1>6
     DEF NvsCommit, SetterReturns, Goto, TypeOK, DurableInv, HttpdSaving,
         stateVars
<1>7. QED
  BY <1>1, <1>2, <1>3, <1>4, <1>5, <1>6 DEF SaveConfig

LEMMA HttpdSaveDurableInv ==
  ASSUME HttpdPrio < ControlPrio
  PROVE  TypeOK /\ DurableInv /\ SaveConfig("httpd") => DurableInv'
<1> SUFFICES ASSUME TypeOK, DurableInv, SaveConfig("httpd")
             PROVE  DurableInv'
  OBVIOUS
<1> USE DEF Tasks, NvsCalls
<1>1. CASE NvsEnter("httpd")
  <2>1. pc["control"] = "sleep"
    BY <1>1, HttpdEntersWhileAsleep
  <2>2. QED
    BY <1>1, <2>1
       DEF NvsEnter, TypeOK, DurableInv, HttpdSaving, stateVars, handlerVars
<1>2. CASE NvsFails("httpd")
  BY <1>2
     DEF NvsFails, SetterReturns, Goto, TypeOK, DurableInv, HttpdSaving,
         stateVars
<1>3. CASE NvsOpen("httpd")
  BY <1>3
     DEF NvsOpen, Goto, At, TypeOK, DurableInv, HttpdSaving, stateVars,
         handlerVars
<1>4. CASE SaveSnapshot("httpd")
  BY <1>4
     DEF SaveSnapshot, Goto, At, TypeOK, DurableInv, HttpdSaving, SameButCurtain,
         stateVars, handlerVars
<1>5. CASE NvsSetBlob("httpd")
  <2>1. snap["httpd"] # None
    BY <1>5, NoneAssumption DEF NvsSetBlob, At, TypeOK
  <2>2. QED
    BY <1>5, <2>1
       DEF NvsSetBlob, Goto, At, TypeOK, DurableInv, HttpdSaving, stateVars,
           handlerVars
<1>6. CASE NvsCommit("httpd")
  BY <1>6
     DEF NvsCommit, SetterReturns, Goto, At, TypeOK, DurableInv, HttpdSaving,
         stateVars
<1>7. QED
  BY <1>1, <1>2, <1>3, <1>4, <1>5, <1>6 DEF SaveConfig

LEMMA NextDurableInv ==
  ASSUME HttpdPrio < ControlPrio
  PROVE  TypeOK /\ PriorityInv /\ DurableInv /\ [Next]_vars => DurableInv'
<1> SUFFICES ASSUME TypeOK, PriorityInv, DurableInv, [Next]_vars
             PROVE  DurableInv'
  OBVIOUS
<1> USE DEF Tasks
<1>1. CASE ControlStep
  <2>1. CASE ControlSample \/ ControlActuate \/ NothingDue \/ ScheduleDue
               \/ ControlDrive
    <3>1. /\ UNCHANGED <<cfg, handlerVars, storeVars>>
          /\ pc'["httpd"] = pc["httpd"] /\ pc'["control"] # "blob"
      BY <2>1
         DEF ControlSample, ControlActuate, NothingDue, ScheduleDue,
             ControlDrive, Goto, TypeOK, stateVars
    <3>2. QED
      BY <3>1 DEF DurableInv, HttpdSaving, handlerVars, storeVars
  <2>2. CASE ControlApply
    <3>1. cfg \in Config /\ cfg.cmode = "auto"
      BY <2>2 DEF ControlApply, At, TypeOK, PriorityInv
    <3>2. /\ cfg' = SetCurtain(cfg, "auto", due)
          /\ UNCHANGED <<handlerVars, storeVars>>
          /\ pc'["httpd"] = pc["httpd"] /\ pc'["control"] = "drive"
      BY <2>2 DEF ControlApply, Goto, TypeOK
    <3>3. \A d : SameButCurtain(d, cfg) => SameButCurtain(d, cfg')
      BY <3>1, <3>2, AgendaSetsCurtainOnly
    <3>4. QED
      BY <3>2, <3>3 DEF DurableInv, HttpdSaving, handlerVars, storeVars
  <2>3. QED
    BY <1>1, <2>1, <2>2, ControlSaveDurableInv DEF ControlStep
<1>2. CASE \E req \in Requests : ControlRequest(req)
  BY <1>2
     DEF ControlRequest, Goto, At, TypeOK, DurableInv, HttpdSaving, NvsCalls,
         stateVars, storeVars
<1>3. CASE HttpdStep
  <2>1. CASE HttpdApply \/ HttpdDrive
    <3>1. /\ pc["httpd"] \in {"apply", "drive"}
          /\ pc'["httpd"] \in {"open", "drive"}
          /\ UNCHANGED nvs
      BY <2>1 DEF HttpdApply, HttpdDrive, Goto, At, TypeOK, storeVars
    <3>2. nvs' # "httpd"
      BY <3>1 DEF DurableInv, NvsCalls
    <3>3. QED
      BY <3>1, <3>2 DEF DurableInv, HttpdSaving
  <2>2. QED
    BY <1>3, <2>1, HttpdSaveDurableInv DEF HttpdStep
<1>4. CASE ToggleLed \/ WifiShowsColour \/ TimeSync \/ UNCHANGED vars
  BY <1>4
     DEF ToggleLed, WifiShowsColour, TimeSync, DurableInv, HttpdSaving, vars,
         stateVars, handlerVars, storeVars
<1>5. CASE WifiNvsEnter \/ WifiNvsLeave
  BY <1>5
     DEF WifiNvsEnter, WifiNvsLeave, DurableInv, HttpdSaving, stateVars,
         handlerVars
<1>6. CASE PowerCut
  BY <1>6, BootTyped DEF PowerCut, DurableInv, HttpdSaving
<1>7. QED
  BY <1>1, <1>2, <1>3, <1>4, <1>5, <1>6 DEF Next

\* An answer of 200 means that the settings are committed to flash, whatever
\* else has been saved meanwhile, as long as the server runs below
\* control_task.
THEOREM AckMeansDurable ==
  ASSUME HttpdPrio < ControlPrio
  PROVE  Spec => []AckedSettingsDurable
<1>1. Init => PriorityInv /\ DurableInv
  BY BootTyped DEF Init, PriorityInv, DurableInv, HttpdSaving
<1>2. TypeOK /\ PriorityInv /\ [Next]_vars => PriorityInv'
  BY NextPriorityInv
<1>3. TypeOK /\ PriorityInv /\ DurableInv /\ [Next]_vars => DurableInv'
  BY NextDurableInv
<1>4. DurableInv => AckedSettingsDurable
  BY DEF DurableInv, AckedSettingsDurable
<1>5. QED
  BY <1>1, <1>2, <1>3, <1>4, TypeCorrect, PTL DEF Spec

-----------------------------------------------------------------------------
(* An acknowledged setting survives a loss of power *)

\* What the three setters make of any configuration, field by field
LEMMA LoadedFields ==
  ASSUME NEW c \in Config
  PROVE  LET w == LoadConfig(c)
         IN  /\ w \in Config /\ Sane(w)
             /\ w.tmode = c.tmode /\ w.desired = ClampDesired(c.desired)
             /\ w.max = ClampMaxTemp(ClampDesired(c.desired), c.max)
             /\ w.mfan = ClampPercent(c.mfan) /\ w.cmode = c.cmode
             /\ w.colour = c.colour /\ w.bright = ClampPercent(c.bright)
             /\ w.curtain = ClampPercent(c.curtain)
<1>1. LoadConfig(c) \in Config /\ Sane(LoadConfig(c))
  BY LoadConfigSane
<1>2. c # None
  BY NoneAssumption
<1> DEFINE d == ClampDesired(c.desired)
           m == ClampMaxTemp(d, c.max)
           p == ClampPercent(c.mfan)
           q == ClampPercent(c.curtain)
           b == ClampPercent(c.bright)
           t == [DefaultConfig EXCEPT !.tmode = c.tmode, !.desired = d, !.max = m,
                                      !.mfan = p]
           u == [t EXCEPT !.cmode = c.cmode, !.curtain = q]
           v == [u EXCEPT !.colour = c.colour, !.bright = b]
<1>3. LoadConfig(c) = v
  BY <1>2 DEF LoadConfig, SetThermal, SetCurtain, SetRgb
<1> HIDE DEF d, m, p, q, b
<1>4. /\ v.tmode = c.tmode /\ v.desired = d /\ v.max = m /\ v.mfan = p
      /\ v.cmode = c.cmode /\ v.curtain = q /\ v.colour = c.colour
      /\ v.bright = b
  BY DEF DefaultConfig
<1> HIDE DEF v
<1> QED BY <1>1, <1>3, <1>4 DEF d, m, p, q, b

\* A configuration is its fields.
LEMMA SameConfig ==
  ASSUME NEW c \in Config, NEW d \in Config,
         c.tmode = d.tmode, c.desired = d.desired, c.max = d.max,
         c.mfan = d.mfan, c.cmode = d.cmode, c.curtain = d.curtain,
         c.colour = d.colour, c.bright = d.bright
  PROVE  c = d
BY DEF Config

\* A boot leaves a sane configuration as it is: clamping changes nothing.
LEMMA LoadSane ==
  ASSUME NEW c \in Config, Sane(c)
  PROVE  LoadConfig(c) = c
<1>1. /\ c.desired \in Int /\ c.max \in Int
      /\ ClampDesired(c.desired) = c.desired
      /\ ClampMaxTemp(c.desired, c.max) = c.max
  BY DEF Config, Sane, ClampDesired, ClampMaxTemp, Clamp, DesiredRange,
         DesiredMin, DesiredMax, MaxTempCeil, Span
<1>2. /\ ClampPercent(c.mfan) = c.mfan
      /\ ClampPercent(c.curtain) = c.curtain
      /\ ClampPercent(c.bright) = c.bright
  BY ClampPercentIdentity DEF Sane
<1> DEFINE w == LoadConfig(c)
<1>3. /\ w \in Config
      /\ w.tmode = c.tmode /\ w.desired = c.desired /\ w.max = c.max
      /\ w.mfan = c.mfan /\ w.cmode = c.cmode /\ w.curtain = c.curtain
      /\ w.colour = c.colour /\ w.bright = c.bright
  BY <1>1, <1>2, LoadedFields
<1> HIDE DEF w
<1>4. w = c
  BY <1>3, SameConfig
<1> QED BY <1>4 DEF w

\* Only a boot takes back an answer of 200 with the handler idle before and
\* after.
LEMMA OnlyBootForgets ==
  ASSUME TypeOK, [Next]_vars, reply = "200", reply' = "none",
         pc["httpd"] = "idle", pc'["httpd"] = "idle"
  PROVE  PowerCut
<1>1. \A t \in Tasks : ~SaveConfig(t)
  BY DEF TypeOK, SaveConfig, NvsEnter, NvsFails, NvsOpen, SaveSnapshot,
         NvsSetBlob, NvsCommit, SetterReturns, Goto, At, Tasks, NvsCalls,
         handlerVars
<1>2. ~ControlStep
  BY <1>1
     DEF ControlStep, ControlSample, ControlActuate, NothingDue, ScheduleDue,
         ControlApply, ControlDrive, Tasks, handlerVars
<1>3. \A req \in Requests : ~ControlRequest(req)
  BY DEF TypeOK, ControlRequest, Goto, Tasks
<1>4. ~HttpdStep
  BY <1>1 DEF HttpdStep, HttpdApply, HttpdDrive, Tasks, handlerVars
<1>5. ~(ToggleLed \/ WifiShowsColour \/ TimeSync \/ WifiNvsEnter
          \/ WifiNvsLeave \/ UNCHANGED vars)
  BY DEF ToggleLed, WifiShowsColour, TimeSync, WifiNvsEnter, WifiNvsLeave,
         vars, handlerVars
<1>6. QED
  BY <1>2, <1>3, <1>4, <1>5 DEF Next

\* The board that boots after an answer of 200 comes up with the settings
\* that were in force, unless its flash cannot be read.
THEOREM AckSurvivesPowerCut ==
  ASSUME HttpdPrio < ControlPrio
  PROVE  Spec => AckedSettingsSurvive
<1>1. Init => PriorityInv /\ DurableInv
  BY BootTyped DEF Init, PriorityInv, DurableInv, HttpdSaving
<1>2. IInv /\ PriorityInv /\ [Next]_vars => PriorityInv'
  BY NextPriorityInv DEF IInv
<1>3. IInv /\ PriorityInv /\ DurableInv /\ [Next]_vars => DurableInv'
  BY NextDurableInv DEF IInv
<1>4. ASSUME IInv, DurableInv, [Next]_vars, reply = "200", reply' = "none",
             pc["httpd"] = "idle", pc'["httpd"] = "idle"
      PROVE  SameButCurtain(cfg, cfg')
               \/ (FlashFaults /\ cfg' = DefaultConfig)
  <2>1. PowerCut
    BY <1>4, OnlyBootForgets DEF IInv
  <2>2. PICK survivor \in {blob, durable}, readable \in {TRUE, ~FlashFaults} :
          cfg' = LoadConfig(IF readable THEN survivor ELSE None)
    BY <2>1 DEF PowerCut
  <2>3. CASE readable
    <3>1. /\ survivor \in Config /\ Sane(survivor)
          /\ SameButCurtain(survivor, cfg)
      BY <1>4 DEF DurableInv, IInv, TypeOK, ConfigSane
    <3>2. cfg' = survivor
      BY <2>2, <2>3, <3>1, LoadSane
    <3>3. QED
      BY <3>1, <3>2 DEF SameButCurtain
  <2>4. CASE ~readable
    <3>1. FlashFaults
      BY <2>4, SwitchAssumption
    <3>2. cfg' = DefaultConfig
      BY <2>2, <2>4 DEF LoadConfig
    <3>3. QED
      BY <3>1, <3>2
  <2>5. QED
    BY <2>3, <2>4
<1>5. IInv /\ DurableInv /\ [Next]_vars
        => [reply = "200" /\ reply' = "none" /\ pc["httpd"] = "idle"
              /\ pc'["httpd"] = "idle"
             => SameButCurtain(cfg, cfg')
                  \/ (FlashFaults /\ cfg' = DefaultConfig)]_vars
  BY <1>4
<1>6. QED
  BY <1>1, <1>2, <1>3, <1>5, InitIInv, NextIInv, PTL
     DEF Spec, AckedSettingsSurvive

-----------------------------------------------------------------------------
(* The settings store *)

LEMMA FieldsAre ==
  Fields = {"tmode", "desired", "max", "mfan", "cmode", "colour", "bright"}
BY DEF Fields, ThermalFields, ModeField, LightFields

\* Two configurations have the same settings when they agree field by field.
LEMMA SameSettings ==
  ASSUME NEW c, NEW d
  PROVE  SettingsOf(c) = SettingsOf(d) <=> \A f \in Fields : c[f] = d[f]
<1>1. /\ DOMAIN SettingsOf(c) = Fields /\ DOMAIN SettingsOf(d) = Fields
      /\ \A f \in Fields : SettingsOf(c)[f] = c[f] /\ SettingsOf(d)[f] = d[f]
  BY DEF SettingsOf
<1>2. ASSUME \A f \in Fields : c[f] = d[f]
      PROVE  SettingsOf(c) = SettingsOf(d)
  BY <1>2 DEF SettingsOf
<1> QED BY <1>1, <1>2

LEMMA CurtainIsNoSetting ==
  ASSUME NEW c \in Config, NEW d \in Config, SameButCurtain(c, d)
  PROVE  SettingsOf(c) = SettingsOf(d)
<1>1. \A f \in Fields : f \in DOMAIN c /\ f \in DOMAIN d /\ f # "curtain"
  BY FieldsAre DEF Config
<1>2. \A f \in Fields : /\ [c EXCEPT !.curtain = 0][f] = c[f]
                        /\ [d EXCEPT !.curtain = 0][f] = d[f]
  BY <1>1
<1>3. \A f \in Fields : c[f] = d[f]
  BY <1>2 DEF SameButCurtain
<1> QED BY <1>3, SameSettings

\* A function on the fields is a record.
LEMMA RecordOfFields ==
  ASSUME NEW s, s = [f \in Fields |-> s[f]],
         s["tmode"] \in Mode, s["desired"] \in DesiredRange, s["max"] \in Int,
         s["mfan"] \in Percent, s["cmode"] \in Mode, s["colour"] \in Colours,
         s["bright"] \in Percent,
         s["max"] \in s["desired"] + Span .. MaxTempCeil
  PROVE  s \in Settings
<1> DEFINE r == [tmode |-> s["tmode"], desired |-> s["desired"], max |-> s["max"],
                 mfan |-> s["mfan"], cmode |-> s["cmode"], colour |-> s["colour"],
                 bright |-> s["bright"]]
<1>1. DOMAIN s = Fields
  OBVIOUS
<1>2. s = r
  BY <1>1, FieldsAre
<1>3. r \in [tmode : Mode, desired : DesiredRange, max : Int, mfan : Percent,
             cmode : Mode, colour : Colours, bright : Percent]
  OBVIOUS
<1> QED BY <1>2, <1>3 DEF Settings

LEMMA SaneSettings ==
  ASSUME NEW c \in Config, Sane(c)
  PROVE  SettingsOf(c) \in Settings
<1> DEFINE s == SettingsOf(c)
<1>1. s = [f \in Fields |-> s[f]]
  BY DEF SettingsOf
<1>2. \A f \in Fields : s[f] = c[f]
  BY DEF SettingsOf
<1>3. /\ s["tmode"] = c.tmode /\ s["desired"] = c.desired /\ s["max"] = c.max
      /\ s["mfan"] = c.mfan /\ s["cmode"] = c.cmode /\ s["colour"] = c.colour
      /\ s["bright"] = c.bright
  BY <1>2, FieldsAre
<1> HIDE DEF s
<1>4. /\ c.tmode \in Mode /\ c.desired \in DesiredRange /\ c.max \in Int
      /\ c.mfan \in Percent /\ c.cmode \in Mode /\ c.colour \in Colours
      /\ c.bright \in Percent /\ c.max \in c.desired + Span .. MaxTempCeil
  BY DEF Config, Sane
<1>5. s \in Settings
  BY <1>1, <1>3, <1>4, RecordOfFields
<1> QED BY <1>5 DEF s

\* What a setter writes is what the three of them will have written.
LEMMA ThermalAsLoaded ==
  ASSUME NEW c \in Config, NEW a \in Config
  PROVE  \A f \in Fields : SetThermal(c, a)[f] = IF f \in ThermalFields
                                                 THEN LoadConfig(a)[f] ELSE c[f]
<1> DEFINE d == ClampDesired(a.desired)
           m == ClampMaxTemp(d, a.max)
           p == ClampPercent(a.mfan)
<1>1. SetThermal(c, a)
        = [c EXCEPT !.tmode = a.tmode, !.desired = d, !.max = m, !.mfan = p]
  BY DEF SetThermal
<1>2. LET w == LoadConfig(a)
      IN  w.tmode = a.tmode /\ w.desired = d /\ w.max = m /\ w.mfan = p
  BY LoadedFields
<1> HIDE DEF d, m, p
<1>3. /\ SetThermal(c, a).tmode = a.tmode /\ SetThermal(c, a).desired = d
      /\ SetThermal(c, a).max = m /\ SetThermal(c, a).mfan = p
      /\ SetThermal(c, a).cmode = c.cmode /\ SetThermal(c, a).colour = c.colour
      /\ SetThermal(c, a).bright = c.bright
  BY <1>1 DEF Config
<1> QED BY <1>2, <1>3, FieldsAre DEF ThermalFields

LEMMA ModeAsLoaded ==
  ASSUME NEW c \in Config, NEW a \in Config
  PROVE  \A f \in Fields : SetCurtain(c, a.cmode, a.curtain)[f]
                             = IF f \in ModeField THEN LoadConfig(a)[f] ELSE c[f]
<1> DEFINE p == ClampPercent(a.curtain)
           e == SetCurtain(c, a.cmode, a.curtain)
<1>1. e = [c EXCEPT !.cmode = a.cmode, !.curtain = p]
  BY DEF SetCurtain
<1>2. LoadConfig(a).cmode = a.cmode
  BY LoadedFields
<1> HIDE DEF p, e
<1>3. /\ e.tmode = c.tmode /\ e.desired = c.desired /\ e.max = c.max
      /\ e.mfan = c.mfan /\ e.cmode = a.cmode /\ e.colour = c.colour
      /\ e.bright = c.bright
  BY <1>1 DEF Config
<1> QED BY <1>2, <1>3, FieldsAre DEF ModeField, e

LEMMA LightAsLoaded ==
  ASSUME NEW c \in Config, NEW a \in Config
  PROVE  \A f \in Fields : SetRgb(c, a)[f] = IF f \in LightFields
                                             THEN LoadConfig(a)[f] ELSE c[f]
<1> DEFINE p == ClampPercent(a.bright)
           e == SetRgb(c, a)
<1>1. e = [c EXCEPT !.colour = a.colour, !.bright = p]
  BY DEF SetRgb
<1>2. LoadConfig(a).colour = a.colour /\ LoadConfig(a).bright = p
  BY LoadedFields
<1> HIDE DEF p, e
<1>3. /\ e.tmode = c.tmode /\ e.desired = c.desired /\ e.max = c.max
      /\ e.mfan = c.mfan /\ e.cmode = c.cmode /\ e.colour = a.colour
      /\ e.bright = p
  BY <1>1 DEF Config
<1> QED BY <1>2, <1>3, FieldsAre DEF LightFields, e

-----------------------------------------------------------------------------
(* What is pending takes effect setter by setter. *)

\* The part of the request a setter is about
PartOf(s) == CASE s = "thermal" -> ThermalFields
               [] s = "curtain" -> ModeField
               [] OTHER -> LightFields

\* What the setters have written for the request being served
Served ==
  IF pc["httpd"] = "idle" THEN {}
  ELSE (IF stage = "thermal" THEN {} ELSE ThermalFields)
         \cup (IF stage = "rgb" THEN ModeField ELSE {})
         \cup (IF pc["httpd"] = "apply" THEN {} ELSE PartOf(stage))

\* They have their values, and keep them: nobody else changes a setting.
ServedInv == \A f \in Served : cfg[f] = LoadConfig(args)[f]

LEMMA ServedAre == Served \subseteq Fields
BY DEF Served, PartOf, Fields

\* A setter of the handler puts its part of the request in force.
LEMMA SetterChanges ==
  ASSUME TypeOK, HttpdApply
  PROVE  \A f \in Fields : cfg'[f] = IF f \in PartOf(stage)
                                     THEN LoadConfig(args)[f] ELSE cfg[f]
<1>1. cfg \in Config /\ args \in Config /\ stage \in Stages
  BY DEF TypeOK, HttpdApply, At
<1>2. CASE stage = "thermal"
  <2>1. cfg' = SetThermal(cfg, args) /\ PartOf(stage) = ThermalFields
    BY <1>2 DEF HttpdApply, PartOf
  <2> QED BY <1>1, <2>1, ThermalAsLoaded
<1>3. CASE stage = "curtain"
  <2>1. cfg' = SetCurtain(cfg, args.cmode, args.curtain) /\ PartOf(stage) = ModeField
    BY <1>3 DEF HttpdApply, PartOf
  <2> QED BY <1>1, <2>1, ModeAsLoaded
<1>4. CASE stage = "rgb"
  <2>1. cfg' = SetRgb(cfg, args) /\ PartOf(stage) = LightFields
    BY <1>4 DEF HttpdApply, PartOf
  <2> QED BY <1>1, <2>1, LightAsLoaded
<1> QED BY <1>1, <1>2, <1>3, <1>4 DEF Stages

\* An agenda entry changes no setting.
LEMMA AgendaChangesNoSetting ==
  ASSUME TypeOK, PriorityInv, IInv', ControlApply
  PROVE  SettingsOf(cfg') = SettingsOf(cfg)
<1>1. cfg \in Config /\ cfg.cmode = "auto" /\ cfg' = SetCurtain(cfg, "auto", due)
  BY DEF ControlApply, At, TypeOK, PriorityInv
<1>2. SameButCurtain(cfg, cfg')
  BY <1>1, AgendaSetsCurtainOnly DEF SameButCurtain
<1>3. cfg' \in Config
  BY DEF IInv, TypeOK
<1> QED BY <1>1, <1>2, <1>3, CurtainIsNoSetting

\* A step that leaves the settings alone and does not bring the handler on
LEMMA ServedStays ==
  ASSUME ServedInv, SettingsOf(cfg') = SettingsOf(cfg), args' = args,
         Served' \subseteq Served
  PROVE  ServedInv'
<1>1. \A f \in Fields : cfg'[f] = cfg[f]
  BY SameSettings
<1>2. \A f \in Served' : cfg'[f] = LoadConfig(args)[f]
  BY <1>1, ServedAre DEF ServedInv
<1> QED BY <1>2 DEF ServedInv

\* The handler's steps between two setters
LEMMA ServedGoesOn ==
  ASSUME TypeOK, ServedInv, cfg' = cfg,
         \/ UNCHANGED <<args, stage>> /\ pc["httpd"] \notin {"idle", "apply"}
              /\ pc'["httpd"] \notin {"idle"}
         \/ pc'["httpd"] = "idle"
         \/ /\ args' = args /\ pc'["httpd"] = "apply"
            /\ pc["httpd"] \notin {"idle", "apply"}
            /\ \/ stage = "thermal" /\ stage' = "curtain"
               \/ stage = "curtain" /\ stage' = "rgb"
  PROVE  ServedInv'
<1>1. CASE pc'["httpd"] = "idle"
  <2>1. Served' = {}
    BY <1>1 DEF Served
  <2> QED BY <2>1 DEF ServedInv
<1>2. CASE pc'["httpd"] # "idle"
  <2>1. Served' \subseteq Served /\ args' = args
    BY <1>2 DEF Served, PartOf, TypeOK, Stages
  <2> QED BY <2>1, ServedStays
<1> QED BY <1>1, <1>2

LEMMA NextServedInv ==
  ASSUME IInv, IInv', PriorityInv, ServedInv, [Next]_vars
  PROVE  ServedInv'
<1>0. TypeOK
  BY DEF IInv
<1> USE DEF Tasks
<1>1. CASE ControlStep
  <2>1. CASE ControlApply
    <3>1. UNCHANGED <<args, stage>> /\ pc'["httpd"] = pc["httpd"]
      BY <1>0, <2>1 DEF ControlApply, Goto, TypeOK, handlerVars
    <3>2. Served' = Served
      BY <3>1 DEF Served
    <3> QED BY <1>0, <2>1, <3>1, <3>2, AgendaChangesNoSetting, ServedStays
  <2>2. CASE ~ControlApply
    <3>1. UNCHANGED <<cfg, args, stage>> /\ pc'["httpd"] = pc["httpd"]
      BY <1>0, <1>1, <2>2
         DEF ControlStep, ControlSample, ControlActuate, NothingDue, ScheduleDue,
             ControlDrive, SaveConfig, NvsEnter, NvsFails, NvsOpen, SaveSnapshot,
             NvsSetBlob, NvsCommit, SetterReturns, Goto, TypeOK, stateVars,
             handlerVars
    <3>2. Served' = Served
      BY <3>1 DEF Served
    <3> QED BY <3>1, <3>2, ServedStays
  <2> QED BY <2>1, <2>2
<1>2. CASE \E req \in Requests : ControlRequest(req)
  <2>1. stage' = "thermal" /\ pc'["httpd"] = "apply"
    BY <1>0, <1>2 DEF ControlRequest, Goto, TypeOK
  <2>2. Served' = {}
    BY <2>1 DEF Served
  <2> QED BY <2>2 DEF ServedInv
<1>3. CASE HttpdApply
  <2>1. /\ UNCHANGED <<args, stage>> /\ pc["httpd"] = "apply"
        /\ pc'["httpd"] \in {"open", "drive"} /\ stage \in Stages
    BY <1>0, <1>3 DEF HttpdApply, At, Goto, TypeOK, handlerVars
  <2>2. Served' = Served \cup PartOf(stage)
    BY <2>1 DEF Served, PartOf, Stages
  <2>3. \A f \in Served' : cfg'[f] = LoadConfig(args)[f]
    <3> TAKE f \in Served'
    <3>1. f \in Fields
      BY <2>1, <2>2, ServedAre DEF PartOf, Stages, Fields
    <3> QED BY <1>0, <1>3, <2>2, <3>1, SetterChanges DEF ServedInv
  <2> QED BY <2>1, <2>3 DEF ServedInv
<1>4. CASE HttpdDrive
  <2>1. /\ UNCHANGED <<cfg, args, stage>> /\ pc["httpd"] = "drive"
        /\ pc'["httpd"] = "open"
    BY <1>0, <1>4 DEF HttpdDrive, At, Goto, TypeOK, handlerVars, stateVars
  <2> QED BY <1>0, <2>1, ServedGoesOn
<1>5. CASE SaveConfig("httpd")
  <2>1. CASE NvsEnter("httpd")
    <3>1. UNCHANGED <<cfg, args, stage, pc>> /\ pc["httpd"] \in NvsCalls
      BY <2>1 DEF NvsEnter, handlerVars, stateVars
    <3> QED BY <1>0, <3>1, ServedGoesOn DEF NvsCalls
  <2>2. CASE NvsFails("httpd")
    <3>1. cfg' = cfg /\ pc'["httpd"] = "idle"
      BY <1>0, <2>2 DEF NvsFails, SetterReturns, Goto, TypeOK, stateVars
    <3> QED BY <1>0, <3>1, ServedGoesOn
  <2>3. CASE NvsOpen("httpd") \/ SaveSnapshot("httpd") \/ NvsSetBlob("httpd")
    <3>1. /\ UNCHANGED <<cfg, args, stage>>
          /\ pc["httpd"] \in {"open", "snap", "blob"}
          /\ pc'["httpd"] \in {"snap", "blob", "commit"}
      BY <1>0, <2>3 DEF NvsOpen, SaveSnapshot, NvsSetBlob, At, Goto, TypeOK,
                        handlerVars, stateVars
    <3> QED BY <1>0, <3>1, ServedGoesOn
  <2>4. CASE NvsCommit("httpd")
    <3>1. cfg' = cfg /\ pc["httpd"] = "commit" /\ SetterReturns("httpd", TRUE)
      BY <2>4 DEF NvsCommit, At, stateVars
    <3>2. CASE stage # "rgb"
      <4>1. /\ args' = args /\ pc'["httpd"] = "apply"
            /\ \/ stage = "thermal" /\ stage' = "curtain"
               \/ stage = "curtain" /\ stage' = "rgb"
        BY <1>0, <3>1, <3>2 DEF SetterReturns, Goto, TypeOK, Stages
      <4> QED BY <1>0, <3>1, <4>1, ServedGoesOn
    <3>3. CASE stage = "rgb"
      <4>1. pc'["httpd"] = "idle"
        BY <1>0, <3>1, <3>3 DEF SetterReturns, Goto, TypeOK
      <4> QED BY <1>0, <3>1, <4>1, ServedGoesOn
    <3> QED BY <3>2, <3>3
  <2> QED BY <1>5, <2>1, <2>2, <2>3, <2>4 DEF SaveConfig
<1>6. CASE ToggleLed \/ WifiShowsColour \/ TimeSync \/ WifiNvsEnter
             \/ WifiNvsLeave \/ UNCHANGED vars
  <2>1. UNCHANGED <<cfg, args, stage, pc>>
    BY <1>6 DEF ToggleLed, WifiShowsColour, TimeSync, WifiNvsEnter, WifiNvsLeave,
                vars, stateVars, handlerVars
  <2>2. Served' = Served
    BY <2>1 DEF Served
  <2> QED BY <2>1, <2>2, ServedStays
<1>7. CASE PowerCut
  <2>1. pc'["httpd"] = "idle"
    BY <1>7 DEF PowerCut, BootPc
  <2>2. Served' = {}
    BY <2>1 DEF Served
  <2> QED BY <2>2 DEF ServedInv
<1> QED
  BY <1>1, <1>2, <1>3, <1>4, <1>5, <1>6, <1>7 DEF Next, HttpdStep

-----------------------------------------------------------------------------
(* Each step is a step of the store or none. *)

\* What is in flash is what a boot makes of it.
LEMMA FlashAsBooted ==
  ASSUME IInv
  PROVE  /\ blob # None => LoadConfig(blob) = blob
         /\ durable # None => LoadConfig(durable) = durable
BY LoadSane DEF IInv, TypeOK, ConfigSane

\* Without a change of the settings, of the request and of what is or will be
\* in flash nothing shows.
LEMMA NothingShows ==
  ASSUME SettingsOf(cfg') = SettingsOf(cfg),
         UNCHANGED <<args, reply, snap, blob, durable>>,
         pc["httpd"] = "idle" <=> pc'["httpd"] = "idle", Saving' = Saving
  PROVE  UNCHANGED Store!storeVars
<1>1. InForce' = InForce
  BY DEF InForce
<1>2. Wanted' = Wanted /\ Answer' = Answer
  BY DEF Wanted, Answer
<1>3. Bootable' = Bootable
  BY DEF Bootable, Candidates
<1> QED BY <1>1, <1>2, <1>3 DEF Store!storeVars

\* A save that goes on or fails drops settings and brings up none.
LEMMA SaveShows ==
  ASSUME UNCHANGED <<cfg, args, reply>>, Candidates' \subseteq Candidates,
         pc["httpd"] = "idle" <=> pc'["httpd"] = "idle"
  PROVE  Store!Settle
<1>1. InForce' = InForce /\ Wanted' = Wanted /\ Answer' = Answer
  BY DEF InForce, Wanted, Answer
<1>2. Bootable' \subseteq Bootable
  BY DEF Bootable
<1>3. InForce \in Bootable'
  BY DEF Bootable, Candidates, InForce
<1> QED BY <1>1, <1>2, <1>3 DEF Store!Settle, Store!Fewer

\* What a step of a save makes of the configurations a boot may find
LEMMA SaveCandidates ==
  ASSUME IInv, NEW t \in Tasks,
         NvsFails(t) \/ NvsOpen(t) \/ SaveSnapshot(t) \/ NvsSetBlob(t) \/ NvsCommit(t)
  PROVE  cfg' = cfg /\ Candidates' \subseteq Candidates
<1>0. /\ cfg' = cfg /\ pc \in [Tasks -> ControlLabels \cup HttpdLabels]
      /\ snap \in [Tasks -> Config \cup {None}]
  BY DEF NvsFails, NvsOpen, SaveSnapshot, NvsSetBlob, NvsCommit, stateVars, IInv, TypeOK
<1>1. CASE NvsFails(t) \/ NvsOpen(t) \/ NvsCommit(t)
  <2>1. /\ pc'[t] # "blob" /\ \A u \in Tasks \ {t} : pc'[u] = pc[u] /\ snap'[u] = snap[u]
        /\ blob' = blob /\ durable' \in {blob, durable}
    BY <1>0, <1>1 DEF NvsFails, NvsOpen, NvsCommit, SetterReturns, Goto, Tasks
  <2>2. \A u \in Saving' : u \in Saving /\ snap'[u] = snap[u]
    BY <2>1 DEF Saving
  <2> QED BY <1>0, <2>1, <2>2 DEF Candidates
<1>2. CASE SaveSnapshot(t)
  <2>1. /\ \A u \in Tasks \ {t} : pc'[u] = pc[u] /\ snap'[u] = snap[u]
        /\ snap'[t] = cfg /\ blob' = blob /\ durable' = durable
    BY <1>0, <1>2 DEF SaveSnapshot, Goto
  <2>2. \A u \in Saving' : snap'[u] = cfg \/ (u \in Saving /\ snap'[u] = snap[u])
    BY <2>1 DEF Saving
  <2> QED BY <1>0, <2>1, <2>2 DEF Candidates
<1>3. CASE NvsSetBlob(t)
  <2>1. /\ pc[t] = "blob" /\ pc'[t] # "blob" /\ blob' = snap[t] /\ durable' = durable
        /\ \A u \in Tasks \ {t} : pc'[u] = pc[u] /\ snap'[u] = snap[u]
    BY <1>0, <1>3 DEF NvsSetBlob, At, Goto
  <2>2. \A u \in Saving' : u \in Saving /\ snap'[u] = snap[u]
    BY <2>1 DEF Saving
  <2>3. LoadConfig(blob') = snap[t] /\ t \in Saving
    BY <2>1, LoadSane DEF IInv, TypeOK, ConfigSane, Saving
  <2> QED BY <1>0, <2>1, <2>2, <2>3 DEF Candidates
<1> QED BY <1>1, <1>2, <1>3

LEMMA ControlSaveSettles ==
  ASSUME IInv, SaveConfig("control")
  PROVE  Store!Settle \/ UNCHANGED Store!storeVars
<1>0. "control" \in Tasks /\ "httpd" \in Tasks
  BY DEF Tasks
<1>1. CASE NvsEnter("control")
  <2>1. UNCHANGED <<cfg, args, reply, snap, blob, durable, pc>>
    BY <1>1 DEF NvsEnter, stateVars, handlerVars
  <2>2. Saving' = Saving
    BY <2>1 DEF Saving
  <2> QED BY <2>1, <2>2, NothingShows
<1>2. CASE ~NvsEnter("control")
  <2>1. UNCHANGED <<args, reply>> /\ pc'["httpd"] = pc["httpd"]
    BY <1>0, <1>2
       DEF SaveConfig, NvsFails, NvsOpen, SaveSnapshot, NvsSetBlob, NvsCommit,
           SetterReturns, Goto, handlerVars, IInv, TypeOK, Tasks
  <2> QED BY <1>0, <1>2, <2>1, SaveCandidates, SaveShows DEF SaveConfig
<1> QED BY <1>1, <1>2

\* The last commit of a request answers it: everything on its way to flash is
\* what is in force, and what is in force is what was asked for.
LEMMA LastCommitConfirms ==
  ASSUME IInv, IInv', ServedInv, DurableInv', NvsCommit("httpd"), stage = "rgb"
  PROVE  Store!Confirm
<1>1. /\ pc["httpd"] = "commit" /\ pc'["httpd"] = "idle" /\ reply' = "200"
      /\ cfg' = cfg
  BY DEF NvsCommit, At, SetterReturns, Goto, IInv, TypeOK, Tasks, stateVars
<1>2. Answer = "pending" /\ Answer' = "200"
  BY <1>1 DEF Answer
<1>3. Served = Fields
  BY <1>1 DEF Served, PartOf, Fields
<1>4. SettingsOf(cfg) = SettingsOf(LoadConfig(args))
  BY <1>3, SameSettings DEF ServedInv
<1>5. Wanted = InForce /\ Wanted' = InForce /\ InForce' = InForce
  BY <1>1, <1>4 DEF Wanted, InForce
<1>6. /\ blob' \in Config /\ durable' \in Config
      /\ SettingsOf(blob') = SettingsOf(cfg') /\ SettingsOf(durable') = SettingsOf(cfg')
  BY <1>1, CurtainIsNoSetting DEF DurableInv, IInv, TypeOK
<1>7. /\ SettingsOf(LoadConfig(blob')) = SettingsOf(cfg')
      /\ SettingsOf(LoadConfig(durable')) = SettingsOf(cfg')
  BY <1>6, FlashAsBooted, NoneAssumption, LoadSane DEF IInv, TypeOK, ConfigSane
<1>8. ASSUME NEW t \in Saving'
      PROVE  SettingsOf(snap'[t]) = SettingsOf(cfg')
  <2>1. t = "control" /\ pc'["control"] = "blob"
    BY <1>1 DEF Saving, Tasks
  <2>2. SameButCurtain(snap'[t], cfg') /\ snap'[t] \in Config /\ cfg' \in Config
    BY <1>1, <2>1 DEF DurableInv, HttpdSaving, IInv, TypeOK, Tasks
  <2> QED BY <2>2, CurtainIsNoSetting
<1>9. Bootable' = {InForce}
  BY <1>1, <1>7, <1>8 DEF Bootable, Candidates, InForce
<1> QED BY <1>2, <1>5, <1>9 DEF Store!Confirm

\* A setter of the handler that fails, or its commit, before the last one
LEMMA HttpdSaveShows ==
  ASSUME IInv, IInv', ServedInv, DurableInv', SaveConfig("httpd")
  PROVE  \/ Store!Settle \/ Store!GiveUp \/ Store!Confirm
         \/ UNCHANGED Store!storeVars
<1>0. "control" \in Tasks /\ "httpd" \in Tasks /\ TypeOK
  BY DEF Tasks, IInv
<1>1. CASE NvsEnter("httpd")
  <2>1. UNCHANGED <<cfg, args, reply, snap, blob, durable, pc>>
    BY <1>1 DEF NvsEnter, stateVars, handlerVars
  <2>2. Saving' = Saving
    BY <2>1 DEF Saving
  <2> QED BY <2>1, <2>2, NothingShows
<1>2. CASE NvsFails("httpd")
  <2>1. cfg' = cfg /\ Candidates' \subseteq Candidates
    BY <1>0, <1>2, SaveCandidates
  <2>2. pc["httpd"] # "idle" /\ pc'["httpd"] = "idle" /\ reply' = "500"
    BY <1>0, <1>2 DEF NvsFails, SetterReturns, Goto, NvsCalls, TypeOK
  <2>3. /\ Answer = "pending" /\ Answer' = "500" /\ Wanted' = InForce
        /\ InForce' = InForce
    BY <2>1, <2>2 DEF Answer, Wanted, InForce
  <2>4. Bootable' \subseteq Bootable /\ InForce \in Bootable'
    BY <2>1 DEF Bootable, Candidates, InForce
  <2> QED BY <2>3, <2>4 DEF Store!GiveUp, Store!Fewer
<1>3. CASE NvsOpen("httpd") \/ SaveSnapshot("httpd") \/ NvsSetBlob("httpd")
             \/ (NvsCommit("httpd") /\ stage # "rgb")
  <2>1. cfg' = cfg /\ Candidates' \subseteq Candidates
    BY <1>0, <1>3, SaveCandidates
  <2>2. /\ UNCHANGED <<args, reply>> /\ pc["httpd"] # "idle"
        /\ pc'["httpd"] # "idle"
    BY <1>0, <1>3 DEF NvsOpen, SaveSnapshot, NvsSetBlob, NvsCommit, SetterReturns,
                      At, Goto, handlerVars, TypeOK
  <2> QED BY <2>1, <2>2, SaveShows
<1>4. CASE NvsCommit("httpd") /\ stage = "rgb"
  BY <1>4, LastCommitConfirms
<1> QED BY <1>1, <1>2, <1>3, <1>4 DEF SaveConfig

-----------------------------------------------------------------------------
(* A request *)

\* A value within the limits is taken as it is.
LEMMA WithinLimits ==
  /\ \A v \in DesiredRange : v \in Int /\ ClampDesired(v) = v
  /\ \A d \in DesiredRange : \A v \in d + Span .. MaxTempCeil :
       v \in Int /\ ClampMaxTemp(d, v) = v
  /\ \A v \in Percent : v \in Int /\ U8(v) = v /\ ClampPercent(v) = v
<1>1. \A v \in DesiredRange : v \in Int /\ ClampDesired(v) = v
  BY DEF ClampDesired, Clamp, DesiredRange, DesiredMin, DesiredMax
<1>2. \A d \in DesiredRange : \A v \in d + Span .. MaxTempCeil :
        v \in Int /\ ClampMaxTemp(d, v) = v
  BY DEF ClampMaxTemp, Clamp, DesiredRange, DesiredMin, DesiredMax, Span, MaxTempCeil
<1>3. \A v \in Percent : v \in Int /\ U8(v) = v /\ ClampPercent(v) = v
  BY ClampPercentIdentity DEF U8, Percent
<1> QED BY <1>1, <1>2, <1>3

\* The settings the handler's three setters will write for a body: what the
\* body says where that is within the limits, what is in force where it says
\* nothing.
LEMMA AskedFor ==
  ASSUME IInv, NEW r \in Requests, NEW w, w = LoadConfig(Overlay(r, cfg))
  PROVE  /\ w \in Config /\ Sane(w)
         /\ Store!Literal(r) \in Settings => SettingsOf(w) = Store!Literal(r)
         /\ \A f \in Fields :
              Store!Named(r, f) \/ (f = "max" /\ Store!Named(r, "desired"))
                \/ SettingsOf(w)[f] = InForce[f]
<1> DEFINE a == Overlay(r, cfg)
           l == Store!Literal(r)
<1>0. cfg \in Config /\ Sane(cfg) /\ a \in Config
  BY OverlayTyped DEF IInv, TypeOK, ConfigSane
<1>1. /\ w \in Config /\ Sane(w)
      /\ w.tmode = a.tmode /\ w.desired = ClampDesired(a.desired)
      /\ w.max = ClampMaxTemp(ClampDesired(a.desired), a.max)
      /\ w.mfan = ClampPercent(a.mfan) /\ w.cmode = a.cmode
      /\ w.colour = a.colour /\ w.bright = ClampPercent(a.bright)
  BY <1>0, LoadedFields
<1>2. /\ a.tmode = IF r.tmode = Absent THEN cfg.tmode ELSE r.tmode
      /\ a.desired = IF r.desired = Absent THEN cfg.desired ELSE r.desired
      /\ a.max = IF r.max = Absent THEN cfg.max ELSE r.max
      /\ a.mfan = IF r.mfan = Absent THEN cfg.mfan ELSE U8(r.mfan)
      /\ a.cmode = IF r.cmode = Absent THEN cfg.cmode ELSE r.cmode
      /\ a.colour = IF r.colour = Absent THEN cfg.colour ELSE r.colour
      /\ a.bright = IF r.bright = Absent THEN cfg.bright ELSE U8(r.bright)
  BY DEF Overlay
<1>3. /\ cfg.desired \in DesiredRange /\ cfg.max \in cfg.desired + Span .. MaxTempCeil
      /\ cfg.mfan \in Percent /\ cfg.bright \in Percent
  BY <1>0 DEF Sane
<1>4. \A f \in Fields : SettingsOf(w)[f] = w[f] /\ InForce[f] = cfg[f]
  BY DEF SettingsOf, InForce
<1>5. /\ DOMAIN l = Fields
      /\ \A f \in Fields : l[f] = IF r[f] = Absent THEN cfg[f] ELSE r[f]
  BY <1>4 DEF Store!Literal, Store!Named
<1> HIDE DEF a, l
<1>6. ASSUME l \in Settings
      PROVE  SettingsOf(w) = l
  <2>1. /\ l["desired"] \in DesiredRange
        /\ l["mfan"] \in Percent /\ l["bright"] \in Percent
        /\ l["max"] \in l["desired"] + Span .. MaxTempCeil
    BY <1>6 DEF Settings
  <2>2. /\ l["tmode"] = a.tmode /\ l["cmode"] = a.cmode /\ l["colour"] = a.colour
        /\ l["desired"] = a.desired /\ l["max"] = a.max
    BY <1>2, <1>5, FieldsAre
  <2>3. l["mfan"] = a.mfan
    <3>1. r.mfan # Absent => l["mfan"] = r.mfan /\ U8(r.mfan) = r.mfan
      BY <1>5, <2>1, FieldsAre, WithinLimits
    <3>2. r.mfan = Absent => l["mfan"] = cfg.mfan
      BY <1>5, FieldsAre
    <3> QED BY <1>2, <3>1, <3>2
  <2>4. l["bright"] = a.bright
    <3>1. r.bright # Absent => l["bright"] = r.bright /\ U8(r.bright) = r.bright
      BY <1>5, <2>1, FieldsAre, WithinLimits
    <3>2. r.bright = Absent => l["bright"] = cfg.bright
      BY <1>5, FieldsAre
    <3> QED BY <1>2, <3>1, <3>2
  <2>5. /\ w.desired = l["desired"] /\ w.mfan = l["mfan"] /\ w.bright = l["bright"]
    BY <1>1, <2>1, <2>2, <2>3, <2>4, WithinLimits
  <2>6. w.max = l["max"]
    BY <1>1, <2>1, <2>2, WithinLimits
  <2>7. \A f \in Fields : w[f] = l[f]
    BY <1>1, <2>2, <2>5, <2>6, FieldsAre
  <2>8. SettingsOf(w) = [f \in Fields |-> l[f]]
    BY <2>7 DEF SettingsOf
  <2>9. l = [f \in Fields |-> l[f]]
    BY <1>5 DEF l, Store!Literal
  <2> QED BY <2>8, <2>9
<1>7. ASSUME NEW f \in Fields, ~Store!Named(r, f),
             ~(f = "max" /\ Store!Named(r, "desired"))
      PROVE  SettingsOf(w)[f] = InForce[f]
  <2>1. r[f] = Absent /\ (f = "max" => r.desired = Absent)
    BY <1>7 DEF Store!Named
  <2>2. w[f] = cfg[f]
    <3>1. CASE f \in {"tmode", "cmode", "colour"}
      BY <1>1, <1>2, <2>1, <3>1
    <3>2. CASE f = "desired"
      BY <1>1, <1>2, <1>3, <2>1, <3>2, WithinLimits
    <3>3. CASE f = "max"
      BY <1>1, <1>2, <1>3, <2>1, <3>3, WithinLimits
    <3>4. CASE f \in {"mfan", "bright"}
      BY <1>1, <1>2, <1>3, <2>1, <3>4, WithinLimits
    <3> QED BY <3>1, <3>2, <3>3, <3>4, FieldsAre
  <2> QED BY <1>4, <2>2
<1> QED BY <1>1, <1>6, <1>7 DEF l

LEMMA RequestAsks ==
  ASSUME IInv, NEW r \in Requests, ControlRequest(r)
  PROVE  Store!Ask(r)
<1> DEFINE w == LoadConfig(Overlay(r, cfg))
<1>1. /\ pc["httpd"] = "idle" /\ pc'["httpd"] = "apply" /\ args' = Overlay(r, cfg)
      /\ UNCHANGED <<cfg, snap, blob, durable>> /\ reply \in {"none", "200", "500"}
      /\ pc'["control"] = pc["control"]
  BY DEF ControlRequest, At, Goto, IInv, TypeOK, Tasks, stateVars, storeVars
<1>2. Answer # "pending" /\ Answer' = "pending"
  BY <1>1 DEF Answer
<1>3. Saving' = Saving
  BY <1>1 DEF Saving, Tasks
<1>4. InForce' = InForce /\ Bootable' = Bootable
  BY <1>1, <1>3 DEF InForce, Bootable, Candidates
<1>5. Wanted' = SettingsOf(w)
  BY <1>1 DEF Wanted
<1>6. /\ w \in Config /\ Sane(w)
      /\ Store!Literal(r) \in Settings => SettingsOf(w) = Store!Literal(r)
      /\ \A f \in Fields :
           Store!Named(r, f) \/ (f = "max" /\ Store!Named(r, "desired"))
             \/ SettingsOf(w)[f] = InForce[f]
  BY AskedFor
<1> HIDE DEF w
<1>7. SettingsOf(w) \in Settings
  BY <1>6, SaneSettings
<1> QED BY <1>2, <1>4, <1>5, <1>6, <1>7 DEF Store!Ask

\* The critical section of a setter
LEMMA SetterShows ==
  ASSUME IInv, HttpdApply
  PROVE  \E part \in {ThermalFields, ModeField, LightFields} : Store!Change(part)
<1> DEFINE part == PartOf(stage)
<1>1. /\ pc["httpd"] = "apply" /\ pc'["httpd"] \in {"open", "drive"}
      /\ UNCHANGED <<args, snap, blob, durable>> /\ pc'["control"] = pc["control"]
  BY DEF HttpdApply, At, Goto, IInv, TypeOK, Tasks, handlerVars, storeVars
<1>2. Answer = "pending" /\ Answer' = "pending" /\ Wanted' = Wanted
      /\ Wanted = SettingsOf(LoadConfig(args))
  BY <1>1 DEF Answer, Wanted
<1>3. \A f \in Fields : cfg'[f] = IF f \in part THEN LoadConfig(args)[f] ELSE cfg[f]
  BY SetterChanges DEF IInv
<1>4. part \in {ThermalFields, ModeField, LightFields}
  BY DEF PartOf
<1> HIDE DEF part
<1>5. InForce' = [f \in Fields |-> IF f \in part THEN Wanted[f] ELSE InForce[f]]
  BY <1>2, <1>3 DEF InForce, SettingsOf
<1>6. Saving' = Saving
  BY <1>1 DEF Saving, Tasks
<1>7. Candidates' \subseteq Candidates \cup {cfg'}
  BY <1>1, <1>6 DEF Candidates
<1>8. Bootable' \subseteq Bootable \cup {InForce'} /\ InForce' \in Bootable'
  BY <1>7 DEF Bootable, Candidates, InForce
<1>9. Store!Change(part)
  BY <1>2, <1>5, <1>8 DEF Store!Change
<1> QED BY <1>4, <1>9

\* A boot
LEMMA PowerCutBoots ==
  ASSUME IInv, IInv', PowerCut
  PROVE  Store!Boot
<1>1. PICK survivor \in {blob, durable}, readable \in {TRUE, ~FlashFaults} :
        /\ blob' = survivor /\ durable' = survivor
        /\ cfg' = LoadConfig(IF readable THEN survivor ELSE None)
  BY DEF PowerCut
<1>2. pc'["httpd"] = "idle" /\ pc'["control"] = "sleep" /\ reply' = "none"
  BY DEF PowerCut, BootPc, Tasks
<1> DEFINE stored == SettingsOf(LoadConfig(survivor))
<1>3. stored \in Bootable
  BY DEF Bootable, Candidates
<1>4. InForce' = stored \/ (FlashFaults /\ InForce' = SettingsOf(DefaultConfig))
  <2>1. CASE readable
    BY <1>1, <2>1 DEF InForce
  <2>2. CASE ~readable
    BY <1>1, <2>2, SwitchAssumption DEF InForce, LoadConfig
  <2> QED BY <2>1, <2>2
<1>5. Saving' = {}
  BY <1>2 DEF Saving, Tasks
<1>6. Bootable' = {stored, InForce'}
  BY <1>1, <1>5 DEF Bootable, Candidates, InForce
<1>7. Wanted' = InForce' /\ Answer' = "none"
  BY <1>2 DEF Wanted, InForce, Answer
<1> HIDE DEF stored
<1> QED BY <1>3, <1>4, <1>6, <1>7 DEF Store!Boot

LEMMA StoreInit == Init => Store!Init
<1> SUFFICES ASSUME Init PROVE Store!Init
  OBVIOUS
<1>1. cfg = DefaultConfig /\ pc["httpd"] = "idle" /\ pc["control"] = "sleep"
      /\ blob = None /\ durable = None /\ reply = "none"
  BY DEF Init, BootPc, Tasks
<1>2. LoadConfig(None) = DefaultConfig
  BY DEF LoadConfig
<1>3. Saving = {}
  BY <1>1 DEF Saving, Tasks
<1>4. Candidates = {DefaultConfig}
  BY <1>1, <1>2, <1>3 DEF Candidates
<1> QED BY <1>1, <1>4 DEF Store!Init, InForce, Wanted, Bootable, Answer

LEMMA StoreStep ==
  ASSUME IInv, IInv', PriorityInv, ServedInv, DurableInv', [Next]_vars
  PROVE  [Store!Next]_(Store!storeVars)
<1>0. TypeOK /\ "control" \in Tasks /\ "httpd" \in Tasks
  BY DEF IInv, Tasks
<1>1. CASE ControlStep
  <2>1. CASE SaveConfig("control")
    BY <2>1, ControlSaveSettles DEF Store!Next
  <2>2. CASE ControlApply
    <3>1. /\ UNCHANGED <<args, reply, snap, blob, durable>>
          /\ pc'["httpd"] = pc["httpd"]
          /\ pc["control"] # "blob" /\ pc'["control"] # "blob"
      BY <1>0, <2>2 DEF ControlApply, At, Goto, TypeOK, handlerVars, storeVars
    <3>2. Saving' = Saving
      BY <3>1 DEF Saving, Tasks
    <3> QED BY <1>0, <2>2, <3>1, <3>2, AgendaChangesNoSetting, NothingShows
  <2>3. CASE ControlSample \/ ControlActuate \/ NothingDue \/ ScheduleDue
               \/ ControlDrive
    <3>1. /\ UNCHANGED <<cfg, args, reply, snap, blob, durable>>
          /\ pc'["httpd"] = pc["httpd"]
          /\ pc["control"] # "blob" /\ pc'["control"] # "blob"
      BY <1>0, <2>3
         DEF ControlSample, ControlActuate, NothingDue, ScheduleDue, ControlDrive,
             At, Goto, TypeOK, stateVars, handlerVars, storeVars
    <3>2. Saving' = Saving
      BY <3>1 DEF Saving, Tasks
    <3> QED BY <3>1, <3>2, NothingShows
  <2> QED BY <1>1, <2>1, <2>2, <2>3 DEF ControlStep
<1>2. CASE \E r \in Requests : ControlRequest(r)
  BY <1>2, RequestAsks DEF Store!Next
<1>3. CASE HttpdApply
  BY <1>3, SetterShows DEF Store!Next
<1>4. CASE HttpdDrive
  <2>1. /\ UNCHANGED <<cfg, args, reply, snap, blob, durable>>
        /\ pc["httpd"] = "drive" /\ pc'["httpd"] = "open"
        /\ pc'["control"] = pc["control"]
    BY <1>0, <1>4 DEF HttpdDrive, At, Goto, TypeOK, stateVars, handlerVars, storeVars
  <2>2. Saving' = Saving
    BY <2>1 DEF Saving, Tasks
  <2> QED BY <2>1, <2>2, NothingShows
<1>5. CASE SaveConfig("httpd")
  BY <1>5, HttpdSaveShows DEF Store!Next
<1>6. CASE ToggleLed \/ WifiShowsColour \/ TimeSync \/ WifiNvsEnter
             \/ WifiNvsLeave \/ UNCHANGED vars
  <2>1. UNCHANGED <<cfg, args, reply, snap, blob, durable, pc>>
    BY <1>6 DEF ToggleLed, WifiShowsColour, TimeSync, WifiNvsEnter, WifiNvsLeave,
                vars, stateVars, handlerVars, storeVars
  <2>2. Saving' = Saving
    BY <2>1 DEF Saving
  <2> QED BY <2>1, <2>2, NothingShows
<1>7. CASE PowerCut
  BY <1>7, PowerCutBoots DEF Store!Next
<1> QED
  BY <1>1, <1>2, <1>3, <1>4, <1>5, <1>6, <1>7 DEF Next, HttpdStep

\* The control core implements SettingsStore, as long as the server runs below
\* control_task: a request takes effect part by part, an answer of 200 means
\* that all of it is in force and in flash, and a boot comes up with settings
\* that have been in force since the last such answer.
THEOREM ControlImplementsStore ==
  ASSUME HttpdPrio < ControlPrio
  PROVE  Spec => ImplementsStore
<1>1. Init => PriorityInv /\ DurableInv /\ ServedInv
  <2>1. Init => Served = {}
    BY DEF Init, BootPc, Served, Tasks
  <2> QED BY <2>1, BootTyped DEF Init, PriorityInv, DurableInv, HttpdSaving, ServedInv
<1>2. IInv /\ PriorityInv /\ [Next]_vars => PriorityInv'
  BY NextPriorityInv DEF IInv
<1>3. IInv /\ PriorityInv /\ DurableInv /\ [Next]_vars => DurableInv'
  BY NextDurableInv DEF IInv
<1>4. IInv /\ IInv' /\ PriorityInv /\ ServedInv /\ [Next]_vars => ServedInv'
  BY NextServedInv
<1>5. IInv /\ IInv' /\ PriorityInv /\ ServedInv /\ DurableInv' /\ [Next]_vars
        => [Store!Next]_(Store!storeVars)
  BY StoreStep
<1> QED
  BY <1>1, <1>2, <1>3, <1>4, <1>5, InitIInv, NextIInv, StoreInit, PTL
     DEF Spec, ImplementsStore, Store!Spec
=============================================================================
