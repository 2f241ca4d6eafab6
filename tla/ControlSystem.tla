---------------------------- MODULE ControlSystem ----------------------------
(***************************************************************************)
(* main/control_system.c together with the /api/control handler of         *)
(* main/http_server.c.                                                     *)
(*                                                                         *)
(* Two FreeRTOS tasks share s_state under s_state_mutex and the NVS blob   *)
(* ctrl_cfg/state_v1: control_task (priority 5, one cycle per second) and  *)
(* the esp_http_server task (priority 4) that serves one request at a      *)
(* time.  The chip has one core, so the server runs only while             *)
(* control_task is blocked: in vTaskDelay, on the NVS lock, or inside a    *)
(* flash operation (the driver yields during an erase).                    *)
(*                                                                         *)
(* A step of the model is a stretch of code in which the other task cannot *)
(* change what the stretch reads: a critical section, one write of the     *)
(* outputs, one NVS call.                                                  *)
(***************************************************************************)
EXTENDS FanLaw

CONSTANTS
  Readings,     \* results of ntc_voltage_to_celsius, half degrees or NoReading
  NoReading,    \* not finite or not above -100 degrees: temp_valid is false
  Requests,     \* bodies of POST /api/control, Absent where a key is missing
  Absent,
  SchedPcts,    \* curtain positions of agenda entries that may match
  Colours,      \* the three RGB bytes, one value per colour
  DefaultColour,
  WifiColours,  \* colours that wifi_app.c shows through rgb_led.c
  None,         \* no value: a frame that is gone, a blob never written
  ControlPrio,
  HttpdPrio,
  FlashFaults,  \* whether NVS calls may return an error
  PowerCuts,    \* whether the board may lose power
  LedToggles    \* whether clients call POST /toogle_led.json

Tasks == {"control", "httpd"}
Mode == {"manual", "auto"}
Stages == {"thermal", "curtain", "rgb"}

\* The part of s_state that persisted_control_config_t saves
Config == [tmode : Mode, desired : Int, max : Int, mfan : Byte,
           cmode : Mode, curtain : Byte, colour : Colours, bright : Byte]

\* The part of s_state measured and computed in each cycle
Live == [temp : Int, valid : BOOLEAN, fan : Percent, alarm : BOOLEAN]

Light == [colour : Colours \cup WifiColours, bright : Percent]

ASSUME ReadingsAssumption ==
  /\ NoReading \notin Int
  /\ Readings \subseteq {t \in Int : t > -200} \cup {NoReading}

ASSUME RequestsAssumption ==
  /\ Absent \notin Int \cup Mode \cup Colours
  /\ \A r \in Requests :
       /\ DOMAIN r = {"tmode", "desired", "max", "mfan",
                      "cmode", "curtain", "colour", "bright"}
       /\ r.tmode \in Mode \cup {Absent}
       /\ r.cmode \in Mode \cup {Absent}
       /\ r.colour \in Colours \cup {Absent}
       /\ \A f \in {"desired", "max", "mfan", "curtain", "bright"} :
            r[f] \in Int \cup {Absent}

ASSUME DataAssumption ==
  /\ SchedPcts \subseteq Byte
  /\ DefaultColour \in Colours
  /\ None \notin SchedPcts

ASSUME NoneAssumption == None \notin Config

ASSUME PriorityAssumption == ControlPrio \in Nat /\ HttpdPrio \in Nat

ASSUME SwitchAssumption ==
  FlashFaults \in BOOLEAN /\ PowerCuts \in BOOLEAN /\ LedToggles \in BOOLEAN

VARIABLES
  cfg,       \* s_state: modes, set points, curtain and RGB
  live,      \* s_state: temperature, fan and alarm
  out,       \* what the LEDC channels and the alarm GPIO show
  blink,     \* alarm_gpio_level of control_task
  ledState,  \* s_led_state of http_server.c
  synced,    \* time_was_synchronized of wifi_app.c
  pc,        \* where each task is
  local,     \* control_task's copy of s_state, from the lock to the outputs
  due,       \* curtain position of the agenda entry being applied
  stage,     \* which setter the /api/control handler is in
  args,      \* that handler's values: the request laid over its snapshot
  reply,     \* status of the last answered request
  snap,      \* the snapshot each task is saving
  nvs,       \* holder of the NVS library's lock
  blob,      \* ctrl_cfg/state_v1 as nvs_get_blob would return it
  durable    \* ctrl_cfg/state_v1 as of the last nvs_commit

vars == <<cfg, live, out, blink, ledState, synced, pc, local, due, stage,
          args, reply, snap, nvs, blob, durable>>

stateVars == <<cfg, live>>
outVars == <<out, blink, ledState>>
handlerVars == <<stage, args, reply>>
storeVars == <<snap, nvs, blob, durable>>

-----------------------------------------------------------------------------
(* Setters: what each one writes into s_state. *)

SetThermal(c, a) ==
  LET desired == ClampDesired(a.desired)
  IN  [c EXCEPT !.tmode = a.tmode,
                !.desired = desired,
                !.max = ClampMaxTemp(desired, a.max),
                !.mfan = ClampPercent(a.mfan)]

SetCurtain(c, mode, pct) ==
  [c EXCEPT !.cmode = mode, !.curtain = ClampPercent(pct)]

SetRgb(c, a) ==
  [c EXCEPT !.colour = a.colour, !.bright = ClampPercent(a.bright)]

DefaultConfig ==
  [tmode |-> "auto", desired |-> 56, max |-> 70, mfan |-> 0,
   cmode |-> "manual", curtain |-> 0, colour |-> DefaultColour, bright |-> 50]

BootLive == [temp |-> 50, valid |-> FALSE, fan |-> 0, alarm |-> FALSE]

\* control_system_load_config: a missing or unreadable blob leaves the
\* defaults, anything else is clamped again field by field
LoadConfig(b) ==
  IF b = None
  THEN DefaultConfig
  ELSE SetRgb(SetCurtain(SetThermal(DefaultConfig, b), b.cmode, b.curtain), b)

LightOf(c) == [colour |-> c.colour, bright |-> ClampPercent(c.bright)]

\* Mutant: only the fan and the alarm LED are refreshed in each cycle
FanOutputsOnly(l, level) ==
  [out EXCEPT !.fan = ClampPercent(l.live.fan), !.led = level]

\* What control_task's three pwm calls and the GPIO make of its copy l
DrivenOutputs(l, level) ==
  [fan |-> ClampPercent(l.live.fan),
   servo |-> ClampPercent(l.cfg.curtain),
   light |-> LightOf(l.cfg),
   led |-> level]

\* Mutant: the alarm LED is switched on and not toggled
SteadyLevel(alarm, level) == alarm

\* The alarm LED toggles in each cycle of an alarm and is off otherwise
NextLevel(alarm, level) == alarm /\ ~level

TargetFan(c, temp) ==
  IF c.tmode = "auto" THEN ComputeFan(temp, c.desired, c.max) ELSE c.mfan

\* The handler's local values: keys of the body over its copy of the state
Overlay(req, c) ==
  LET given(v, old) == IF v = Absent THEN old ELSE v
      byte(v, old) == IF v = Absent THEN old ELSE U8(v)
  IN  [tmode |-> given(req.tmode, c.tmode),
       desired |-> given(req.desired, c.desired),
       max |-> given(req.max, c.max),
       mfan |-> byte(req.mfan, c.mfan),
       cmode |-> given(req.cmode, c.cmode),
       curtain |-> byte(req.curtain, c.curtain),
       colour |-> given(req.colour, c.colour),
       bright |-> byte(req.bright, c.bright)]

-----------------------------------------------------------------------------
(* Scheduling on the single core. *)

NvsCalls == {"open", "blob", "commit"}

\* In vTaskDelay; as a mutant of ControlBlocked, a task that waits for the NVS
\* lock without giving up the processor
Asleep == pc["control"] = "sleep"

\* control_task is off the processor: delayed, waiting for the NVS lock, or
\* yielding inside the flash operation it performs
ControlBlocked ==
  \/ Asleep
  \/ pc["control"] \in NvsCalls /\ nvs # "none"

\* Mutant: a second core, where the server runs beside control_task
MayRunBeside(t) == t \in Tasks

MayRun(t) ==
  \/ t = "control"
  \/ ControlBlocked
  \/ HttpdPrio >= ControlPrio

At(t, label) == pc[t] = label /\ MayRun(t)

Goto(t, label) == pc' = [pc EXCEPT ![t] = label]

-----------------------------------------------------------------------------
(* Boot: control_system_init, then control_system_start. *)

BootOut(c) ==
  [fan |-> 0, servo |-> c.curtain, light |-> LightOf(c), led |-> FALSE]

BootPc == [t \in Tasks |-> IF t = "control" THEN "sleep" ELSE "idle"]

BootSnap == [t \in Tasks |-> None]

\* The first boot of a board whose flash holds no configuration
Init ==
  /\ cfg = DefaultConfig
  /\ live = BootLive
  /\ out = BootOut(DefaultConfig)
  /\ blink = FALSE
  /\ ledState = FALSE
  /\ synced = FALSE
  /\ pc = BootPc
  /\ local = None
  /\ due = None
  /\ stage = "thermal"
  /\ args = None
  /\ reply = "none"
  /\ snap = BootSnap
  /\ nvs = "none"
  /\ blob = None
  /\ durable = None

\* Power is lost at any point and the board boots.  An uncommitted blob may
\* or may not have reached the flash, and a blob may be unreadable.
PowerCut ==
  /\ PowerCuts
  /\ \E survivor \in {blob, durable}, readable \in {TRUE, ~FlashFaults} :
       /\ blob' = survivor
       /\ durable' = survivor
       /\ cfg' = LoadConfig(IF readable THEN survivor ELSE None)
  /\ out' = BootOut(cfg')
  /\ live' = BootLive
  /\ blink' = FALSE
  /\ ledState' = FALSE
  /\ synced' = FALSE
  /\ pc' = BootPc
  /\ local' = None
  /\ due' = None
  /\ stage' = "thermal"
  /\ args' = None
  /\ reply' = "none"
  /\ snap' = BootSnap
  /\ nvs' = "none"

-----------------------------------------------------------------------------
(* control_system_save_config, called by both tasks at the end of a setter. *)

\* Mutant: the handler answers 200 whatever its setters return
ReturnsRegardless(t, ok) ==
  IF t = "control"
  THEN /\ Goto(t, "sleep")
       /\ UNCHANGED <<stage, args, reply>>
  ELSE IF stage # "rgb"
  THEN /\ Goto(t, "apply")
       /\ stage' = IF stage = "thermal" THEN "curtain" ELSE "rgb"
       /\ UNCHANGED <<args, reply>>
  ELSE /\ Goto(t, "idle")
       /\ stage' = "thermal"
       /\ args' = None
       /\ reply' = "200"

\* Mutant: the answer does not wait for the last setter
ReturnsBeforeRgb(t, ok) ==
  IF t = "control"
  THEN /\ Goto(t, "sleep")
       /\ UNCHANGED <<stage, args, reply>>
  ELSE IF ok /\ stage = "thermal"
  THEN /\ Goto(t, "apply")
       /\ stage' = "curtain"
       /\ UNCHANGED <<args, reply>>
  ELSE /\ Goto(t, "idle")
       /\ stage' = "thermal"
       /\ args' = None
       /\ reply' = IF ok THEN "200" ELSE "500"

\* The setter returns: control_task ignores the result and goes on to its
\* delay; the handler runs the next setter, or answers.
SetterReturns(t, ok) ==
  IF t = "control"
  THEN /\ Goto(t, "sleep")
       /\ UNCHANGED <<stage, args, reply>>
  ELSE IF ok /\ stage # "rgb"
  THEN /\ Goto(t, "apply")
       /\ stage' = IF stage = "thermal" THEN "curtain" ELSE "rgb"
       /\ UNCHANGED <<args, reply>>
  ELSE /\ Goto(t, "idle")
       /\ stage' = "thermal"
       /\ args' = None
       /\ reply' = IF ok THEN "200" ELSE "500"

\* Every NVS call first takes the library's lock
NvsEnter(t) ==
  /\ pc[t] \in NvsCalls /\ MayRun(t)
  /\ nvs = "none"
  /\ nvs' = t
  /\ UNCHANGED <<stateVars, outVars, handlerVars, synced, pc, local, due,
                 snap, blob, durable>>

NvsFails(t) ==
  /\ FlashFaults
  /\ pc[t] \in NvsCalls /\ MayRun(t)
  /\ nvs = t
  /\ nvs' = "none"
  /\ snap' = [snap EXCEPT ![t] = None]
  /\ SetterReturns(t, FALSE)
  /\ UNCHANGED <<stateVars, outVars, synced, local, due, blob, durable>>

NvsOpen(t) ==
  /\ At(t, "open")
  /\ nvs = t
  /\ nvs' = "none"
  /\ Goto(t, "snap")
  /\ UNCHANGED <<stateVars, outVars, handlerVars, synced, local, due, snap,
                 blob, durable>>

SaveSnapshot(t) ==
  /\ At(t, "snap")
  /\ snap' = [snap EXCEPT ![t] = cfg]
  /\ Goto(t, "blob")
  /\ UNCHANGED <<stateVars, outVars, handlerVars, synced, local, due, nvs,
                 blob, durable>>

NvsSetBlob(t) ==
  /\ At(t, "blob")
  /\ nvs = t
  /\ nvs' = "none"
  /\ blob' = snap[t]
  /\ snap' = [snap EXCEPT ![t] = None]
  /\ Goto(t, "commit")
  /\ UNCHANGED <<stateVars, outVars, handlerVars, synced, local, due, durable>>

NvsCommit(t) ==
  /\ At(t, "commit")
  /\ nvs = t
  /\ nvs' = "none"
  /\ durable' = blob
  /\ SetterReturns(t, TRUE)
  /\ UNCHANGED <<stateVars, outVars, synced, local, due, snap, blob>>

SaveConfig(t) ==
  \/ NvsEnter(t)
  \/ NvsFails(t)
  \/ NvsOpen(t)
  \/ SaveSnapshot(t)
  \/ NvsSetBlob(t)
  \/ NvsCommit(t)

-----------------------------------------------------------------------------
(* control_task *)

\* vTaskDelay ends; the sensor is read and s_state brought up to date under
\* the mutex, which also takes the copy the outputs are driven from
ControlSample ==
  /\ At("control", "sleep")
  /\ \E r \in Readings :
       LET valid == r # NoReading
           temp == IF valid THEN r ELSE live.temp
       IN  live' = [temp |-> temp,
                    valid |-> valid,
                    fan |-> TargetFan(cfg, temp),
                    alarm |-> valid /\ temp > cfg.max]
  /\ local' = [cfg |-> cfg, live |-> live']
  /\ Goto("control", "act")
  /\ UNCHANGED <<cfg, outVars, handlerVars, storeVars, synced, due>>

ControlActuate ==
  /\ At("control", "act")
  /\ blink' = NextLevel(local.live.alarm, blink)
  /\ out' = DrivenOutputs(local, blink')
  /\ local' = None
  /\ Goto("control", "check")
  /\ UNCHANGED <<stateVars, handlerVars, storeVars, ledState, synced, due>>

\* apply_schedule_if_needed: nothing to do, or the first agenda entry that
\* matches the clock (which one is register.c's and the clock's affair)
NothingDue ==
  /\ At("control", "check")
  /\ Goto("control", "sleep")
  /\ UNCHANGED <<stateVars, outVars, handlerVars, storeVars, synced, local,
                 due>>

ScheduleDue ==
  /\ At("control", "check")
  /\ cfg.cmode = "auto"
  /\ synced
  /\ due' \in SchedPcts
  /\ Goto("control", "apply")
  /\ UNCHANGED <<stateVars, outVars, handlerVars, storeVars, synced, local>>

ControlApply ==
  /\ At("control", "apply")
  /\ cfg' = SetCurtain(cfg, "auto", due)
  /\ Goto("control", "drive")
  /\ UNCHANGED <<live, outVars, handlerVars, storeVars, synced, local, due>>

ControlDrive ==
  /\ At("control", "drive")
  /\ out' = [out EXCEPT !.servo = ClampPercent(due)]
  /\ due' = None
  /\ Goto("control", "open")
  /\ UNCHANGED <<stateVars, blink, ledState, handlerVars, storeVars, synced,
                 local>>

ControlStep ==
  \/ ControlSample
  \/ ControlActuate
  \/ NothingDue
  \/ ScheduleDue
  \/ ControlApply
  \/ ControlDrive
  \/ SaveConfig("control")

-----------------------------------------------------------------------------
(* The HTTP server task. *)

\* http_server_api_control_handler up to its three setters: one snapshot of
\* the state fills every key the body does not carry
ControlRequest(req) ==
  /\ At("httpd", "idle")
  /\ args' = Overlay(req, cfg)
  /\ stage' = "thermal"
  /\ reply' = "none"
  /\ Goto("httpd", "apply")
  /\ UNCHANGED <<stateVars, outVars, storeVars, synced, local, due>>

\* The critical section of the current setter
HttpdApply ==
  /\ At("httpd", "apply")
  /\ cfg' = CASE stage = "thermal" -> SetThermal(cfg, args)
              [] stage = "curtain" -> SetCurtain(cfg, args.cmode, args.curtain)
              [] stage = "rgb" -> SetRgb(cfg, args)
  /\ Goto("httpd", IF stage = "thermal" THEN "open" ELSE "drive")
  /\ UNCHANGED <<live, outVars, handlerVars, storeVars, synced, local, due>>

\* servo_pwm_set or rgb_pwm_set, after the mutex has been given back
HttpdDrive ==
  /\ At("httpd", "drive")
  /\ out' = IF stage = "curtain"
            THEN [out EXCEPT !.servo = ClampPercent(args.curtain)]
            ELSE [out EXCEPT !.light = LightOf(args)]
  /\ Goto("httpd", "open")
  /\ UNCHANGED <<stateVars, blink, ledState, handlerVars, storeVars, synced,
                 local, due>>

\* toogle_led: the server drives the alarm GPIO from a level of its own
ToggleLed ==
  /\ LedToggles
  /\ At("httpd", "idle")
  /\ ledState' = ~ledState
  /\ out' = [out EXCEPT !.led = ledState']
  /\ UNCHANGED <<stateVars, blink, handlerVars, storeVars, synced, pc, local,
                 due>>

HttpdStep == HttpdApply \/ HttpdDrive \/ SaveConfig("httpd")

-----------------------------------------------------------------------------
(* wifi_app.c: tasks of priority 5 that show a colour through rgb_led.c and *)
(* set the time.                                                            *)

WifiShowsColour ==
  /\ \E c \in WifiColours :
       out' = [out EXCEPT !.light = [colour |-> c, bright |-> 100]]
  /\ UNCHANGED <<stateVars, blink, ledState, handlerVars, storeVars, synced,
                 pc, local, due>>

TimeSync ==
  /\ ~synced
  /\ synced' = TRUE
  /\ UNCHANGED <<stateVars, outVars, handlerVars, storeVars, pc, local, due>>

\* The same tasks read and write Wi-Fi credentials: to ctrl_cfg they matter
\* only because they hold the NVS lock meanwhile
WifiNvsEnter ==
  /\ nvs = "none"
  /\ nvs' = "wifi"
  /\ UNCHANGED <<stateVars, outVars, handlerVars, synced, pc, local, due, snap,
                 blob, durable>>

WifiNvsLeave ==
  /\ nvs = "wifi"
  /\ nvs' = "none"
  /\ UNCHANGED <<stateVars, outVars, handlerVars, synced, pc, local, due, snap,
                 blob, durable>>

-----------------------------------------------------------------------------

Next ==
  \/ ControlStep
  \/ \E req \in Requests : ControlRequest(req)
  \/ HttpdStep
  \/ ToggleLed
  \/ WifiShowsColour
  \/ WifiNvsEnter
  \/ WifiNvsLeave
  \/ TimeSync
  \/ PowerCut

Spec == Init /\ [][Next]_vars

\* No task has a higher priority than control_task and the lock queues its
\* waiters by priority, so control_task takes every step it is offered again
\* and again; the server does too, because each cycle of control_task ends in
\* a vTaskDelay of one second.  An NVS call of the Wi-Fi tasks returns, and
\* since check_sta_connection_state polls every 20 seconds, the Wi-Fi tasks
\* cannot hold the lock in all the delays of control_task.
Fairness ==
  /\ SF_vars(ControlStep)
  /\ SF_vars(HttpdStep)
  /\ WF_vars(WifiNvsLeave)
  /\ []<>Asleep => []<>(Asleep /\ nvs # "wifi")

FairSpec == Spec /\ Fairness

-----------------------------------------------------------------------------
(* Properties *)

ControlLabels == {"sleep", "act", "check", "apply", "drive", "open", "snap",
                  "blob", "commit"}
HttpdLabels == {"idle", "apply", "drive", "open", "snap", "blob", "commit"}

\* Every variable has its type, and a value that lives in a stack frame (a
\* copy, a snapshot, the handler's arguments) is there when a step reads it.
TypeOK ==
  /\ cfg \in Config
  /\ live \in Live
  /\ out \in [fan : Percent, servo : Percent, light : Light, led : BOOLEAN]
  /\ blink \in BOOLEAN /\ ledState \in BOOLEAN /\ synced \in BOOLEAN
  /\ pc \in [Tasks -> ControlLabels \cup HttpdLabels]
  /\ pc["control"] \in ControlLabels
  /\ pc["httpd"] \in HttpdLabels
  /\ pc["control"] = "act" => local \in [cfg : Config, live : Live]
  /\ pc["control"] \in {"apply", "drive"} => due \in SchedPcts
  /\ stage \in Stages
  /\ pc["httpd"] # "idle" => args \in Config
  /\ reply \in {"none", "200", "500"}
  /\ snap \in [Tasks -> Config \cup {None}]
  /\ \A t \in Tasks : pc[t] = "blob" => snap[t] \in Config
  /\ nvs \in Tasks \cup {"none", "wifi"}
  /\ blob \in Config \cup {None}
  /\ durable \in Config \cup {None}

\* What every setter and every boot promise about a configuration: the set
\* point in its range, the alarm threshold above it by the span the fan law
\* divides by, percentages in percent.
Sane(c) ==
  /\ c.desired \in DesiredRange
  /\ c.max \in c.desired + Span .. MaxTempCeil
  /\ c.mfan \in Percent /\ c.curtain \in Percent /\ c.bright \in Percent

\* The configuration is sane in RAM, in every copy a task holds and in flash,
\* whatever numbers a request carried and whatever was interrupted.
ConfigSane ==
  /\ Sane(cfg)
  /\ pc["control"] = "act" => Sane(local.cfg)
  /\ \A t \in Tasks : pc[t] = "blob" => Sane(snap[t])
  /\ blob # None => Sane(blob)
  /\ durable # None => Sane(durable)

\* control_task applies an agenda entry only while the curtain is in
\* automatic mode: the mode it read before copying the agenda still holds
\* when set_curtain writes, so a manual choice is never overridden.
ManualNotOverridden ==
  [][pc["control"] = "apply" /\ pc'["control"] = "drive"
       => cfg.cmode = "auto"]_vars

\* The outputs control_task drives from its private copy are those of the
\* state at that moment: between giving the mutex back and writing the LEDC
\* channels nobody has changed a setting that the copy would undo.
ActuatesCurrentState ==
  [][pc["control"] = "act" /\ pc'["control"] = "check"
       => /\ out'.servo = cfg.curtain
          /\ out'.light = LightOf(cfg)
          /\ out'.fan = live.fan]_vars

\* control_task sets the outputs of automatic mode by the documented law:
\* stopped at or below the desired temperature, full speed from the maximum
\* on, the nearest percentage to the straight line in between, and never an
\* alarm without full speed.
FanFollowsTemperature ==
  [][pc["control"] = "act" /\ pc'["control"] = "check"
        /\ local.cfg.tmode = "auto"
       => LET rise == local.live.temp - local.cfg.desired
              range == local.cfg.max - local.cfg.desired
          IN  /\ rise <= 0 => out'.fan = 0
              /\ rise >= range => out'.fan = 100
              /\ rise \in 0 .. range =>
                   2 * (out'.fan * range - 100 * rise) \in -range .. range
              /\ out'.led => out'.fan = 100]_vars

\* While the alarm lasts, the LED changes level in every cycle of
\* control_task: one second on, one second off.
AlarmBlinks ==
  [][pc["control"] = "act" /\ pc'["control"] = "check"
        /\ local.live.alarm
       => out'.led = ~out.led]_vars

SameButCurtain(c, d) == [c EXCEPT !.curtain = 0] = [d EXCEPT !.curtain = 0]

\* Once POST /api/control has answered 200, everything in force except the
\* curtain position is committed to flash, whatever control_task is doing.
AckedSettingsDurable ==
  pc["httpd"] = "idle" /\ reply = "200"
    => durable # None /\ SameButCurtain(durable, cfg)

\* A board that boots after an answer of 200 comes up with the settings that
\* were in force, the curtain position excepted; only a flash that cannot be
\* read sends it back to the defaults.
AckedSettingsSurvive ==
  [][reply = "200" /\ reply' = "none" /\ pc["httpd"] = "idle"
        /\ pc'["httpd"] = "idle"
       => SameButCurtain(cfg, cfg') \/ (FlashFaults /\ cfg' = DefaultConfig)]_vars

\* The settings a client makes, the position of the curtain excepted, by the
\* setter that writes them
ThermalFields == {"tmode", "desired", "max", "mfan"}
ModeField == {"cmode"}
LightFields == {"colour", "bright"}
Fields == ThermalFields \cup ModeField \cup LightFields

SettingsOf(c) == [f \in Fields |-> c[f]]

Settings == {s \in [tmode : Mode, desired : DesiredRange, max : Int, mfan : Percent,
                    cmode : Mode, colour : Colours, bright : Percent] :
               s.max \in s.desired + Span .. MaxTempCeil}

InForce == SettingsOf(cfg)

\* What the request being served will have set once its three setters have run
Wanted == SettingsOf(IF pc["httpd"] = "idle" THEN cfg ELSE LoadConfig(args))

Saving == {t \in Tasks : pc[t] = "blob"}

\* What a boot would come up with now or once a save has gone on
Candidates == {cfg, LoadConfig(blob), LoadConfig(durable)} \cup {snap[t] : t \in Saving}

Bootable == {SettingsOf(c) : c \in Candidates}

Answer == IF pc["httpd"] = "idle" THEN reply ELSE "pending"

\* What SettingsStore speaks of, in terms of the control core
Store == INSTANCE SettingsStore
           WITH Parts <- {ThermalFields, ModeField, LightFields},
                Default <- SettingsOf(DefaultConfig), Forgets <- FlashFaults,
                inForce <- InForce, wanted <- Wanted, bootable <- Bootable,
                answer <- Answer

\* The control core implements the settings store: each request takes effect
\* part by part, all of it by an answer of 200, and whatever a power cut or a
\* failing NVS call interrupts, a boot comes up with settings that have been
\* in force since the last such answer, or with the defaults when the flash
\* cannot be read.  Entries of the agenda and saves of control_task that cross
\* those of the handler do not show.
ImplementsStore == Store!Spec

\* A request that does not carry curtain_percent leaves the curtain where it
\* is (stated for instances in which no request carries it).
UnnamedCurtainKept ==
  [][(\A r \in Requests : r.curtain = Absent)
        /\ pc["httpd"] = "apply" /\ pc'["httpd"] = "drive"
       => cfg'.curtain = cfg.curtain]_vars

\* The servo and the RGB LED may show something else than s_state for a
\* moment (a setter writes them after giving the mutex back, rgb_led.c writes
\* them without asking), but they come back to it.
OutputsDrift == out.servo # cfg.curtain \/ out.light # LightOf(cfg)

OutputsHeal == OutputsDrift ~> ~OutputsDrift

\* Every POST /api/control is answered: neither the NVS lock, nor a failing
\* flash, nor control_task's priority keeps the handler for ever.
RequestAnswered == pc["httpd"] # "idle" ~> pc["httpd"] = "idle"

=============================================================================
