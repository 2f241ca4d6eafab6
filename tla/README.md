# Verification of the STR 2026 climate-and-curtain controller

The subject is `ProyectoFinal`, the ESP32 firmware of the repository: a
temperature-driven fan with an over-temperature alarm, a curtain servo, an RGB
light, a weekly agenda, and a web page over the board's own Wi-Fi access point
and, when credentials are known, over the house network. The other directories
are course exercises that lead up to it; `Parcial01` is the one with concurrency
of its own. Two libraries come with the firmware as sources: the JSON library
`managed_components/espressif__cjson`, through which every request and reply goes,
and the MQTT client `managed_components/espressif__mqtt`, which
`main/idf_component.yml` lists for a coming connection to a broker.

This directory holds TLA+ modules translated from the C sources, the TLC
configurations that check them on small instances, and theorems about them
checked by TLAPS. Paths below are relative to `ProyectoFinal/main/` unless they
say otherwise; `mqtt/` and `cJSON/` are the two libraries.

## 1. Inventory

The build (`main/CMakeLists.txt`) compiles `main.c`, `control_system.c`,
`http_server.c`, `wifi_app.c`, `register.c`, `rgb_led.c`, `adc_module.c` and
`ntc_module.c`. The chip is configured with one core
(`CONFIG_FREERTOS_UNICORE=y`) and with a flash driver that yields during an erase
(`CONFIG_SPI_FLASH_YIELD_DURING_ERASE=y`).

| Part | State | Operations | Talks to |
|---|---|---|---|
| **Control core** `control_system.c` | `s_state` under `s_state_mutex`; LEDC duties; the local `alarm_gpio_level`; NVS blob `ctrl_cfg/state_v1` | `control_task` (priority 5, one cycle per second: sample, drive the outputs, apply the agenda); `set_thermal`, `set_curtain`, `set_rgb`; `save_config`, `load_config`; `init`, `start` | NTC and ADC (reads), agenda (`registers_copy_all`), Wi-Fi (`get_state_time_was_synchronized`), NVS |
| **HTTP server** `http_server.c` | `s_led_state`; `g_wifi_connect_status`; `g_fw_update_status`; monitor queue (8); the restart timer | esp_http_server task (priority 4), one request at a time: `/api/control`, `/api/state`, agenda URIs, `wifiConnect`, OTA upload, `/toogle_led.json`; monitor task (priority 3) | every other part |
| **Agenda** `register.c` | ten registers in RAM under `s_reg_mutex`; NVS blobs `reg_01` to `reg_10` | `init`, `update`, `erase`, `copy_all`, `get_json` | HTTP handlers write, `control_task` reads |
| **Wi-Fi application** `wifi_app.c` | message queue (3); credentials in NVS `storage`; `time_was_synchronized`; `wifi_config`; a binary semaphore | `wifi_app_task` (priority 5), `check_sta_connection_state` (every 20 s), event handlers, `obtain_time` | HTTP monitor (connection status), `rgb_led.c`, NVS |
| **Status colours** `rgb_led.c` | LEDC channels 1 to 3, which the control core also owns | three fixed colours | called by Wi-Fi |
| **Boot** `main.c` | NVS partition | `app_main`: NVS, control core, Wi-Fi | |
| **Fan law and NTC** | none | `compute_fan_percent`, clamps, the Beta model | |
| **JSON library** `cJSON/cJSON.c`, `cJSON_Utils.c` | items linked in lists, on the heap | parse, print, build, edit, compare, sort, pointers, patches, merge patches | called by the HTTP handlers |
| **MQTT client** `mqtt/mqtt_client.c`, `lib/` | client state and task, the outbox, one buffer for writing and one for reading, STOPPED and two request bits | the task's loop (connect, receive, resend, keep-alive, wait to reconnect); `start`, `stop`, `disconnect`, `reconnect`, `publish`, `enqueue`, `subscribe`, `unsubscribe` | an application, a broker |
| **Parcial01** `Parcial01/Parcial1/main` | settings, temperature, unit; a mutex around ADC and terminal | LED 2's task (priority 3), LED 1's with the button (2), the terminal's (1) | |
| **Dashboard** `webpage/` | browser | polling, forms | HTTP |

What is hard about it:

* **Two writers of one configuration.** The HTTP task and `control_task` both
  call setters. A setter has three parts (critical section, output, save) and
  only the first is under the mutex. What saves the design from most of the
  interleavings is not the mutex but the scheduler: one core, `control_task` above
  the server. The server therefore runs only while `control_task` is blocked, and
  that can be in its delay, on the NVS lock, or inside a flash operation of its own.
* **Data carried over a blocking call.** The `/api/control` handler takes one
  snapshot of `s_state`, then runs three setters, each with a flash write. A save takes
  its snapshot, then blocks in NVS.
* **Failure and power loss.** A setter changes RAM before it saves; a request is
  three saves; the board boots from whatever the last commit left.
* **Shared outputs.** `rgb_led.c` writes the RGB channels without `s_state`;
  `toogle_led` writes the alarm GPIO from a level of its own.
* **Numbers.** Thresholds come from JSON without any relation between them, and
  percentages are cast to `uint8_t` before they are clamped.
* **Time.** An agenda entry is due in a window of three seconds, a cycle of
  `control_task` lasts one second plus its work.
* **Status shown to a client** (connection, firmware update) is set by several tasks
  and not always reset, through a queue that drops what does not fit.
* **One Wi-Fi configuration, two connectors.** The server stores a pair, loads it
  again and connects, while the 20-second poll loads and connects too; the shared `wifi_config` is written before the
  semaphore is taken; a pair is two NVS strings.
* **Lost, late and repeated packets.** The MQTT client sends again what is not
  answered in time, over a connection that may be new, while answers to the first
  copy are under way; the application's calls come between two iterations of its
  loop; a stop may come at any point of it.
* **Streams.** A packet arrives in pieces cut anywhere, and one longer than the
  buffer leaves or arrives in fragments whose bookkeeping outlives it.
* **Linked items.** Any sequence of additions, insertions, detachments and patches
  must leave every list linked both ways and every item owned once, also when
  memory runs out half way.

What makes each part correct:

* control core: a sane configuration in RAM and flash at all times; a fan that
  obeys the documented law; an alarm that blinks; manual mode never overridden by the
  agenda; the outputs never driven from an obsolete copy, and back in step with
  the state after any disturbance; a 200 answer means committed; a boot restores
  what was committed; every request is answered;
* agenda: RAM and flash hold the same entries when nothing is in progress, an
  acknowledged update or erase survives a reboot, a due entry is applied;
* Wi-Fi and monitor: the pair of an answered request is in force until the next
  request, through restarts and whatever the poll does (the access point's only until the next connection); the station comes back to its
  network; a client learns that it did;
* OTA: the board always runs a whole image, an upload answered with ok takes effect at
  the next restart, and there is one;
* MQTT: a level-2 message is forwarded at most once, what is reported as published
  has reached the broker, nothing handed over is forgotten, the outbox drains, and
  `stop` returns when and, but for a stop at the head of a second task, only when the task has ended;
* MQTT packets: writer and reader agree on where each packet ends, and a message
  arrives whole and in order;
* JSON: lists linked both ways, every item owned once; printed text parses back; each
  call changes the documents the way the headers and RFC 6901, 6902 and 7396 say;
* Parcial01: an unlocked reader sees whole settings; a press of the button counts once.

`PROJECT.json` lists the hazards with their lines and the property that covers
each, or why none does.

## 2. Modules

| Module | What it is |
|---|---|
| `FanLaw` | constant-level: the clamps, the `uint8_t` cast and `compute_fan_percent`. Temperatures are integers in half degrees, the granularity of the 0.5-degree span between thresholds |
| `ControlSystem` | `control_system.c` with the `/api/control` handler, the NVS blob, power loss, and what other tasks do to its outputs and to the NVS lock; implements `SettingsStore` |
| `SettingsStore` | abstract: what an answer to `/api/control` promises about the settings, now and after a boot |
| `MCControl` | small instances of `ControlSystem` for TLC |
| `ControlSystemProofs` | theorems about `FanLaw`, for all temperatures and thresholds, and about `ControlSystem`: types, sanity, what the priorities protect, the fan law, the durability of acknowledged settings, the refinement of `SettingsStore` |
| `AgendaData` | what a register holds and what a request may ask (constant-level) |
| `AgendaTable` | abstract: the durable table the agenda promises a client |
| `Agenda` | `register.c` with its two writing handlers, NVS failures and power loss; implements `AgendaTable` |
| `AgendaClock` | `Agenda` with the local time and `apply_schedule_if_needed`: the three-second window against the cycle of `control_task` |
| `AgendaReply` | the length of the JSON text `registers_get_json` renders |
| `MCAgenda`, `MCAgendaClock` | small instances for TLC |
| `AgendaProofs` | theorems about `Agenda` and `AgendaClock` |
| `Monitor` | the monitor task of `http_server.c`, its queue and status values, the restart timer |
| `WifiApp` | `wifi_app.c` with the two Wi-Fi handlers of `http_server.c`; the driver and the air are external |
| `OtaUpdate` | the upload handler, the boot partition and what the bootloader makes of it |
| `Network` | `Monitor`, `WifiApp` and `OtaUpdate` composed, with power cuts, aborts and the timer's restart |
| `MCNetwork` | a small instance |
| `NetworkProofs` | theorems about `Network` |
| `SequenceLemmas` | lemmas about sequences, `FlattenSeq` and recursive functions over the naturals, for the proofs about bytes |
| `MqttDelivery` | abstract: the levels of delivery `docs/en/index.rst` promises |
| `MqttClient` | the client's task, its API, the outbox, the network and a broker; implements `MqttDelivery` |
| `MqttProofs` | theorems about `MqttClient` |
| `MqttMessage` | constant-level: the layout of packets in `lib/mqtt_msg.c`, both ways |
| `MqttWire` | packets written to and read from a connection in pieces |
| `MqttWireProofs` | theorems about `MqttMessage` and `MqttWire` |
| `MCMqtt`, `MCWire` | small instances |
| `JsonLinks` | the items of cJSON in memory, and the calls that link and unlink them (constant-level) |
| `JsonHeap` | what cJSON does with whole lists and trees: look-up, deletion, sorting, copies |
| `JsonString` | the escapes of strings, byte by byte, both ways, and the sizes counted for them beforehand (constant-level) |
| `JsonProofs` | theorems about `JsonLinks` and `JsonString` |
| `JsonText` | parsing and printing |
| `JsonPatch` | pointers, patches, generated patches and merge patches |
| `JsonValues` | abstract: documents as values, and what each call does to them |
| `Json` | a caller of all that in one memory that may run out; implements `JsonValues` |
| `MCJson` | a small instance |
| `Parcial`, `MCParcial` | the three tasks of `Parcial01` and a small instance |
| `ParcialProofs` | theorems about `Parcial` |

`ControlSystem` and `Agenda` share `FanLaw` (the clamps and the cast). They meet in
`apply_schedule_if_needed`: in `ControlSystem` the matching entry is any member of
`SchedPcts` and the setter is modelled step by step; in `AgendaClock` the matching is
exact and the setter is one step. `Network` shares no state with the two: the agenda and
the settings have keys of their own in NVS, and what Wi-Fi does to the colours, the clock
and the NVS lock is in `ControlSystem` as the steps of its environment. The JSON library and the
MQTT client are modelled on their own, as libraries with any caller that keeps to
their headers.

### From the code to `ControlSystem`

State. `cfg` and `live` are the two halves of `s_state`: what
`persisted_control_config_t` saves, and what each cycle computes. `out` is what
the LEDC channels and the GPIO show. `local`, `due`, `args`, `snap` are stack
frames: the copy `control_task` drives the outputs from, the curtain position of
the agenda entry being applied, the handler's values, the snapshot of a save. A frame's variable is reset to `None`
when its function returns. `pc` says where each task is, `stage` which of its three
setters the handler is in. `nvs` is the lock inside the NVS library; `blob` is
what a reader of NVS would get and `durable` what the last commit left.

Steps. A step is a stretch of code the other task cannot observe half done:

| Action | Code |
|---|---|
| `ControlSample` | end of `vTaskDelay`, sensor read, the critical section of `control_task` |
| `ControlActuate` | the three pwm calls and the GPIO |
| `NothingDue`, `ScheduleDue` | `apply_schedule_if_needed` up to the setter |
| `ControlApply`, `ControlDrive` | `control_system_set_curtain` in `control_task` |
| `ControlRequest`, `HttpdApply`, `HttpdDrive` | the handler's snapshot and overlay; the critical section and the output of each setter |
| `NvsEnter`, `NvsOpen`, `SaveSnapshot`, `NvsSetBlob`, `NvsCommit`, `NvsFails` | `control_system_save_config`, in either task, and what its caller does with the result (`SetterReturns`) |
| `ToggleLed` | `POST /toogle_led.json` |
| `WifiShowsColour`, `TimeSync`, `WifiNvsEnter`, `WifiNvsLeave` | what the Wi-Fi tasks do to this part |
| `PowerCut` | loss of power and `app_main` up to `control_system_start` |

Scheduling. `MayRun(t)` is the single core: the server takes a step only when
`ControlBlocked`, or when its priority is not below `control_task`'s. The
priorities are constants, so that a theorem can say which property depends on them.

Data. Colours are model values, a request body is a record with `Absent` for a
missing key, a sensor reading is a temperature or `NoReading`. Which agenda entry
matches the clock is a choice from `SchedPcts`. Handlers that only read
(`/api/state`) are left out.

### From the code to `Agenda` and `AgendaClock`

State. `ram` is `s_registers`, with the value `Empty` for an inactive register;
`blob` and `durable` are the keys `reg_01` and following as in `ControlSystem`;
`req`, `step` and `reply` are the one request the server is serving. `AgendaClock`
adds the local time (`wday`, `hour`, `minute` as in `struct tm`, and a `tick` within
the minute), `synced`, the curtain and its mode, the ticks `elapsed` since the last
look, and a history variable `calm`: since the minute began, nobody but
`control_task` has touched agenda, curtain, mode or clock.

| Action | Code |
|---|---|
| `Accept`, `Reject` | the handlers' checks, and those of `registers_update` and `registers_erase` that come before NVS |
| `Store`, `StoreFails` | `nvs_open` with `nvs_set_blob` or `nvs_erase_key`; an update stops at an error, an erase goes on |
| `Commit`, `CommitFails` | `nvs_commit`, with the same difference |
| `Install` | the critical section under `s_reg_mutex`, the answer 200 |
| `PowerCut` | loss of power and `registers_init`, which counts an unreadable key as inactive |
| `Look` | `apply_schedule_if_needed`: the first matching register, in the first seconds of its minute |
| `Tick` | time passes; a cycle of `control_task` lasts from `CycleMin` to `CycleMax` ticks |
| `SetCurtain`, `TimeSync`, `Reboot` | `/api/control` on the curtain; SNTP; a power cut as the clock sees it |

No two steps of a request need finer grain: the server is the only writer of the
keys and of `s_registers`, and `control_task` copies the whole table under the mutex.

### From the code to `Monitor`, `WifiApp`, `OtaUpdate` and `Network`

State. `httpd` is where esp_http_server is in the handler of the one request it
serves, `poll` where `check_sta_connection_state` is; `queue` and `app` are the two
message queues; `wifiStatus`, `fwStatus`, `timer` are the monitor's globals and the restart
timer; `sem` is `mySemaphore`, `conf` the shared `*wifi_config`, `loaded` the stack frames
of `load_wifi_credentials`; `store` is what a reader of NVS gets and `flash` what
the last commit left. `apConf`, `target` and `link` are the driver's; `whole`, `boot`
and `running` the two OTA partitions, the one `otadata` selects and the one that runs.
`acked` and `verdict` are histories: the pair of the last answered request, the end of
the last upload of this boot.

| Action | Code |
|---|---|
| `ReceiveWifi`, `ReceiveOta`, `TimerAbort` | `http_server_monitor`; the last one is `esp_timer_start_once` on a running timer, where `ESP_ERROR_CHECK` aborts |
| `StartHttpServer`, `ConnectToSta`, `ReportAddress` | `wifi_app_task` |
| `GotIp` | `wifi_app_event_handler`; the disconnect event is ignored by the code |
| `WifiConnectRequest`, `ConfPassword`, `StoreField`, `CommitStore`, `Disconnect` | the handler of `/wifiConnect.json` with `save_wifi_credentials`, one step for each NVS call |
| `TakeSemaphore`, `LoadField`, `FillConf`, `ConnectSetsAp`, `ConnectSta` | `connect_to_wifi`, in either task: the semaphore, two NVS calls, the station's pair, the access point's configuration, the connection |
| `PollLook`, `ObtainTime` | one look of the poll, 20 s after the last |
| `ApConfigRequest`, `StoreField`, `ApStoreFails`, `ApSetConfig`, `ApSetConfigFails` | `/api/ap_config`: the driver is set even when NVS failed, and may refuse (`wifi_err`); either failure is answered 500 |
| `UploadBegins`, `FirstChunk`, `NextChunk`, `UploadFails`, `WriteFails`, `UploadEnds` | the upload handler with its three ways out |
| `Associate`, `AssociationFails`, `LinkLost` | the driver and the air (external) |
| `PowerCut`, `TimerExpires` | loss of power or an abort; `esp_restart` in the timer's callback. Then `Boot` |

`wifi_app.c` does not compile as committed: an argument list is elided as `(...)` at lines
78 to 80, and `connect_to_wifi` sets the access point to an `ap_config` it does not declare (line 456; the
local one of `wifi_app_soft_ap_config` is another). The model takes the first for the call it stands for. Of the
second it knows no more than the source says: `ConnectAp`, a constant, is the set of configurations
`ap_config` may hold, and `ConnectSetsAp` gives the access point one of them at every connection, also of the poll, or none when
the driver refuses, which the code does not look at. `recast` remembers that
`connect_to_wifi` has set the access point since a request of `/api/ap_config` was answered with ok; the next request or a
restart sets it anew. A pair whose lengths the handlers refuse (`Refused`) is answered 400
and changes nothing. `ESP_ERROR_CHECK` in `save_wifi_credentials`, `load_wifi_credentials`
and `wifi_app_connect_sta` is covered by `PowerCut`, which may come between any two steps.

A pair is one record of two fields, since the code writes and reads the fields
apart: a mixed pair can arise, and a power cut keeps either value of each field that was
not committed.

### From the code to `MqttClient`

State. `state`, `run`, `waitPing` are fields of the client, `stopped` and `bits` its event bits,
`task` the function of the loop its task is about to run, `caller` the call of the application that is
waiting. The outbox is a set with a state and a place per message. `link`, `up`, `down` are the connection
and the packets on it; a `silent` link has lost its peer without a sign. `held`, `inbound`, `got`
are the broker's. The rest is history.

| Actions | Code |
|---|---|
| `TaskStarts`, `TaskEnters`, `TaskClears` | the head of `esp_mqtt_task`, which without the lock sets `run`, then the state, then clears STOPPED_BIT (`mqtt_client.c:1655` to 1658) |
| `EnterState` to `IterationEnds`, `LoopEnds`, `TaskEnds` | the loop of `esp_mqtt_task` and its end |
| `Connect`, `ConnectFails`, `NoTransport`, `KeepWaiting`, `Reconnect` | `esp_mqtt_connect` and the two waiting states |
| `Receive...`, `Finish` | `mqtt_process_receive` and its handlers |
| `SendQueued`, `Retransmit`, `ResendPubrel`, `DeleteExpired` | `mqtt_resend_queued`, `mqtt_resend_pubrel`, `mqtt_delete_expired_messages`, `lib/mqtt_outbox.c` |
| `KeepAlive`, `KeepAliveFails`, `Refresh`, `Tick` | `process_keepalive`, the refresh of the connection |
| `Start`, `Stop`, `StopReturns`, `Disconnect`, `ReconnectCheck`, `ReconnectSet` | the calls of the same names |
| `Publish`, `Enqueue`, `SubscribeCheck`, `UnsubscribeCheck`, `SendRequest` | the calls that send |
| `Broker...`, `LinkFails` | external: a broker that forwards a level-2 message at its PUBREL and keeps the session, and a network that resets or goes silent |

A step is one function of the loop: the task holds `api_lock` from the top of the
loop to the poll, and what an event handler calls is a call made when the lock is next
free. Assumed of the caller: one application task, and `start` only when no task
exists (a second `start` during `INIT` makes a second task; see the hazards). Identifiers of messages in use are distinct:
`mqtt_msg.c:71` draws them at random without looking. Not modelled: `outbox_limit`, allocation
failures, MQTT 5 (not compiled), TLS. Expiry removes any oldest part of the outbox.

### From the code to `MqttMessage` and `MqttWire`

`PublishMessage` and `OtherMessage` lay a message out the way `lib/mqtt_msg.c` does, with a
header of five bytes reserved, the length in base-`Base` digits, and a fragment when the
buffer is too short; `TotalLength`, `PublishTopic`, `PublishData` and `MessageId` read it back.
A byte has `2 * Base` values, `Base = 128` in the code. `MqttWire` has one writer
(`esp_mqtt_client_publish` online and offline, `enqueue`, `esp_mqtt_write`, `mqtt_resend_queued`) with the one
`outbound_message` it keeps, and one reader (`mqtt_message_receive` with its
positions, `deliver_publish` with its loop), which reads any number of bytes each time. A lost
connection and a stalled one are `Lose`, `Stalls`, `TimesOut` and `PayloadStalls`.
`Left` is what the division loop of `fini_message` has left before each byte of the length, so that
`LengthBytes` and `RemainingLength` need no recursion; the loop of `mqtt_get_total_length` is the recursive
function inside `TotalLength`. `Plan` is the set of calls the application makes; `PlanAssumption` says what
`mqtt_msg.c` refuses to lay out (an empty topic, a body longer than four length bytes can say) and what a
message of each type has.

A message larger than the buffer is read in two parts, its headers and its data, and
`HeaderCounted` is what the code counts of the headers: the two bytes of the topic's length are missing (`mqtt_client.c:1328`).
So headers of one or two bytes more than the buffer holds are taken for ones that fit. `Received` says what
becomes of such a message (section 3), and `ReceivedAsSent` compares what arrives with that.

The end of `MqttWire` names four conditions on `Plan`, each of which keeps out one thing the code gets wrong.
They are the hypotheses of the theorems, and `MCWire` assumes them of its plan, so that TLC evaluates them:

| Condition | What the code does otherwise |
|---|---|
| `OffsetsHarmless` | a fragmented message that is not sent at once leaves its `fragmented_msg_data_offset`, and the next publish that fits is written from there on |
| `LengthsPlain` | after a timeout `mqtt_message_receive` goes on with the length when the last byte it has is one of the first five and has its high bit set (`mqtt_client.c:1284`), though that byte may belong to an identifier; then it takes another byte, and if that one is high too, one of the next packet |
| `IdentifiersFound` | `mqtt_get_id` looks for the identifier of a SUBACK behind a length of one byte |
| `PacketsReadable` | the rest of a message that a stall has cut short is read as a packet; `mqtt_get_total_length` takes any run of high bytes for a length, and the read of the topic's length then goes on behind it, again and again |

### From the code to the JSON modules

Memory is a function from addresses to items with `next`, `prev`, `child`, a key, a kind
and a value; a call that allocates gets a number of allocations that succeed. `JsonLinks` has
`add_item_to_array`, `cJSON_InsertItemInArray`, `cJSON_DetachItemViaPointer` and
`cJSON_ReplaceItemViaPointer`, assignment by assignment, and says what a well-linked memory is (`WellLinked`);
`JsonHeap` has look-up, `cJSON_Delete`, `cJSON_Duplicate` and the sort; `JsonText` has `parse_value` to `parse_object` with the depth counter and the printing functions;
`JsonString` has `parse_string`, `utf16_literal_to_utf8` and `print_string_ptr`. A string token in a text is what
follows the opening quote, the closing one included, as `parse_string` has to find it: the loop that looks for it and counts
is `Skipped`, `Closings` and `Allocated`, the one that writes is `Round`. `JsonPatch` has
`get_item_from_pointer`, `apply_patch`, `create_patches`, `merge_patch` and `generate_merge_patch`. `JsonLinks` and
`JsonString` are free of recursive operators, the others are for TLC only. `Json` is a caller: each
of its actions is one call of the library, on any documents and places it has.
An item and its key are one allocation. Keys are numbers, 2k and 2k+1 being the k-th word of the alphabet in capitals and in
small letters; `Order` compares them as `strcmp` does, all capitals first, or without regard to case. Numbers have no
spelling.

### From the code to `Parcial`

`pc` says where each of the three tasks is, `holder` who has the mutex (with
priority inheritance, as FreeRTOS mutexes have), `uart` the settings the terminal writes,
`local` the frame LED 1's task reads them into without the lock, `finger` the person at the button.
The highest-priority runnable task runs. The terminal blocks while it sends, the transmit
buffer having length 0, and holds the mutex meanwhile, so that is when other tasks' waits of 50 and 100 ms time out.
Assumed: a contact bounces for less than one poll (20 ms), and presses are at
least 50 ms apart. When a periodic line is due is a free choice; the terminal's
line editor and `CAL_MODE` are left out.

## 3. What the runs check

| Run | Question | Bounds |
|---|---|---|
| `control_race` | both tasks and the Wi-Fi tasks on one core, and clients who toggle the LED: `ManualNotOverridden`, `ActuatesCurrentState`, `TypeOK`; under fairness `OutputsHeal` and `RequestAnswered` | three request bodies (to agenda, by hand, light only), one agenda position different from both, one Wi-Fi colour, one temperature |
| `control_crash` | every NVS call may fail, power may go between any two steps, the temperature changes and the sensor drops out: `ConfigSane`, `AckedSettingsDurable`, `FanFollowsTemperature`, `AlarmBlinks`, the refinement `ImplementsStore` | one request within the limits and of two parts, one about the third part with inverted thresholds and percentages out of range; readings inside and above the range, and none, which leaves the 25 degrees of the boot, below it |
| `control_stale` | counterexample to "the state is thread-safe" for a field a request does not name | |
| `agenda_store` | changes and erasures with power cuts between any two NVS calls and changes that cannot be stored: `TypeOK`, `RamIsFlash`, and the refinement `ImplementsTable` | three registers; a position that is cut, one that wraps, one that is missing; every kind of request the handlers refuse |
| `agenda_clock` | no due entry is missed, and what the board acts on is in flash, with every NVS call of update, erase and boot failing at will: `ClockTypeOK`, `NoActiveEntryLost`, `DueEntryApplied` | two registers with entries that collide on one day; minutes of four ticks, a window of three, cycles of one to three |
| `agenda_erase` | counterexample to "an erased entry stays erased" | |
| `agenda_full` | counterexample to "the reply holds the agenda" | ten registers, each for the five working days |
| `network` | Wi-Fi requests, the poll, uploads, lost networks, NVS and flash errors, restarts: `TypeOK`, `AnsweredPairInForce`, `RunningIntact`, `UpdateTakesEffect`; under fairness `UpdateRestarts`, `Reconnects`, `ConnectionReported` | two requests of any kind (the right pair, a mistyped one, a refused one, an access point, an upload), one lost network, one power cut; queues of three; `connect_to_wifi` sets the access point to the built-in pair or fails to |
| `mqtt` | the client against the application, a broker and a failing network: `TypeOK`, `AnsweredIsDelivered`, `ExactlyOnce`, `NothingForgotten`, `StoppedIsEnded`, the refinement `ImplementsDelivery`; under fairness `OutboxDrains`, `DeadPeerNoticed`, `StopEnds` | one failure; seven scenarios, each two messages, or one with more calls or with early retransmissions |
| `wire` | packets in pieces: `TypeOK`, `InStep`, `ReceivedAsSent` | buffers of 16 and 11 bytes, length bytes of two bits and a flag, so that lengths take one to three bytes and messages one to three fragments; headers one byte and three bytes over the buffer; two calls of twelve, one failure |
| `json` | calls in any order with memory running out: `WellFormed`, `RoundTrip`, the refinement `ImplementsValues` | fourteen items, nesting limit two, twelve texts, twelve patches, three calls, two ways of running short |
| `parcial` | the three tasks of `Parcial01`: `SettingsWhole`, `PressCountedOnce` | one colour, two ranges, one pair of limits, two temperatures, polls 20 or 90 ms apart |

In `network`, two requests are the fewest that put one request's work between the steps of the poll and
then a second over the first; the second upload within the eight seconds before the restart is among them. In `mqtt`
the scenarios split what would be one space too large: the interplay of two messages, of a
message with stop and start, with disconnect and reconnect, with early retransmissions, and of two
messages from the broker. `backlog` says how many packets may be on their way when the retransmission
time has passed. In `wire`, whose plan is any two of twelve calls, the large message is
longer than both buffers and the next one comes after it in the same stream. In `json`
the texts include every construct, the escapes of strings, wrong texts and one nested
too deep; three calls are a make, a second make and one that relates the two.

The state spaces of the control runs are finite without any counter: the bounds are the sets of
requests, readings and colours. They are enough because the setters are uniform in
the values they carry: what matters is whether two values are equal and whether a
number is inside or outside a clamp's range, and each set holds a value of every
kind.

In the agenda, registers do not interact except for the order in which a match is
searched, so two with a common day, and a third without one, show all there is. The
length of a day (`DayHours = 1`) and of an hour (`HourMinutes = 2`) only determine how
long a week is; all carries (minute to hour to day to week) still happen. A minute of four
ticks is the shortest with a tick outside the window, and `CycleMax` equal to the
window is the longest cycle for which the property holds: with `CycleMax = 4`
TLC finds an entry that is missed, and `DueApplied` proves `CycleMax <= WindowTicks` enough
for all sizes. A tick is a second of the code; the assumption
on the code is then that a cycle, one second of delay plus its work with its flash
writes, lasts no more than three seconds.

`mqtt`, `wire` and `json` switch deadlock checking off: calls, failures and
scenarios are bounded, and a client that is stopped with nothing left to do may
stop. No other run does: in the control runs `control_task` can always take a step, or
someone holds the NVS lock and will give it back; in `network` the poll goes on; in `parcial` the tasks do.

Fairness (`FairSpec`) is used by three runs.

`control_race`:

* strong fairness of `control_task`: no task has a higher priority, and the NVS
  lock is a FreeRTOS mutex that queues its waiters by priority, so the lock cannot
  be kept from it for ever;
* strong fairness of the server: it may be delayed by any cycle of
  `control_task`, but every cycle ends in a one-second delay during which it runs;
* weak fairness of `WifiNvsLeave`: an NVS call of another task returns;
* if `control_task` is delayed again and again, then again and again it is so while the Wi-Fi
  tasks are not in NVS: they touch it on a request and every 20 seconds.

`network`: weak fairness of each task, of the event handler, of the driver and of a started
timer, because each task ends its work on a request or message and then blocks; strong
fairness of the server's `TakeSemaphore`, because the poll gives the semaphore
back after each connection and then sleeps 20 seconds. An association is assumed to take
longer than the report of the last address (`Reported`): joining takes seconds, the
report two queue operations.

`mqtt`: weak fairness of the loop, the broker, time and the two calls that wait; strong fairness of `Retransmit`
(the timeout passes again and again), of `Reconnect` (the waiting state is left when
`reconnect_timeout_ms` has passed) and of `RequestSend` (the lock is free at every
poll). `Tick`, half a keep-alive period, is assumed long against a live connection.

Nothing is assumed of clients, networks in range, power or flash.

### What the counterexamples say

* `control_stale`. The handler's snapshot is taken before its first setter. While
  `set_thermal` waits for flash, `control_task` moves the curtain by the agenda;
  `set_curtain` then writes back the position of the snapshot although the body
  did not name it. The agenda entry is lost unless its three-second window lasts long enough for a second match.
* `agenda_erase`. `registers_erase` ignores the results of `nvs_erase_key` and
  `nvs_commit`, clears RAM and returns `ESP_OK`: the client reads 200, and after a
  reboot the entry is back. It is a reason why `RamIsFlash` and `ImplementsTable` are
  stated for failures of a change only.
* `agenda_full`. Ten entries for the five working days take 1546 bytes of JSON, the
  handler's buffer has 1536 with the final NUL: the text is cut and a browser cannot parse it.

### What else the models show

Deviations that contradict no sentence of the documentation, or that the models take as
assumptions of the caller:

* control: a save that has taken its snapshot may overwrite the curtain position
  that `control_task` has just saved by the agenda: RAM has the new position and flash the old one until
  the next save. That is why `AckedSettingsDurable` and `AckedSettingsSurvive` except the
  position (and nothing else: no other field has two writers). `toogle_led` inverts a level of its own and
  writes the alarm GPIO, so `AlarmBlinks` is checked without it;
* Wi-Fi: every `connect_to_wifi` sets the access point anew (`wifi_app.c:456`), from the poll as well, so the pair `/api/ap_config` has
  answered with ok is what the access point announces only until the station's next connection, and again after a
  restart, which reads NVS. `AnsweredPairInForce` promises the pair in NVS throughout, and in the driver
  while `recast` is false. After an answer of 500 by `wifi_err` NVS has the new pair and the driver the old one;
* MQTT: `publish` returns -1 when its write fails, although the message stays in the outbox and will be
  sent (`mqtt_client.c:2226`); after a stop and a start `wait_for_ping_resp` keeps its value
  until the connection; `stop` and `start` race as the hazards say. `stop` does not clear STOPPED_BIT (it waits with
  `clearOnExit` false, 1951), nor does the end of a task; the next task does, after it has set `run`. A `stop` between 1655 and
  1658 of a second task (the first one having ended for want of a transport, say) finds `run` and the old bit and returns
  `ESP_OK` at once, with the task alive, where `mqtt_client.h:446` says "Stops *MQTT* client tasks"; a `destroy` after it frees
  what the task uses. `StoppedIsEnded` excepts that interval and nothing else: without `StaleBit` TLC finds
  the case;
* MQTT packets: a publish above level 0 whose headers are one or two bytes longer than `in_buffer` is not refused,
  as the comment and the log line at 1331 intend, since 1328 forgets the two bytes of the topic's length. The application gets it with its topic,
  with identifier 0, and with data that begin where the buffer ended, so that what was left of the identifier comes
  first (`Overlong`, `Received`). The acknowledgement the client sends is drawn from bytes behind the buffer: `mqtt_process_receive`
  asks for the identifier with `message_length`, which is the whole message's (1397); acknowledgements of received messages are not in `MqttWire`.
  At level 0 the topic does not fit then, `deliver_publish` fails and the connection is closed;
* MQTT packets: a stall in the middle of a payload returns `ESP_OK` (`mqtt_client.c:1162`) and
  the rest of the message is lost without an event (`PayloadStalls`); `enqueue` of a level-0 message with `store` false leaves
  the fragment bookkeeping of a large message behind; after a large message queued offline a small publish is laid out with its
  offset. An acknowledgement whose identifier has two high bytes, and which a timeout cuts after the first of
  them, takes the next packet's first byte with it. `mqtt_get_id` reads 0 from a packet with a length of two
  bytes, and `mqtt_get_suback_data` takes a one-byte length for granted. `MCPlan` keeps all that out: with one
  such call in it TLC breaks `InStep` (`OffsetsHarmless`, `LengthsPlain`), `ReceivedAsSent` (`IdentifiersFound`,
  `LengthsPlain`) or, with a stall in data of many high bytes, the bound of `in_buffer` in `TypeOK`
  (`PacketsReadable`);
* JSON: `sort_object` leaves the first item's `prev` as it was (`cJSON_Utils.c:595`), so the next
  addition to an object that was compared or patched loses its members: `Json`'s caller does not add to one.
  `decode_pointer_inplace` writes the wrong byte for `~1` (377); `detach_path` ignores the
  case of keys in every variant (464);
  `generate_merge_patch` walks by `strcmp` two lists it has sorted without regard to case (1406, 1423). Capitals come before small letters for
  `strcmp`, so the walk gets out of step: from `{"a":1,"B":1}` to `{"B":1}` the patch is
  `{"B":1,"a":null,"B":null}`, which makes `{}`. `Merges` promises a patch that leads to the other document only where both orders
  agree on the names (`CaseInOrder`; a call that regards case does so below the members only, where the patches are
  generated without, 1455). The texts of `json` have this case, and without `CaseInOrder` TLC finds it; a `move` into a member of its own deletes the value and
  returns status 9; `cJSON_Minify` misreads an escaped backslash before a quote (`cJSON.c:2916`);
  `\u` with letters that are no digits reads as 0 and ends the string;
* `Parcial01`: a channel outside its range shines at `duty_min`, not at 0 as the comment says
  (`library_led_c.c:80` against 93); an open NTC reads as -273 °C, where `ntc_module.c:31` says "hot".

## 4. What is proved

`ControlSystemProofs` begins with the fan law: the clamps land in their ranges whatever they are given;
`compute_fan_percent` always returns a percentage (`ComputeFanInPercent`) and is
monotone in the temperature (`ComputeFanMonotone`). Then, for every set of requests, readings, colours and agenda
positions, with or without faults and power cuts:

* `TypeCorrect`: `Spec => []TypeOK`;
* `ConfigAlwaysSane`: `Spec => []ConfigSane`. Neither is inductive alone: the
  clamps give sane values only for typed arguments, and a typed copy is needed to
  know that the copy is sane. The proof uses `IInv == TypeOK /\ ConfigSane`; each
  setter has a lemma (typed arguments give a sane configuration), and each action
  one step;
* `ManualKept`: `ManualNotOverridden`, assuming `HttpdPrio < ControlPrio`. The
  strengthening is that at the labels between the check of the mode and the setter the mode is
  still automatic; it is inductive because at those labels `control_task` is not
  blocked, so the server takes no step;
* `CopyIsCurrent`: `ActuatesCurrentState` under the same assumption and by the
  same argument: between the copy and the outputs, the copy equals `s_state`. Both hold *because* of
  the priorities: the assumption is used in the proof, and TLC violates both when the server may run
  beside `control_task`;
* `FanLawKept`: `FanFollowsTemperature`, without any assumption on the priorities.
  `FanInv` says that the copy the outputs are driven from carries the fan
  percentage of its own temperature and settings, and an alarm only above its own
  threshold; together with sanity (the threshold is above the set point by the span)
  the law follows from `ComputeFanLawful`, a fact of arithmetic that rests on the
  bracket of the rounding division;
* `AckMeansDurable`: `AckedSettingsDurable`, assuming `HttpdPrio < ControlPrio`. A
  save by `control_task` that began before the handler wrote could overwrite
  the handler's blob with an older one. `DurableInv` says why it does not: from
  the moment the handler holds the NVS lock for its save, whatever is on its way to
  flash agrees with `s_state` except for the curtain position. It is inductive
  because a server of lower priority gets the free lock only while `control_task` is
  delayed (`HttpdEntersWhileAsleep`), and because an agenda entry in automatic mode
  changes the position only (`AgendaSetsCurtainOnly`, with the invariant of `ManualKept`);
* `AckSurvivesPowerCut`: `AckedSettingsSurvive` (which no run checks, as `ImplementsStore` implies it) from the same invariants, sanity, and
  the fact that loading a sane configuration returns it unchanged (`LoadSane`);
* `ControlImplementsStore`: `ImplementsStore`, assuming `HttpdPrio < ControlPrio`. `SettingsStore` knows the settings
  in force, those the pending request asks for, those a boot may come up with, and the answer. `Ask` maps to the snapshot the handler
  lays the body over, `Change` to the critical section of a setter, `Confirm` to the commit of the last one, `GiveUp` to a
  failing NVS call, `Boot` to a power cut, `Settle` to the steps of a save: a save brings up nothing that is not in force, on its way or
  in flash (`SaveCandidates`). Agenda entries, the outputs and the Wi-Fi tasks do not show. `Confirm` needs both `DurableInv`
  and `ServedInv`: the setters that have run have put their part of the request in force, and nobody has changed it since;
* `AlarmKeepsBlinking`: `AlarmBlinks`, assuming `~LedToggles`: nobody but
  `control_task` drives the pin, so it always shows `alarm_gpio_level` (`BlinkInv`).

`AgendaProofs`, for every number of registers, length of day and hour, and set of requests:

* `AgendaTypeCorrect`, `ClockTypeCorrect`: the type invariants;
* `EntriesKept`: `NoActiveEntryLost` under every failure. The strengthening follows a
  request through its steps: what is about to be installed in RAM is in flash unless it is an erasure;
* `RamFlashAgree` and `AgendaImplementsTable`, assuming `Faults \subseteq {"change"}`:
  RAM differs from flash only in the register of the request being served, and
  only in the direction of its effect; with that, each step maps to a step of
  `AgendaTable` or to a stutter (`Accept` to `Receive`, `Commit` to
  `TakeEffect`, `Install` to `Confirm`, a refused or failed change to `Reject` or `GiveUp`);
* `DueApplied`: `DueEntryApplied`, assuming `CycleMax <= WindowTicks`. `LookedInv` says that in
  a calm minute, if the last look (`elapsed` ticks ago) fell into the window of this minute, the
  curtain stands where the first match wants it. When the window closes the last look is less than
  `CycleMax` ticks back, so it did. `TodayIsMondayBased` connects the code's day arithmetic with the names of
  the days the user reads.

`NetworkProofs`, for every set of pairs, length of queues and number of faults. The invariants keep
scalars, counters, queues and records apart, since few of them depend on each other:

* `TypeCorrect`: `TypeOK`;
* `AlwaysIntact` and `UpdatesTakeEffect`: `RunningIntact`, `UpdateTakesEffect`. `OtaInv` says that the running
  partition is whole (an upload writes the other one, and the bootloader takes a whole one), and that
  after a verdict of ok the selected partition is the other one, whole, and no upload is writing it;
* `PairsInForce`: `AnsweredPairInForce`. `StaInv` has three parts: `mySemaphore` excludes one
  connector from the other's critical section; a request that is being served has its pair, according to where
  its handler is, in `store`, in `flash`, in the frame it loaded, in `wifi_config`; and after the answer
  whatever the poll loads and joins with is that pair. `ApInv` follows the access point's pair likewise, up to the next
  `connect_to_wifi`, for any `ConnectAp`, and says that NVS holds both strings at boot, so that the built-in pair is not taken. Both need `StartInv`: the
  first messages of `wifi_app_task` start the server and connect, so no request can come before.

`MqttProofs`, for every set of messages, every scenario, number of failures and kind of session:

* `TypeCorrect`: `TypeOK`. The type invariant is split by the values the parts hold: the client's, the counters,
  the outbox, the broker's, the packets;
* `StopIsSafe`: `StoppedIsEnded`: a stop that may return has the task ended behind it, or finds it at its head
  with STOPPED_BIT of an earlier task (`StaleBit`, see section 3). `StopInv` says that a task which is neither in its
  loop nor at its head has `run` clear, that STOPPED_BIT is clear in the loop, and that nobody starts a task
  while one is being stopped;
* `NothingIsForgotten`: `NothingForgotten`, which is inductive as it stands.
* `ExactlyOnceDelivered`: `ExactlyOnce`, for both kinds of sessions. A message is *closed* once its PUBREC
  has been received: it is marked acknowledged or has left the outbox, and a closed message
  is not published again. So no PUBLISH is behind a PUBREL of its message on the way to the broker
  (`Ordered`), and once the broker has acted on the PUBREL there is no such PUBLISH at
  all. `UpAllowed` and `DownAllowed` say which packets may be on their way given
  what has happened; what they rest on only grows (`Grows`), so a packet that was allowed stays so;
* `AnsweredMeansDelivered`: `AnsweredIsDelivered`, assuming `~CleanSession`, from the same
  invariant: an answer on its way is about a message the broker has acted on;
* `DeliveryImplemented`: `ImplementsDelivery`, under the same assumption. Each step maps to one of `MqttDelivery` or
  to a stutter: a call to `Take`, a step of the broker to `Forward`, the end of a handshake to `Confirm`, expiry
  and stop to `GiveUp`. With a clean session a
  level-2 message may be reported although the broker forgot it: a PUBREC, a lost link, a PUBREL to a broker
  without a session, and its PUBCOMP (TLC finds it when `CleanSession` is `TRUE`).

`MqttWireProofs`, for every radix of the length bytes, every size of both buffers (from nine bytes on; the default is
1024), every number of calls and failures, and every `Plan` that meets the conditions of section 2:

* `TotalLengthRead`: `mqtt_get_total_length` returns the length `fini_message` has encoded, for every length MQTT
  allows and any bytes that begin with it. The recursive function in `TotalLength` is unfolded from the last
  length byte to the first;
* `TypeCorrect`: `TypeOK`, with the bound of `in_buffer`, assuming `OffsetsHarmless` and `PacketsReadable`. The
  packets are those of `InSync` only until a stall cuts one short; what bounds the buffer after that
  is `Buffered`: bytes read and bytes on their way never have four high bytes in a row, so no fixed header found in
  them is longer than five bytes, and the read of the topic's length ends four bytes behind it at most;
* `InStepAlways`: `InStep`, and `ReceivedAsSentAlways`: `ReceivedAsSent`, assuming `OffsetsHarmless`, `LengthsPlain` and
  `IdentifiersFound`. `InStep` is not inductive: it says where the stream is, not where the reader is in it.
  `InSync` adds, for each stage of the reader, how much of the first packet not delivered is in the buffer and
  what the reader knows of it (`Begun`): its fixed header is complete or not, it fits or not. For a message longer than the buffer
  `Halfway` says that the data handed on, the data in the event and those to come are the data
  that are made of it (`Received`): those published, or, when the code has taken headers for fitting
  that do not, all bytes behind the buffer (`Overlong`). Under it `WireInv` says that the writer writes whole packets: nothing is left of a
  fragmented message when the next one is laid out (`Scalars`), or nothing that reaches beyond its
  header (`Offsets`), and the outbox holds packets (`Queue`).

  The proof needs what `FlattenSeq` of the community modules does when a sequence gets one more element
  or loses its first (`SequenceLemmas`); that is an induction, done with `InductionOnNat` over the set of lengths
  for which the fact holds.

`ParcialProofs`, for any channels, ranges, limits, temperatures, thresholds and polls at least 20 ms apart:

* `PressesCountOnce`: `PressCountedOnce`. A press not yet counted finds the button released for the
  debounce time, a counted one leaves it pressed (`Uncounted`, `Counted`);
* `SettingsAreWhole`: `SettingsWhole`. `SchedulerInv` is the reason: once task_led1_temp has given the mutex
  back, the terminal's task, of lower priority, cannot take it before it sleeps. So what has been
  read of the ranges is what they are (`ReadInv`), and no command is half done (`CommandInv`).

`JsonProofs`, on `JsonLinks`, for any number of items, lists of any length and every place in them. `f` is the children of
every item, in order; `WellLinked(m, f)` says that each list of the memory `m` is linked both ways, its
first item pointing back to its last, and that no item is in two lists or twice in one:

* `AddedLast`, `Inserted`, `Detached`, `Replaced`: each call turns a well-linked memory into a well-linked one, and
  does to the children of the one item it names what `Append`, `InsertAt`, `RemoveAt` or `ReplaceAt` does to a
  sequence; kinds, values and keys stay. What goes in must be in no list (`Loose`), and when it is added at the end
  its `next` must be null: `add_item_to_array` does not end the list itself. What `cJSON_DetachItemViaPointer` and
  `cJSON_ReplaceItemViaPointer` take out is in no list and points nowhere, so it may be added again, and its
  deletion takes no sibling with it. A memory without items is well linked (`NothingLinked`).

  A call writes links of the items of one list and of one item in none (`Relinks`), so all other lists stay
  (`Relinked`). In the list itself the places before the change, at it and behind it are told apart.
  An object that `sort_object` has sorted in place is not well linked (section 3), so the theorems do not speak of it;
  TLC checks in `WellFormed` that all other lists are linked so, whatever the calls and their failures.

`JsonProofs`, on `JsonString`, for strings and texts of any length and any bytes:

* `AllocationSuffices`: what `parse_string` writes, and the zero behind it, fit in what its first loop has counted.
  The two loops are out of step after a malformed escape, and an escape may take the closing quote, so the bound does not
  come from reading the same escapes twice. It comes from this: of two bytes in a row one at most is skipped, and a round
  of the second loop takes from the text at least what it writes and what the first loop has skipped in those bytes
  (`RoundFits`); the rounds add up by induction over their number;
* `StringRoundTrip`: `parse_string` reads back the bytes (none of them zero) `print_string_ptr` has written for them, whatever
  follows in the text, and ends at the closing quote. No byte of an escape is an unescaped quote (`Laid`), so the first quote the
  first loop stops at is that one; each round then reads the escape of one more byte (`OneMoreRead`);
* `PrintedLength`: `output_length`, which `print_string_ptr` counts before it writes, is where it writes the closing quote.

  Both are inductions over the length with `InductionOnNat`, as in the proofs about MQTT.

Only model-checked: liveness (out of the prover's reach) and, of JSON, everything above strings and links: the parser,
the printer, patches and comparison are recursive operators, which the prover does not take. `RoundTrip`
speaks of whole documents, so it is TLC's; what it says of one string is proved. The counterexamples are TLC's.

## 5. Plan

Done: everything of section 2. What a continuation would take up, in this order:

1. MQTT with a second application task and with `outbox_limit`;
2. references, constant keys and `cJSON_Minify` in the JSON modules, and memory that ends between an item
   and its key.

## 6. Not modelled

* analog values: the ADC's averaging and the Beta equation of the NTC;
* the dashboard, and the bytes of HTTP: a request is any member of `Requests` or `Pairs`;
* `fan_alarm.c`, `servo_curtain.c`, `settings.c`, `schedule.c` and
  `library_led_c.c`, which the build does not compile, and
  `task_compare_hour_to_execute_action`, which is never started;
* agenda requests that only read, and steps of the clock by later SNTP corrections (the first one is `TimeSync`);
* a torn write inside NVS: the library journals its pages, so a blob is the old
  one or the new one (or unreadable, which `PowerCut` includes when flash may fail);
* MQTT: the configuration and its checks, transports and TLS, MQTT 5 (`mqtt5_client.c`, `lib/mqtt5_msg.c`: the configuration
  does not select it), the memory limit of the outbox, identifiers that collide;
* JSON: references and constant keys, `Raw`, `cJSON_Minify`, printing into a given buffer, the spelling of
  numbers, the `~` escapes of pointers, `CJSON_CIRCULAR_LIMIT`;
* `Parcial01`: the terminal's line editor, `CAL_MODE`, when a periodic line is due, and the analog part;
* the course exercises (`Termistor_PreParcial`, `softAP_wifi`, `blink`, `ledc_basic`, `uart_echo`,
  `oneshot_read`): one task each, and earlier versions of the parts above;
* generated files, build output and the sources of the frameworks.
