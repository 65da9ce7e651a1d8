# Formal model of the vehicle control system

TLA+ modules, TLC configurations and TLAPS proofs for the control software of
the autonomous vehicle: what its firmware, its vehicle computers and its
services do when faults, requests, resets, lost messages and concurrent threads
meet. Paths below are relative to `src/`;
`PROJECT.json` maps every definition to the lines it models, every property to
a mutant of the code it detects, and lists the hazards found while reading.

How to run, inside this directory:

    tlc -workers 2 -config MCFirmware.cfg MCFirmware
    tlapm Firmware_proofs.tla

## 1. Inventory

The repository holds several programs for the parts of one vehicle. They meet
at interfaces (CAN, MQTT, ROS topics, WebSocket) of which each program has only
its own end, so most compositions are within one processor.

### 1.1 STM32 supervisory firmware — `src/c/embedded_system`

The master of the vehicle's state: one super-loop without an operating system.

| Part | State | Operations | Must hold |
|---|---|---|---|
| `main.c` | `g_system_status`: state, fault latch, severity | self-test, one handler per state, `System_TransitionState` with a transition table, `System_EmergencyStop` | operational only after a passed self-test; a latched vehicle does not go on driving; only a reset takes the latch away |
| `fault_handler.c` | fault log of `FAULT_LOG_MAX` records, no slot is ever reused | report, clear, clear all, query | one active record per code; log and latch agree; a CRITICAL fault enters the safe state |
| `diagnostics.c` | DTC store of `DTC_MAX_COUNT`, UDS session, statistics | store (count, promote, confirm at 3), clear, session control, reads | pending/confirmed life cycle; statistics agree with the store; no report lost while there is room |
| `power_management.c` | power mode, six rails and their fault flags | low-power modes, wake-up, rail on/off, rail monitor | the core rail is not lost; a critical rail fault latches |
| `watchdog.c` | independent watchdog, counts from its last refresh | start, refresh; a window watchdog nothing starts | the self-test ends in a verdict or a reset |
| `system_init.c` | clock, SysTick | start-up only | — |

Interaction: direct calls. A report changes log, DTC store, statistics and,
when CRITICAL, the vehicle state in one call; the power monitor and the
self-test report; `RunDriving` reads the latch in a later iteration. Hard: the
order of self-test, faults, recovery requests and watchdog resets; bounded
stores that fill up; low-power waits beside a running watchdog.

### 1.2 ESP32 drive and network node — `hardware/esp32`

FreeRTOS tasks on two cores. `motorTask` (core 1, 50 Hz) runs
`MotorDriver::step`: two PID loops, a ramp and the pins of the H-bridge.
`networkTask` (core 0) runs WiFi and MQTT and calls the same `MotorDriver`
object from the command handler (velocity, stop, release, update). Sensors
share one frame under a mutex; `MotorDriver` has no lock. OTA updates write the
other slot and expect a confirmation after the next boot. Must hold: a stop
takes the drive away whatever the other core is doing; a release does not
resume an old speed; the ramp is kept; the node hears its commands after a
reconnect; an update ends in a bootable image that stays.

### 1.3 Other vehicle computers

- **Raspberry Pi controller** `hardware/raspberry_pi/python`: a main loop, the
  network thread of MQTT and the PID thread of the motor, over `AppState`, the
  registry of subscriptions, duty and target of the motor, and a bounded
  telemetry buffer. Sensors, motor and servo may raise at any call. Must hold:
  a loop that only fails stops the vehicle, a stop holds, the process leaves
  the motor without drive, no subscription falls between the registration and
  the broker's answer.
- **ROS 2 nodes** `hardware/raspberry_pi/ros2`: `navigation_node.py` plans paths,
  `control_node.py` follows them: life cycle, path, obstacle, pose and stop
  callbacks beside a timer with a command watchdog. Must hold: a stop is left
  only by its release, and after it only a new path moves the vehicle.
- **Motor control library** `src/c/motor_control`, **Arduino vehicle**
  `hardware/arduino`, **Jetson inference** `hardware/nvidia_jetson`: not
  modelled but for the Jetson's tracker.

### 1.4 Communication, planning, perception

- **V2X** `src/control/v2x_node.py`: bounded priority queue, duplicate filter,
  peer table; a controlling thread, a dispatch thread, clean-up threads, any
  number of threads in `receive()`. Must hold: a message is delivered and
  forwarded once, a restart leaves one dispatch thread, a broadcast gets
  through. `DSRCInterface` (channels, interval scheduler) is not modelled.
- **Object trackers** `src/perception/object_tracker.py` and the SORT tracker
  `hardware/nvidia_jetson/python/tracking.py`: one call per frame changes the
  states and counters of all tracks. Must hold: numbers are not given out
  twice, a track used for decisions was confirmed, one that is not seen goes.
- **Behaviour planner**, **core pipeline**, filters, SLAM, simulation:
  sequential and for the most part numerical.

### 1.5 Monitoring and services

- **Vehicle security** `cybersecurity/vehicle_security`: a monitor (poll and
  dispatch thread, bounded queue), safety goals and an ordered safety state,
  lockdown scopes, incidents. Events are handled in the monitor's thread and in
  those of other modules, beside an operator. Must hold: a violated goal limits
  the vehicle, flag and scopes of a lockdown agree but for scopes that fail, a
  severe violation is on record and the loss of a safety unit locks the vehicle
  down, unless the event log fails.
- **Keys** `cybersecurity/encryption/key_manager.py`, `key_rotation.py`: a
  registry in memory, a file replaced by rename, a scheduler thread beside the
  administrator. Must hold: no line of keys is without an active key, through
  failing writes and crashes, but for keys that a failed load leaves out.
- **AI engine** `ai_engine/.../batch_inference.py`: clients, a pending list with
  priorities, worker threads, batches that are grouped, cut and halved. Must
  hold: no request is answered twice or lost.
- **JavaScript** `src/javascript` (WebSocket client, telemetry, dashboard) is not
  modelled.

`PROJECT.json` ("components") says for each part whether it is modelled, in
which module, and why not otherwise; "hazards" lists what is hard to test, each
at its line, with the properties that cover it.

## 2. Modules

    SystemState                      states, transition table, latch (functions of a status)
      └ Diagnostics                  DTC store, session, statistics
          └ FaultHandler             fault log, report = log + DTC + latch + state
              ├ FaultReports         + histories of what was reported    implements DtcLedger
              ├ PowerManagement      + modes, rails, rail monitor
              └ Firmware             + super-loop, self-test, watchdog   implements SafeStop
    Esp32Motor                       motorTask and networkTask, access by access
      └ Esp32Stops                   + history of races
    MqttClient                       subscriptions against the broker's answer
      └ RpiVehicle                   + main loop, PID thread, telemetry, shutdown
    NavigationNode                   planning node, topic of paths
      └ ControlNode                  + control node, stop, command watchdog
    V2XNode                          nodes, threads and the radio between them
    ObjectTracker, SortTracker       both implement TrackRegistry
    SafetyMonitor, EmergencyLockdown, VehicleMonitor
      └ VehicleSecurity              the three composed: events, incidents, operator
    BatchInference                   clients, workers, strategies
    KeyManager                       registry in memory, keystore file
      └ KeyRotation                  + scheduler, administrator, crashes
    FaultHandler_proofs              the fault handler and the stores
      ├ FaultClients_proofs          FaultReports, PowerManagement
      └ Firmware_proofs              Firmware
    Esp32Motor_proofs                Esp32Motor, Esp32Stops
    RaspberryPi_proofs               MqttClient, RpiVehicle, NavigationNode, ControlNode
    V2XNode_proofs                   V2XNode
    Perception_proofs                ObjectTracker, SortTracker, BatchInference
    Cybersecurity_proofs             VehicleSecurity and its parts, KeyManager, KeyRotation

| Module | Code | State ↔ variables | Actions ↔ operations |
|---|---|---|---|
| `SystemState` | `main.c` (table, `EmergencyStop`, `RunDriving`), `EnterSafeState` | `g_system_status` ↔ a status record | operators on the record, because one handler may change it several times |
| `Diagnostics` | `diagnostics.c` | `s_dtc_store`, `s_current_session`, `s_stats` ↔ `dtcs`, `session`, `stats` | `Store`, `ClearDTCs`, `SetSession` |
| `FaultHandler` | `fault_handler.c` | `s_fault_log`, `g_system_status` ↔ `log`, `status` | `Report`, `ClearFault`, `ClearAllRecords` |
| `FaultReports` | as above | histories: `peak`, worst report per code since its last clear; `heard`, number and worst of the reports that reached the DTC store since the last UDS clear | the same, recorded |
| `PowerManagement` | `power_management.c` | `s_current_mode`, `s_rail_status` ↔ `mode`, `enabled`, `flags` | one per call; `MonitorRails` measures, `Test` is one comparison of its loop |
| `Firmware` | `main.c`, `watchdog.c` | `pc`: control point of `main()`; `idle`, `testMs`: the two clocks; `tested`: history | `InitAll`, one step per handler, one per self-test check, `Refresh`, `Tick` |
| `SafeStop` | — (abstract) | `phase`, `latched` | what the firmware promises |
| `DtcLedger` | — (abstract) | `reports` and `ledger`: hits and worst severity per code, as reported and as stored | what the DTC store promises: a report and its entry are one step, and only a full store turns a code away |
| `Esp32Motor` | `motor_driver.cpp`, `main.cpp` | members of `MotorDriver`, pins, LEDC duty, STBY, `g_estop`; `motor` and `net`: what each task does next | one per access to shared data or pins |
| `Esp32Stops` | as above | `raced`: did the last stop meet a step under way | the same, recorded |
| `MqttClient` | `mqtt_client.py`; broker and connection external | `_connected`, `_subscriptions` ↔ `connected`, `registered`; `granted`: what the broker holds for the one connection of a client; `net`, `app`: the two threads | a call in as many actions as it touches shared state: `Register`, `SendSubscribe`, `OnConnect`, `Resubscribe` … |
| `RpiVehicle` | `main.py`, `motor_driver.py`, `steering.py`, `telemetry.py` | `main`: control point of `main()`; `AppState`, target and duty, `buffer`; `pid`: the PID thread | one per stage of `_tick()` and of `shutdown()`, each with its exception; three for a turn of the PID loop |
| `NavigationNode` | `navigation_node.py` | life cycle, what is known, `wire`: the queue of the topic | one per callback, timer and transition |
| `ControlNode` | `control_node.py` | `state`, `engaged`, path and index, `age` of the last command, the last message of `/estop` | as above; `Elapse` is time |
| `V2XNode` | `v2x_node.py`; radio external | per node: state, queue, seen identities, peers, threads alive; `receiving`: messages inside `receive()`; `injected`, `forwarded`: transmissions counted (history) | `Start`/`Spawn`, `Stop`/`Clear`, `Publish`, `TakeIn` … `Finish`, `Dispatch`, `Cleanup` |
| `TrackRegistry` | — (abstract) | tracks alive, frames unseen, numbers given | what a tracker promises about numbers |
| `ObjectTracker` | `object_tracker.py` | state, hit and miss streak of each track; `streak`: history | `UpdateTracks` is one frame, `UpdateFails`, `Reset` |
| `SortTracker` | `tracking.py` (Jetson) | hits, time since update, confirmed | as above |
| `SafetyMonitor`, `EmergencyLockdown`, `VehicleMonitor` | files of the same names | goals and safety state; flag and scopes; threads, queue and known states of the units | operators and actions that `VehicleSecurity` joins |
| `VehicleSecurity` | `vehicle_security.py`, `incident_response.py` | `task`: the event a handler works on and its next step; status and event of each incident; `alarms`, `silenced`, `uncontained`: severe events taken, and those whose handler the log ended (history) | one per step of `handle_security_event()` outside a lock, `LogFails` where the event log may raise; the operator's commands |
| `BatchInference` | `batch_inference.py` | pending list, `thread`: where a worker is and what it holds, results | `Submit`, `Flush`/`Take`, `Infer`, `OutOfMemory`, `Store`, `Start`, `Stop` … |
| `KeyManager`, `KeyRotation` | files of the same names | `store` in memory, `disk` the keystore file; `rotation`: how far each thread's call is; `unread`, `hasty`: keys a failed load left out, keys that read an unset version (history) | the calls of `rotate_key()`, each with the write that fails, the stages of `_tick()`, `Crash` with a load that may fail |

Each module ends with its properties; operators called "Mutant of X" beside X
are faulty variants of the code. Every property of a passing run is violated
when one of them takes the place of the definition it is a mutant of
(`PROJECT.json`, "mutants").

### Abstractions

- **Status bytes and texts.** Timestamps, descriptions, loop counters and the
  bytes of UDS responses are left out: no control decision reads them. Of the
  DTC status byte the two bits the code tests are kept.
- **Occurrence counters** saturate at `OccurrenceCap`, above the only value the
  code compares them with (3).
- **Self-test checks** may pass or fail (`CheckResults`). In the repository the
  four `Diagnostics_Check*` functions are stubs that pass; the callers handle
  both results, and both are modelled.
- **Time.** `Tick` is a millisecond that may fall between any two steps. Only
  the self-test and the low-power wait take time that matters; other handlers
  are one step.
- **Reset** zeroes everything: the log and the DTC store are in RAM.
- **Application.** The handlers in `main.c` leave room for application code
  ("Read CAN bus inputs", "waiting for drive command via CAN"). It is modelled
  as any sequence of calls of the public API between two handlers: requests for
  a state, reports, clearing, diagnostic services.
- **Rails** are their three fault flags; an over- and an under-voltage exclude
  each other. Flags of a disabled rail stay as last measured, as in the code.
- **ESP32 duty** is counted in ramp steps; with the configured 80 ms and 50 Hz
  `RAMP` is 4. The PID may ask for any duty: its output depends on the measured
  speed and on an integral a stop does not reset. A wheel's `ledcWrite` with
  its comparison is one access. `begin()` has succeeded. `coast()` and
  `setGains()` have no caller and are left out.
- **cmd/estop** is modelled as the handler has it. `subscribeDefaults()` does
  not subscribe to that topic (`mqtt_client.cpp:190`), so the node
  as configured gets the command only from a broker that delivers it unasked;
  the properties are about what the handler and the driver do when it comes.
- **Raspberry Pi.** Speeds, duties and angles are zero or not: the properties
  are about standing still. `_on_estop` and `_on_cmd_velocity` are no actions,
  because no message reaches them (see the finding).
- **ROS 2.** Callbacks and timer share a mutually exclusive group: each is one
  action. A path is the number of its poses; whether the planner finds one, and
  whether the vehicle has come near a waypoint, is left open.
- **MQTT.** A client has one connection: `_on_disconnect` raises (see Observations),
  so what a second connection would find is not a question of this code.
- **V2X.** A message is its identity and its hops. The radio brings a frame that
  was sent to a neighbour at any time after, any number of times, or never.
- **Trackers.** Positions are left out: any assignment the cost matrix of some
  positions brings about may happen. Streaks count to the largest number the
  code compares them with.
- **Security.** An event is its source, its severity and what playbook it
  selects. What readers return and whether a scope switches is external: a scope of
  `Fallible` may refuse or raise at any turn, and is then off or on. The event log
  may raise at every call that comes before an incident or a lockdown.
- **Batching.** A sizer may answer any size its clamps allow, a deadline may
  pass and a batcher may find it time to flush at any moment.
- **Keys.** Key material is left out; a key is its number, status, version and
  the first key of its line. A write replaces the file as a whole or raises, before or after the
  replacement; a load gives the whole file or the records before the one that
  raised.

## 3. What is checked

| Run | Bounds | What it shows |
|---|---|---|
| `fault_reports` | 2 codes, 2 log slots, 1 DTC slot, cap 3 | `OneActiveRecord`, `LatchCoversLog`, and `CriticalLostOnlyWhenFull`: the only way to lose a CRITICAL report is a full log. Of the DTC store, driven by the same reports: `DtcLifecycle` (one entry per code, pending up to the third report, confirmed from there), `ImplementsLedger` (every report of a code that has a slot or finds one free is counted with the worst severity, only a full store turns a code away, only a clear forgets). `LogNeverOverstates`: no active record is graver than what was reported since its code was cleared |
| `firmware` | watchdog 2 ms, self-test 3 ms, 2 log slots, 1 DTC slot, 7 requests | `OperationalIsTested` over all orders of self-test, faults, recovery, service and resets; `LatchedDrivingStops`, `SelfTestEnds`; `ImplementsSafeStop` with its liveness |
| `power` | rails CORE and MOTOR, 3 log slots | `PassLatchesCriticalRail` whatever was switched and cleared between two passes |
| `esp32_stops` | `RAMP` 2, two commands | `StoppedDriveIsOff` under all interleavings; `JumpsOnlyAfterRace`: the ramp is kept unless a stop raced with a step |
| `rpi_vehicle` | 3 iterations, fallback every 2, buffer of 2 payloads | `NoSubscriptionLost`: in every order of the subscriptions and the broker's answer, the broker holds what was asked for while the client's one connection is up; `EndlessFailureStops`; `StoppedAtExit` against the PID thread and failing writes; `RpiInv` (types, a stop holds, telemetry leaves in order); `ShutdownEnds` |
| `ros_control` | paths of 1 and 2 poses, queue of 1 (10 in the code), watchdog 1 | `StopHolds`, `MovingCommandIsFresh`, `RestartNeedsPath` over all orders of callbacks, time and life cycle; `StopTakesEffect` |
| `v2x` | 3 nodes in a line, 2 hops, queue of 1, a broadcast from one end and a message of one destination from the other, a restart of the middle node | `DeliveredOnce`, `ConnectedKnowsPeers`; `ForwardedOnce` counts transmissions: two hops are enough for an echo to come back to its origin, which sends it on once; `EveryoneHears`: a broadcast gets through |
| `vehicle_security` | 1 unit, 3 goals, 2 scopes that may both fail, queue of 1, 1 event of the monitor, 1 reporter, 1 command, a log that may raise at any time | `GoalsLimitState` as long as the overlaps it names do not happen, `ScopesFollowFlag` as long as no release overlaps a lockdown, for the scopes that did not fail; `SecurityInv`: types, and every severe event against a goal has an incident of its own unless the log raised before; `OutageLocksDown` unless the log raised. The drop of an event at a full queue is in the model and not reached with one event |
| `tracking` | 3 and 4 tracks, 3 detections | `ValidWasEarned`, `TentativeGoesAway`; both trackers implement `TrackRegistry` |
| `batch_inference` | 3 requests (one urgent, one for an unknown model), 1 worker a start, 2 starts, 1 out-of-memory | `BatchInv`: types, `OnePlace` (nothing is run or answered twice), `UncutLosesNothing`, `TakenOnce`; `RequestsAreAnswered` for the strategy `timeout`, which promises it |
| `key_rotation` | 3 keys, 1 write or load that fails, 1 crash, one active key at a time past its TTL | `NeverWithout`: no line of keys loses its active key, but for keys a failed load left out; `KeysOnlyAge`; `LineageIsKept`: a finished rotation left origin and next version in the file, but for a version that was read before it was set; `ExpiredIsRotated` (with the numbers used up, the last attempt need only begin) |
| `messages_are_answered` | as `rpi_vehicle` | a violation: see the finding |

A run lists a property once. Type invariants, and safety properties that TLAPS
proves for every value of the constants and that other properties of the run
come close to (`StatsAgree`, `SelfTestTimeoutIsDead`,
`LatchIsSticky`, `ReleasedSetpointIsZero`, `InactiveIsStill`, `OneDispatcher`),
are stated in the modules, proved (section 4) and not listed again.

**Why the bounds are enough.** Two codes tell "the same code" from "another
one"; two log slots give the sequences report–clear–report that leave two
records of a code as well as a full log, one DTC slot a full store beside a log
with room. Only the order of watchdog period and self-test timeout matters
(100 ms and 5000 ms in the code), and 2 and 3 keep it; the proofs below hold
for all values in that order. The core rail is the only rail the code treats
apart; the motor rail stands for the ones it does not, and starts disabled.
`RAMP` 2 has a full step, a part and a reversal; two commands that differ in
one wheel make a mixed pair visible. Three iterations with a fallback on every
second have a failing series that meets the fallback and one that has not yet.
A line of three nodes is the smallest network with a relay, an echo and a
hidden neighbour; a queue of one is full with the first message. Of the
three goals two share their class and their unit, so the choice between them is a
tie; the third is of a lower class and its unit reports nothing, so no event of
the run has it for its target: what the choice does with a difference in class
is left to the proof, which holds for all goals and classes.
Three requests of a batch size of two leave one behind, and two starts with one
worker each give an old worker beside a new one. Three keys are a line of two
rotations or two lines. Four frames unseen exceed the limits of
the run. A queue of one in front of the control node already loses all paths but
the last; the proof is for every depth. No path is empty, because
`navigation_node.py:256` returns before it publishes one.

**Fairness.** `WF_vars(Loop)` in `Firmware`: a processor that is not reset
keeps executing `main()`. Nothing is assumed of boot, wake-up interrupts, the
application or time. `SelfTestEnds` and `LatchedDrivingStops` therefore hold
because the loop itself gets there or the watchdog resets it. `RpiVehicle`: the
main thread and the network thread are scheduled; not the signals, the
connection or the PID thread, which `join()` bounds. `ControlNode`: the executor
serves the timer and a message of `/estop` that has arrived. `V2XNode`: threads
that have work are scheduled, and the radio brings a frame to a neighbour in
the end — the assumption of an `EveryoneHears` that excuses expiry, a full queue
and nodes that are off. `VehicleSecurity`: every thread is scheduled; the
operator does what it likes. `BatchInference`: workers are scheduled and models
return (of a full batch the code asks nothing: `should_flush` gives in to the
timeout under every strategy). `KeyRotation`: the scheduler's thread is scheduled. `MCTracking`: frames
keep coming. The ESP32, the power manager and the fault handler are checked for
safety only: the rail monitor has no caller in `main.c`.

**Deadlock** is checked but where the system may stop for good: an engine or a
node that is switched off and whose bounded starts are used up
(`batch_inference`, `v2x`, `vehicle_security`).

### Finding

`messages_are_answered`: `mqtt_client.py:59` promises "Per-topic callbacks plus a
global default callback", with the example of a callback for `vehicle/+/estop`
at line 64. `_on_message` (line 234) looks the callback up under the topic of
the message, `subscribe` enters it under the pattern, so no callback registered
with a wildcard is ever called. `main.py:114` registers the stop and the velocity
command in this way: neither reaches the vehicle. TLC finds the message.

### Observations

Where code and comments, or code and intention, part without a run of its own:

- `fault_handler.h:27` "Critical, enter safe state immediately": a report that
  finds the log full returns before the safe state is entered
  (`CriticalLostOnlyWhenFull` says that nothing else loses it).
- `fault_handler.h:163` "Check if any fault of given severity is active": a fault
  that escalates keeps the severity of its first report in the log.
- `main.h:66` "System idle, awaiting commands": in STOP mode the watchdog keeps
  counting and resets the vehicle after 100 ms.
- `main.h:74` "Unrecoverable fault": the table leads from FAULT to BOOT.
- `power_management.c:197` "Never disable core rail while running": the core rail
  may be switched off in SHUTDOWN, and `Wakeup` returns to RUN without it.
- `motor_driver.h:94` "same as brake() + STBY low": a step under way writes
  direction and duty over the brake; only STBY keeps the wheels off.
- `main (4).cpp:66` "protected by mutex where needed": a cycle of the ESP32 may
  drive the left speed of one command and the right of another.
- `safety_monitor.py:232`: the comparison of safety states is outside the lock,
  and `reset_to_normal()` sets NORMAL after releasing it; `GoalsLimitState`
  names both overlaps as what it excludes. `trigger_safe_state()` lowers
  EMERGENCY_STOP to FAIL_SAFE.
- `emergency_lockdown.py:162`: a release that overtakes a lockdown leaves scopes
  off in a vehicle that is not locked (`ScopesFollowFlag` excludes it by name).
- `emergency_lockdown.py:160`: a scope whose callback returns False or raises stays
  as it is while the loop goes on, and the flag says locked all the same; nobody
  tries again (`ScopesFollowFlag` excludes such scopes, and only those).
- `vehicle_security.py:322`: `log_event` writes its file without a handler for
  `OSError` (`security_event_logger.py:157`). Raised there, or inside
  `check_safety_violation` or before the containment, it ends the handling of the
  event, and `vehicle_monitor.py:254` swallows it: no incident, no lockdown
  (`SecurityInv` and `OutageLocksDown` except `silenced` and `uncontained`).
- `incident_response.py`: `run_playbook` writes its status over that of an
  incident which was closed meanwhile.
- `object_tracker.py:379`: only a CONFIRMED track can become LOST; one that
  coasts and is never seen again is never deleted, although line 203 speaks of a
  maximum "before marking as LOST".
- `batch_inference.py`: the strategies that cut a batch drop the requests behind
  the cut, which are never answered (537); two requests of one millisecond
  share an identifier, and one result is lost (466). `FIXED_SIZE` is documented as
  "Wait until batch is full" (29), but `should_flush` does not look at the strategy
  and flushes at the timeout; `RequestsAreAnswered` says nothing of it.
- `key_rotation.py:123`: a rotation that is scheduled again while the same key is
  being rotated is deleted with the old entry; two threads may rotate one key
  to two successors of the same version, and a rotation of a key that another one
  has just made may read its version before it is set (`hasty`).
- `key_manager.py:128`: a keystore that cannot be read is only logged; the process
  goes on with the keys before the bad record, and its next write erases the
  others (`NeverWithout` excepts the keys in `unread`). `os.chmod` (143) may raise
  with the file already replaced, so that a call fails which has taken effect.
- `mqtt_client.py:56` "Auto-reconnect with exponential backoff", 221 "paho will
  retry": the client asks for callbacks of `VERSION2` (126, 132), and with
  `paho-mqtt==2.0.0` (`requirements.txt`) a disconnect is reported with five
  arguments to a handler that takes four (217). The `TypeError` ends the network
  thread: `_connected` stays set and nothing connects again. `disconnect()` ends
  all the same: the exception its own DISCONNECT raises is caught at line 190, and
  the event is cleared behind it (`ShutdownEnds`).
- `v2x_node.py:350`: `publish()` tests the state without the lock, so that a
  message may be queued after `stop()` and sent after the next start; the echo
  of an own broadcast is delivered at its origin.
- `control_node.py:215`: `on_shutdown()` leaves the timer running.

## 4. What is proved

TLAPS checks the theorems for every value of the constants, under the named
assumptions of the modules: capacities are positive, `OccurrenceCap` is at
least 3 (`DiagnosticsAssumption`, `FaultLogAssumption`), callers report known severities
(`ReportsAssumption`); the watchdog period is
positive and not longer than the self-test timeout, the application asks for
any state but the two the boot sequence passes by itself, and reports no
self-test code (`FirmwareAssumption`); the ramp has at least one step and
commands are pairs of integers (`RampAssumption`, `CommandsAssumption`); the
limits of the other modules are natural numbers, positive where the code divides
or compares with them (`NavigationAssumption`, `WatchdogAssumption`,
`V2XAssumption`, `TrackerAssumption`, `SortAssumption`, `KeyAssumption`,
`RotationAssumption`, `RpiAssumption`, `MonitorAssumption`); rails are some of the
six, the core rail among them, none twice (`PowerAssumption`); scopes are a list
that is not empty (`LockdownAssumption`), every goal has its class and its
related units (`SafetyAssumption`), reporters are not dispatch threads and the
operator is no handler (`SecurityAssumption`), a pattern matches topics
(`MatchesAssumption`); the batch sizes are in order, there are finitely many
workers and "nobody" is no request (`BatchAssumption`). TLC evaluates each on a run.

**Fault handler** (`FaultHandler_proofs`). `FaultInv` = types ∧
`OneActiveRecord` ∧ `LatchCoversLog` is inductive as it stands. The argument: a
record is appended only when no active one of its code exists and there is
room, and a CRITICAL one only in the call that enters the safe state;
`TransitionProps` and `SafeStateProps` say that no transition touches the
latch. The lemmas on `Report`, `ClearFault` and `ClearAllRecords` are stated
once and used again in `Firmware_proofs`.

- `FaultHandlerInvariant`, `ActiveRecordsAreUnique`, `LatchCoversLogAlways`;
- `StoresAreTyped`, `StatisticsAreCurrent`, `TroubleCodesMature`: of the DTC store
  as the reports drive it. An operation either leaves the store alone, appends
  an entry or replaces one by its successor, and each computes the statistics
  anew.

**Fault reports** (`FaultClients_proofs`). The history only watches the handler
(`OnlyWatches`), so `FaultInv` holds here too; `ReportInv` adds that the log
does not overstate and that a CRITICAL peak without a latch means a full log.
For the refinement, the ledger has counted as many codes as the store has
entries (`RecordedFitsStore`), so "no free slot" in the array is "no room" in the
ledger: a report that reaches the store is `Report` of `DtcLedger`, with what was
reported and what was stored changed in one step, and a drop is one only at a
full store.

- `ReportsAreKept`, `StoreImplementsLedger`.

**Rails** (`FaultClients_proofs`), for every list of rails. A pass of the monitor
is an order of tests, one step each; rails are switched, modes changed and the
log is cleared between two passes. `PassInv` says that what is left of a pass is
a suffix of its tests (`ScanIsSuffix`) and that each critical flag it has met has
latched the vehicle unless the log is full (`MadeTestsLatch`): no test releases
the latch or raises a flag, which only the measurement at the head of the pass
does.

- `PassInvariant`, `CriticalRailsLatch`.

**Firmware** (`Firmware_proofs`). None of the run's properties is inductive.
`FirmwareInv` adds to them and to `FaultInv`: after a reset log and status are
fresh (`FreshAfterReset`, so that boot may write a new status over the old one
without losing a latch), the handlers of the self-test run in SELFTEST
(`SelfTestInState`, so that a passed test leads on from there and nowhere
else), and the self-test's clock is not ahead of the watchdog's (`TestClock`,
so that the reset always comes first). One lemma per action.

- `FirmwareInvariant`, `FirmwareIsTyped`, `OperationalOnlyAfterSelfTest`,
  `TimeoutIsNeverReported`, `LatchStays`;
- `FirmwareStopsSafely`: initial states and steps of `Firmware` are initial
  states, steps or stutters of `SafeStop`, the safety part of the refinement.

**ESP32 drive** (`Esp32Motor_proofs`). `MotorInv` adds to the types what each
stage of the command handler has established (`NetInStage`: the flag is set
throughout a stop, the setpoint is zero once it has been zeroed) and that the
bridge is in standby exactly while the flag is set and the handler rests, and
with a zero setpoint only (`StandbyInv`). Of `motorTask`
the argument needs only that none of its steps writes STBY or the setpoint.

`JumpInv` carries the ramp, for every `RAMP`: what the bridge was last given is
what the driver remembers (`Settled`) whenever no step is under way, is at most
one ramp step behind in between (`Near`), and a stop that met no step leaves both
at zero (`BrakedSoFar`). A stop that races breaks this, and `raced` remembers it;
what a step writes after the race is again the duty (`WrittenSoFar`), so the
next stop starts afresh.

- `MotorInvariant`, `DriveIsTyped`, `StoppedDriveStaysOff`, `ReleaseStartsFromZero`,
  `DriveGrowsByRamp`.

**Raspberry Pi vehicle** (`RaspberryPi_proofs`), for every set of patterns, fallback
period, buffer and number of iterations. `MqttInv`: while the
connection is up, what the broker holds, what the network thread has yet to send
and what the application is sending are together all that was registered, at
every stage of the answer to CONNACK; it rests on `_connected` being set before
the snapshot is taken. `CarInv`: a series of failures
is no longer than the iterations since the last multiple of the period
(`Counters`), an engaged stop holds at every stage of the loop (`StopKept`), a PID
thread that was joined is dead (`PidEnds`), so that nothing undoes the brake after
the join (`Braked`), and the buffer holds payloads in order, younger than what was
sent (`QueueInv`).

- `VehicleInvariant`, `VehicleIsTyped`, `SubscriptionsAreKept`, `FailingLoopStops`,
  `NoDriveAfterExit`.

**ROS 2 control node** (`RaspberryPi_proofs`). `ControlInv` adds to the types and
to `InactiveIsStill` that the timer belongs to a node that was activated
(`TimerInStage`), and that a state machine on a path was sent a path since the
last release (`InvitedToMove`). Only a cycle of the timer may command a motion,
and it does so in a state that `InvitedToMove` speaks of.

- `InactiveNodeIsStill`, `StoppedCyclesAreStill`, `MovingCommandsAreFresh`,
  `OnlyAPathRestarts`.

**V2X** (`V2XNode_proofs`), for every network, set of messages, hop limit and
capacity. `ThreadInv`: `start()` brings up a dispatch thread only in the place
of one that has ended. `ReceptionInv`: an identity is inside `receive()` at most
once, remembered and not yet delivered — what makes test and insertion under
one lock enough. `ForwardInv`: what has hopped waits or has been
transmitted only after its reception is over, in one copy over queue and air
together, so that the count of transmissions cannot pass one; what has not
hopped is the one copy its origin made. Only `EnqueueProps` counts a queue.

- `V2XInvariant`, `NodesDispatchOnce`, `MessagesArriveOnce`, `FloodsDieOut`,
  `ConnectedNodesHavePeers`.

**Trackers** (`Perception_proofs`). `History` ties the streak a track of
`ObjectTracker` counts to the one its history saw. Its refinement needs that
cleaning up takes a track away only for its misses (`CleanupProps`) and that
misses are counted beyond `max_age` (`Bounds`). `SortInv` says of `SortTracker` that a
number that was not given out, or was given up, has no data: no box comes back
under an old number.

- `TracksAreEarned`, `TracksKeepTheirNumber`, `BoxesKeepTheirNumber`.

**Batch engine** (`Perception_proofs`), for any number of requests, workers, models
and batch sizes. `BatchInv` is not inductive: `EngineInv` adds that every job of a
worker is for one model (so that dropping one drops no request for another),
that a request called back was accepted, and that the table holds, under each
id, a request of that id that was called back and that nobody has taken. The
lemmas follow a list through the code: a filter, the sort, a cut, the groups by
model and the halves of a retry neither lose nor double a request
(`FilterProps`, `PriorityProps`, `SplitProps`, `GroupProps`, `RetryProps`); what
`Filter` computes for a list of any length is shown without induction over an
operator, by the least length that would refute it (`LeastNumber`). `WorkerStep`
says once, for all steps of a worker, which moves of requests keep `EngineInv`.

- `RequestsHaveOnePlace`.

**Vehicle security** (`Cybersecurity_proofs`), for any units, goals, scopes,
reporters and commands. `HandlersInv` ties each dispatch thread to the event it
works on and says of every severe event taken that it has an incident of its own,
or a handler that owes it one, or is among those the log silenced
(`AlarmsAreKnown`); an event is known by its number, so one incident does not
stand for two events. `ScopesInv`: one thread at most switches, the way the flag
says, and the scopes it has passed are as they will be, or have failed in its
hands (`refused`). `GoalsInv`:
a breach is no graver than the state, or the one handler between its mark and
its state marked it. The last two hold as long as the two overlaps, which the
properties themselves exclude, have not happened.

- `HandlersInvariant`, `SevereBreachesAreKnown`, `ScopesEndAsFlagSays`,
  `GoalsAreRespected`.

**Key rotation** (`Cybersecurity_proofs`), for every number of keys, failed writes
and loads, and crashes. The invariant has two layers. `RotationInv`: `Lag` says
what the file may lag behind memory (it knows every key that is retired there,
and memory every key of the file but the ones in `unread`); `Covered`, that a
line active in the file is active in memory or was left out by the load, so that
a later write loses no other; `Rotations`, that a rotation that has made a key
may retire the old one, because a later active key of the line is in memory
(`Prepared`). A crash replaces memory by the file, or by a part of it with the
rest in `unread`, and ends all rotations, and the invariant holds of the file
alone. `LineageInv`, on top of it: no two rotations work on the same new
key (`OwnKeys`), a new key names its origin from the moment its rotation has set
it and not before (`Marked`), a key that names its origin is one version later
than it unless it read that version too early (`hasty`, `Descent`), and every
finished rotation left its key naming the one it replaced (`Origins`), in memory
and in the file.

- `RotationInvariant`, `RotationIsTyped`, `LineageOutlivesCrash`,
  `AlwaysAnActiveKey`, `NoKeyComesBack`.

**Only model-checked**: liveness under fairness (`LatchedDrivingStops`,
`SelfTestEnds` and the liveness of `SafeStop`, `ShutdownEnds`, `StopTakesEffect`,
`EveryoneHears`, `OutageLocksDown`, `TentativeGoesAway`, `RequestsAreAnswered`,
`ExpiredIsRotated`), which is out of the prover's reach. Every safety property
of a passing run is stated by a theorem.

## 5. Not modelled

Numerical code (filters, controllers, networks, SLAM, simulation, planning
costs), rendering, cryptographic primitives, drivers that read registers, and
data conversion have no control state whose orders matter; they are the larger
part of the repository. In the firmware: `system_init.c`, the computation of
watchdog parameters, the window watchdog, the bytes of diagnostic responses.
`AutonomousCore` (`C++`) has a header and no implementation. The behaviour
planner is one thread whose state follows from costs in floating point: what
can be said of it without them restates its transition table. Left out of
modelled files: the publisher thread of `telemetry.py`, which `main.py` does not
start; export and import of keys and `stop_scheduler()`; the statistics of the
batch engine; the playbook steps between containment and the last. The Arduino
vehicle, the ESP32 network node, the DSRC interface, the update slots and the
WebSocket client have behaviour worth modelling and are the plan below.

## 6. Plan

The order is by what a failure would do to the moving vehicle.

| Step | Modules | What for |
|---|---|---|
| done | all modules of section 2 | the safety core, the vehicle computers, V2X, tracking, security, batching, keys |
| 1 | `Esp32Node` (subscriptions, reconnects, OTA slots), over an unreliable broker; composed with `Esp32Motor` | does a command arrive at all, does an update last |
| 2 | `ArduinoVehicle` | mode against latch |
| 3 | `DsrcInterface`, `WebSocketClient` | intervals and late events |
| 4 | `SecureUpdate` | slots and rollback |

Theorems: those of the new modules. Of the present ones every safety property a
run checks is proved; what is left is liveness, which stays with TLC.
