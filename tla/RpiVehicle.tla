------------------------------- MODULE RpiVehicle -------------------------------
(***************************************************************************)
(* The Raspberry Pi vehicle of hardware/raspberry_pi/python: the           *)
(* VehicleController of main.py with MotorDriver, Steering and Telemetry.  *)
(* Three threads: main runs the control loop and the shutdown, the PID     *)
(* thread of the motor writes duties when there is an encoder, and the     *)
(* network thread of MqttClient.                                           *)
(*                                                                         *)
(* The callbacks main.py registers (_on_estop, _on_cmd_velocity) are never *)
(* called: MqttClient looks a callback up under the topic of the message,  *)
(* and they are registered under wildcards.  They are therefore not        *)
(* actions; MqttClient.unanswered records the messages they miss.          *)
(*                                                                         *)
(* A write to the motor or the servo may raise (an I2C error), and so may  *)
(* reading a sensor.  Of speeds, duties and angles the model keeps whether *)
(* they are zero.  The PID may ask for any duty: it depends on the measured*)
(* speed and an integral.                                                  *)
(***************************************************************************)
EXTENDS MqttClient, Sequences

CONSTANTS
    FailPeriod,     (* run(): the fallback stop is tried every so many loops*)
    BufferSize,     (* Telemetry.buffer_size                                *)
    MaxLoops        (* bound of the model: iterations of the main loop      *)

ASSUME RpiAssumption ==
    /\ FailPeriod \in Nat \ {0} /\ BufferSize \in Nat \ {0} /\ MaxLoops \in Nat

Duties == {0, 1}
Straight == 0

VARIABLES
    main,       (* the control point of main()                              *)
    running, estop, loops,    (* AppState                                   *)
    motion,     (* _tick: the motion computed                               *)
    closed,     (* MotorDriver: there is an encoder, the PID thread runs    *)
    target, duty,             (* MotorDriver                                *)
    angle,      (* Steering._current_angle_deg                              *)
    pid,        (* the PID thread: "check", "compute", "write" or "dead"    *)
    control,    (* _pid_step: the control value still to be written         *)
    stopEvent, joined,        (* MotorDriver.close()                        *)
    buffer, published,        (* Telemetry: payloads, the last one sent     *)
    failures,   (* history: iterations that failed since the last good one  *)
    aborted     (* history: the stage an exception ended the shutdown in    *)

appVars == <<running, estop, loops, motion>>
motorVars == <<closed, target, duty, pid, control, stopEvent, joined>>
dataVars == <<buffer, published>>
history == <<failures, aborted>>
carVars == <<main, appVars, motorVars, angle, dataVars, history>>
rpiVars == <<mqttVars, carVars>>

LoopStages == {"check", "sense", "drive", "steer", "publish", "fallback", "centre"}
ShutdownStages == {"stop", "join", "brake", "straighten", "flush", "disconnect"}

RpiTypeOK ==
    /\ MqttTypeOK
    /\ main \in LoopStages \union ShutdownStages \union {"connect", "subscribe", "done"}
    /\ {running, estop, closed, stopEvent, joined} \subseteq BOOLEAN
    /\ loops \in 0 .. MaxLoops /\ failures \in 0 .. MaxLoops
    /\ {target, duty, control, angle} \subseteq Duties
    /\ motion \in [speed : Duties, angle : Duties]
    /\ pid \in {"check", "compute", "write", "dead"}
    /\ buffer \in Seq(1 .. MaxLoops) /\ Len(buffer) <= BufferSize
    /\ published \in 0 .. MaxLoops
    /\ aborted \in ShutdownStages \union {"none", "fallback", "centre"}

Still == [speed |-> 0, angle |-> Straight]
--------------------------------------------------------------------------------
(***************************************************************************)
(* MotorDriver and Steering.                                               *)
(***************************************************************************)

(* set_speed(): with the PID only the setpoint changes. *)
SetSpeed(speed) ==
    /\ target' = speed
    /\ duty' = IF closed THEN duty ELSE speed
    /\ UNCHANGED <<closed, pid, control, stopEvent, joined>>

(* set_speed() whose write raises: the target is kept, the output is not set. *)
SetSpeedRaises(speed) ==
    /\ ~closed
    /\ target' = speed
    /\ UNCHANGED <<closed, duty, pid, control, stopEvent, joined>>

(* _pid_loop: one test of the stop event. *)
PidLoop ==
    /\ main # "done"
    /\ pid = "check" /\ pid' = IF stopEvent THEN "dead" ELSE "compute"
    /\ UNCHANGED <<mqttVars, main, appVars, angle, dataVars, history>>
    /\ UNCHANGED <<closed, target, duty, control, stopEvent, joined>>

(* _pid_step: the control value is computed outside the lock of the motor. *)
PidCompute ==
    /\ main # "done"
    /\ pid = "compute" /\ pid' = "write"
    /\ control' \in Duties
    /\ UNCHANGED <<mqttVars, main, appVars, angle, dataVars, history>>
    /\ UNCHANGED <<closed, target, duty, stopEvent, joined>>

PidWrite ==
    /\ main # "done"
    /\ pid = "write" /\ pid' = "check"
    /\ duty' = control
    /\ UNCHANGED <<mqttVars, main, appVars, angle, dataVars, history>>
    /\ UNCHANGED <<closed, target, control, stopEvent, joined>>

Pid == PidLoop \/ PidCompute \/ PidWrite
--------------------------------------------------------------------------------
(***************************************************************************)
(* Telemetry: publish() and flush() without its publisher thread, which    *)
(* main.py does not start.  The rate limit depends on the time.            *)
(***************************************************************************)
Push(q, payload) ==
    IF Len(q) = BufferSize THEN Append(Tail(q), payload) ELSE Append(q, payload)

(* _flush_one(): mqtt.publish swallows every failure, so nothing is queued again. *)
FlushOne(q) ==
    \/ buffer' = q /\ UNCHANGED published
    \/ /\ q # <<>>
       /\ buffer' = Tail(q)
       /\ published' = Head(q)
--------------------------------------------------------------------------------
(***************************************************************************)
(* main(): initialize(), run() with _tick(), shutdown().                   *)
(***************************************************************************)
Goto(stage) == main' = stage

InitializeMqtt ==
    /\ main = "connect" /\ Goto("subscribe")
    /\ Connect
    /\ UNCHANGED <<appVars, motorVars, angle, dataVars, history>>

Subscribe ==
    /\ main = "subscribe"
    /\ \/ SendSubscribe
       \/ \E f \in Filters \ registered : Register(f)
    /\ UNCHANGED carVars

(* initialize() has returned; --dry-run goes straight to shutdown(). *)
Initialized ==
    /\ main = "subscribe" /\ app = {} /\ registered = Filters
    /\ main' \in {"check", "stop"}
    /\ UNCHANGED <<mqttVars, appVars, motorVars, angle, dataVars, history>>

(* The signal handler runs in the main thread between two of its steps. *)
HandleSignal ==
    /\ running /\ main \in LoopStages
    /\ running' = FALSE
    /\ UNCHANGED <<mqttVars, main, estop, loops, motion, motorVars, angle, dataVars, history>>

RunCheck ==
    /\ main = "check"
    /\ IF running
       THEN loops < MaxLoops /\ loops' = loops + 1 /\ Goto("sense")
       ELSE Goto("stop") /\ UNCHANGED loops
    /\ UNCHANGED <<mqttVars, running, estop, motion, motorVars, angle, dataVars, history>>

(* Mutant of IterationFails: a failing iteration is only logged. *)
IterationFailsQuietly ==
    /\ failures' = failures + 1
    /\ Goto("check")
    /\ UNCHANGED aborted

(* An exception in _tick(): "Don't crash the whole vehicle for a single bad frame." *)
IterationFails ==
    /\ failures' = failures + 1
    /\ Goto(IF loops % FailPeriod = 0 THEN "fallback" ELSE "check")
    /\ UNCHANGED aborted

(* Reading the sensors and _compute_motion: still when an obstacle is near. *)
Sense ==
    /\ main = "sense"
    /\ \/ /\ Goto("drive")
          /\ motion' \in IF estop THEN {Still}
                      ELSE {Still} \union [speed : {1}, angle : Duties]
          /\ UNCHANGED history
       \/ IterationFails /\ UNCHANGED motion
    /\ UNCHANGED <<mqttVars, running, estop, loops, motorVars, angle, dataVars>>

(* Applying the motion: the speed first, then the angle. *)
Drive ==
    /\ main = "drive"
    /\ LET speed == IF estop THEN 0 ELSE motion.speed
       IN  \/ SetSpeed(speed) /\ Goto("steer") /\ UNCHANGED history
           \/ SetSpeedRaises(speed) /\ IterationFails
    /\ UNCHANGED <<mqttVars, appVars, angle, dataVars>>

Steer ==
    /\ main = "steer"
    /\ \/ /\ angle' = IF estop THEN Straight ELSE motion.angle
          /\ Goto("publish") /\ UNCHANGED history
       \/ IterationFails /\ UNCHANGED angle
    /\ UNCHANGED <<mqttVars, appVars, motorVars, dataVars>>

PublishTelemetry ==
    /\ main = "publish" /\ Goto("check")
    /\ FlushOne(Push(buffer, loops))
    /\ failures' = 0
    /\ UNCHANGED <<mqttVars, appVars, motorVars, angle, aborted>>

(* What an exception that leaves run() does: its finally clause. *)
LeaveRun(stage) == aborted' = stage /\ Goto("stop") /\ UNCHANGED failures

(* Mutant of SafeEstop: the stop is engaged without stopping the motor. *)
SafeEstopFlagOnly ==
    /\ main = "fallback"
    /\ estop' = TRUE
    /\ Goto("centre")
    /\ UNCHANGED <<mqttVars, running, loops, motion, motorVars, angle, dataVars, history>>

(* _safe_estop(), up to the motor. *)
SafeEstop ==
    /\ main = "fallback"
    /\ estop' = TRUE
    /\ \/ estop /\ Goto("check") /\ UNCHANGED <<motorVars, history>>
       \/ ~estop /\ SetSpeed(0) /\ Goto("centre") /\ UNCHANGED history
       \/ ~estop /\ SetSpeedRaises(0) /\ LeaveRun("fallback")
    /\ UNCHANGED <<mqttVars, running, loops, motion, angle, dataVars>>

(* _safe_estop(), the servo; the message it publishes changes nothing here. *)
SafeEstopCentre ==
    /\ main = "centre"
    /\ \/ angle' = Straight /\ Goto("check") /\ UNCHANGED history
       \/ LeaveRun("centre") /\ UNCHANGED angle
    /\ UNCHANGED <<mqttVars, appVars, motorVars, dataVars>>
--------------------------------------------------------------------------------
(* shutdown(): an exception in one stage leaves out the rest. *)
Abandon(stage) == aborted' = stage /\ Goto("done") /\ UNCHANGED failures

StopMotor ==
    /\ main = "stop"
    /\ running' = FALSE
    /\ \/ SetSpeed(0) /\ Goto("join") /\ UNCHANGED history
       \/ SetSpeedRaises(0) /\ Abandon("stop")
    /\ UNCHANGED <<mqttVars, estop, loops, motion, angle, dataVars>>

(* Mutant of StopThread: close() brakes without waiting for the thread. *)
StopThreadNoJoin ==
    /\ main = "join" /\ Goto("brake")
    /\ stopEvent' = TRUE /\ joined' = TRUE
    /\ UNCHANGED <<mqttVars, appVars, closed, target, duty, pid, control, angle, dataVars, history>>

(* Mutant of StopThread: join() without a timeout. *)
StopThreadNoTimeout ==
    /\ main = "join"
    /\ \/ ~stopEvent /\ stopEvent' = TRUE /\ UNCHANGED <<main, joined>>
       \/ stopEvent /\ pid = "dead" /\ joined' = TRUE /\ Goto("brake") /\ UNCHANGED stopEvent
    /\ UNCHANGED <<mqttVars, appVars, closed, target, duty, pid, control, angle, dataVars, history>>

(* close(): the event is set, then join() waits for the PID thread, 2 s at most. *)
StopThread ==
    /\ main = "join"
    /\ \/ ~stopEvent /\ stopEvent' = TRUE /\ UNCHANGED <<main, joined>>
       \/ stopEvent /\ joined' = (pid = "dead") /\ Goto("brake") /\ UNCHANGED stopEvent
    /\ UNCHANGED <<mqttVars, appVars, closed, target, duty, pid, control, angle, dataVars, history>>

Brake ==
    /\ main = "brake"
    /\ \/ target' = 0 /\ duty' = 0 /\ Goto("straighten") /\ UNCHANGED history
       \/ Abandon("brake") /\ UNCHANGED <<target, duty>>
    /\ UNCHANGED <<mqttVars, appVars, closed, pid, control, stopEvent, joined, angle, dataVars>>

Straighten ==
    /\ main = "straighten"
    /\ \/ angle' = Straight /\ Goto("flush") /\ UNCHANGED history
       \/ Abandon("straighten") /\ UNCHANGED angle
    /\ UNCHANGED <<mqttVars, appVars, motorVars, dataVars>>

(* flush() goes on until _flush_one() sends nothing: empty, or too soon. *)
Flush ==
    /\ main = "flush" /\ FlushOne(buffer)
    /\ Goto(IF buffer' = buffer THEN "disconnect" ELSE "flush")
    /\ UNCHANGED <<mqttVars, appVars, motorVars, angle, history>>

DisconnectMqtt ==
    /\ main = "disconnect" /\ Disconnect
    /\ Goto(IF looping THEN "disconnect" ELSE "done")
    /\ UNCHANGED <<appVars, motorVars, angle, dataVars, history>>

(* The process ends with main(): its daemon threads end too. *)
Done == main = "done" /\ UNCHANGED rpiVars
--------------------------------------------------------------------------------
Tick == Sense \/ Drive \/ Steer \/ PublishTelemetry
Shutdown == StopMotor \/ StopThread \/ Brake \/ Straighten \/ Flush \/ DisconnectMqtt
Main ==
    \/ InitializeMqtt \/ Subscribe \/ Initialized
    \/ RunCheck \/ Tick \/ SafeEstop \/ SafeEstopCentre \/ Shutdown
MqttThread == main # "done" /\ Network /\ UNCHANGED carVars
Connection == main # "done" /\ Link /\ UNCHANGED carVars

RpiInit ==
    /\ MqttInit
    /\ main = "connect" /\ running = TRUE /\ estop = FALSE /\ loops = 0 /\ motion = Still
    /\ closed \in BOOLEAN
    /\ target = 0 /\ duty = 0 /\ control = 0 /\ stopEvent = FALSE /\ joined = FALSE
    /\ pid = IF closed THEN "check" ELSE "dead"
    /\ angle = Straight /\ buffer = <<>> /\ published = 0
    /\ failures = 0 /\ aborted = "none"

RpiNext == Main \/ HandleSignal \/ Pid \/ MqttThread \/ Connection \/ Done

RpiSpec == RpiInit /\ [][RpiNext]_rpiVars

RpiFairSpec == RpiSpec /\ WF_rpiVars(Main) /\ WF_rpiVars(MqttThread)
--------------------------------------------------------------------------------
(***************************************************************************)
(* Properties.                                                             *)
(***************************************************************************)

(* Unless a write to the motor itself failed, the process leaves the motor *)
(* without drive, whatever else failed and whatever the PID thread was     *)
(* doing; a thread that outlives the 2 s of join() is the exception.       *)
StoppedAtExit ==
    main = "done" /\ joined /\ aborted \notin {"stop", "brake"} =>
        target = 0 /\ duty = 0

(* "Don't crash the whole vehicle for a single bad frame": but a loop that *)
(* only fails is stopped within FailPeriod iterations.                     *)
EndlessFailureStops == main = "check" /\ failures >= FailPeriod => estop

(* An engaged stop holds: no iteration that begins after it drives again.  *)
EstopHolds ==
    estop /\ main = "check" => target = 0 /\ (~closed => duty = 0)

(* Payloads wait in the order in which they were made, and those that were *)
(* sent are older, however often a full buffer drops one.                  *)
TelemetryInOrder ==
    \A i \in DOMAIN buffer :
        published < buffer[i] /\ \A j \in 1 .. i - 1 : buffer[j] < buffer[i]

(* The types, the stop and the telemetry of _tick(), _safe_estop() and     *)
(* shutdown(), after every failure.                                        *)
RpiInv == RpiTypeOK /\ EstopHolds /\ TelemetryInOrder

(* A shutdown that was asked for ends: no join and no flush holds it up.   *)
ShutdownEnds == ~running ~> main = "done"
================================================================================
