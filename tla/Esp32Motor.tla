------------------------------- MODULE Esp32Motor -------------------------------
(***************************************************************************)
(* The drive of the ESP32 node: the MotorDriver object of                  *)
(* hardware/esp32/src/motor_driver.cpp and the two FreeRTOS tasks of       *)
(* main.cpp that call it.  motorTask runs on core 1 and calls step() at    *)
(* 50 Hz; networkTask runs on core 0 and calls the driver from the MQTT    *)
(* command handler.  The object has no lock, so the two interleave at      *)
(* every access to it and to the pins of the H-bridge: one action here is  *)
(* one such access.                                                        *)
(*                                                                         *)
(* The cmd/estop branch of the handler is modelled as it is written;       *)
(* MqttClient::subscribeDefaults does not ask for that topic, so it runs   *)
(* where the broker delivers it unasked or the client is made to subscribe.*)
(*                                                                         *)
(* A duty is counted in ramp steps of 1/RAMP, signed.  The output of the   *)
(* PID is any duty: it depends on the measured speed and on an integral    *)
(* that an emergency stop does not reset.                                  *)
(***************************************************************************)
EXTENDS Integers

CONSTANTS
    RAMP,       (* cycles from zero to full duty: MOTOR_RAMP_MS / 20        *)
    Commands    (* the wheel speeds cmd/velocity may ask for, after clamping*)

Wheels == {"L", "R"}

ASSUME RampAssumption == RAMP \in Nat \ {0}
ASSUME CommandsAssumption == Commands \subseteq [Wheels -> Int]

VARIABLES
    g_estop,    (* the atomic flag of main.cpp                              *)
    estopped,   (* MotorDriver::_estopped                                   *)
    cmd,        (* _cmdL, _cmdR                                             *)
    duty,       (* _dutyL, _dutyR                                           *)
    pins,       (* the IN1/IN2 pair of each half bridge                     *)
    pwm,        (* the LEDC duty of each channel                            *)
    stby,       (* the STBY pin: TRUE enables the bridge                    *)
    motor,      (* what motorTask does next                                 *)
    setpoint,   (* step(): the speeds its two PID runs were given           *)
    arg,        (* step(): the duty it is working on                        *)
    net,        (* what networkTask does next                               *)
    msg         (* the command networkTask is carrying out                  *)

driver == <<estopped, cmd, duty>>
bridge == <<pins, pwm, stby>>
motorLocals == <<motor, setpoint, arg>>
netLocals == <<net, msg>>
motorVars == <<g_estop, driver, bridge, motorLocals, netLocals>>

Zero == [w \in Wheels |-> 0]
Duties == -RAMP .. RAMP
Idle == <<"idle", "L">>
MotorStages == {"idle", "enter", "read", "ramp", "store", "pass", "dir", "pwm"}
NetStages == {"idle", "cmd", "latch", "zeroCmd", "zeroDuty", "brake", "cut",
              "standby", "unlatch", "raise"}

MotorTypeOK ==
    /\ g_estop \in BOOLEAN /\ estopped \in BOOLEAN /\ stby \in BOOLEAN
    /\ cmd \in [Wheels -> Int] /\ setpoint \in [Wheels -> Int]
    /\ duty \in [Wheels -> Duties] /\ arg \in Duties
    /\ pins \in [Wheels -> {"coast", "brake", "fwd", "rev"}]
    /\ pwm \in [Wheels -> 0 .. RAMP]
    /\ motor \in MotorStages \X Wheels
    /\ net \in NetStages \X Wheels
    /\ msg \in Commands \union {Zero}

(* What a wheel gets from the bridge: a signed duty, 0 when the bridge is  *)
(* in standby or the half bridge brakes or coasts.                         *)
Drive(w) ==
    CASE stby /\ pins[w] = "fwd" -> pwm[w]
      [] stby /\ pins[w] = "rev" -> -pwm[w]
      [] OTHER -> 0

Abs(n) == IF n < 0 THEN -n ELSE n

(* First `this' for the left wheel, then for the right one, then `next'.   *)
After(this, w, next) == IF w = "L" THEN <<this, "R">> ELSE <<next, "L">>

(* MotorDriver::ramp *)
Ramp(current, target) ==
    CASE target - current > 1 -> current + 1
      [] target - current < -1 -> current - 1
      [] OTHER -> target
--------------------------------------------------------------------------------
(***************************************************************************)
(* motorTask and MotorDriver::step.                                        *)
(***************************************************************************)
Wake ==
    /\ motor = Idle /\ ~g_estop
    /\ motor' = <<"enter", "L">>
    /\ UNCHANGED <<g_estop, driver, bridge, setpoint, arg, netLocals>>

EnterStep ==
    /\ motor = <<"enter", "L">>
    /\ motor' = IF estopped THEN Idle ELSE <<"read", "L">>
    /\ UNCHANGED <<g_estop, driver, bridge, setpoint, arg, netLocals>>

ReadSetpoint(w) ==
    /\ motor = <<"read", w>>
    /\ setpoint' = [setpoint EXCEPT ![w] = cmd[w]]
    /\ motor' = After("read", w, "ramp")
    /\ UNCHANGED <<g_estop, driver, bridge, arg, netLocals>>

RampDuty(w) ==
    /\ motor = <<"ramp", w>>
    /\ \E pid \in Duties : arg' = Ramp(duty[w], pid)
    /\ motor' = <<"store", w>>
    /\ UNCHANGED <<g_estop, driver, bridge, setpoint, netLocals>>

StoreDuty(w) ==
    /\ motor = <<"store", w>>
    /\ duty' = [duty EXCEPT ![w] = arg]
    /\ motor' = After("ramp", w, "pass")
    /\ UNCHANGED <<g_estop, estopped, cmd, bridge, setpoint, arg, netLocals>>

(* The call writeMotor(..., _dutyL) reads the duty again. *)
PassDuty(w) ==
    /\ motor = <<"pass", w>>
    /\ arg' = duty[w]
    /\ motor' = <<"dir", w>>
    /\ UNCHANGED <<g_estop, driver, bridge, setpoint, netLocals>>

WriteDirection(w) ==
    /\ motor = <<"dir", w>>
    /\ pins' = [pins EXCEPT ![w] = IF arg >= 0 THEN "fwd" ELSE "rev"]
    /\ motor' = <<"pwm", w>>
    /\ UNCHANGED <<g_estop, driver, pwm, stby, setpoint, arg, netLocals>>

WritePwm(w) ==
    /\ motor = <<"pwm", w>>
    /\ pwm' = [pwm EXCEPT ![w] = Abs(arg)]
    /\ motor' = After("pass", w, "idle")
    /\ UNCHANGED <<g_estop, driver, pins, stby, setpoint, arg, netLocals>>

MotorTask ==
    \/ Wake
    \/ EnterStep
    \/ \E w \in Wheels :
        \/ ReadSetpoint(w) \/ RampDuty(w) \/ StoreDuty(w)
        \/ PassDuty(w) \/ WriteDirection(w) \/ WritePwm(w)
--------------------------------------------------------------------------------
(***************************************************************************)
(* networkTask: onMqttCommand with setDiffDrive, estop and clearEstop.     *)
(***************************************************************************)
OnVelocity ==
    /\ net = Idle /\ ~g_estop
    /\ msg' \in Commands
    /\ net' = <<"cmd", "L">>
    /\ UNCHANGED <<g_estop, driver, bridge, motorLocals>>

SetCmd(w) ==
    /\ net = <<"cmd", w>>
    /\ cmd' = [cmd EXCEPT ![w] = msg[w]]
    /\ net' = After("cmd", w, "idle")
    /\ UNCHANGED <<g_estop, estopped, duty, bridge, motorLocals, msg>>

OnEstop ==
    /\ net = Idle
    /\ g_estop' = TRUE
    /\ net' = <<"latch", "L">>
    /\ UNCHANGED <<driver, bridge, motorLocals, msg>>

Latch ==
    /\ net = <<"latch", "L">>
    /\ estopped' = TRUE
    /\ net' = <<"zeroCmd", "L">>
    /\ UNCHANGED <<g_estop, cmd, duty, bridge, motorLocals, msg>>

ZeroCmd(w) ==
    /\ net = <<"zeroCmd", w>>
    /\ cmd' = [cmd EXCEPT ![w] = 0]
    /\ net' = After("zeroCmd", w, "zeroDuty")
    /\ UNCHANGED <<g_estop, estopped, duty, bridge, motorLocals, msg>>

(* Mutant of ZeroDuty: brake() leaves the duty the ramp starts from. *)
KeepDuty(w) ==
    /\ net = <<"zeroDuty", w>>
    /\ net' = After("zeroDuty", w, "brake")
    /\ UNCHANGED <<g_estop, driver, bridge, motorLocals, msg>>

ZeroDuty(w) ==
    /\ net = <<"zeroDuty", w>>
    /\ duty' = [duty EXCEPT ![w] = 0]
    /\ net' = After("zeroDuty", w, "brake")
    /\ UNCHANGED <<g_estop, estopped, cmd, bridge, motorLocals, msg>>

BrakePins(w) ==
    /\ net = <<"brake", w>>
    /\ pins' = [pins EXCEPT ![w] = "brake"]
    /\ net' = After("brake", w, "cut")
    /\ UNCHANGED <<g_estop, driver, pwm, stby, motorLocals, msg>>

CutPwm(w) ==
    /\ net = <<"cut", w>>
    /\ pwm' = [pwm EXCEPT ![w] = 0]
    /\ net' = After("cut", w, "standby")
    /\ UNCHANGED <<g_estop, driver, pins, stby, motorLocals, msg>>

(* Mutant of Standby: estop() brakes but leaves the bridge enabled. *)
NoStandby ==
    /\ net = <<"standby", "L">>
    /\ net' = Idle
    /\ UNCHANGED <<g_estop, driver, bridge, motorLocals, msg>>

Standby ==
    /\ net = <<"standby", "L">>
    /\ stby' = FALSE
    /\ net' = Idle
    /\ UNCHANGED <<g_estop, driver, pins, pwm, motorLocals, msg>>

OnClear ==
    /\ net = Idle
    /\ g_estop' = FALSE
    /\ net' = <<"unlatch", "L">>
    /\ UNCHANGED <<driver, bridge, motorLocals, msg>>

Unlatch ==
    /\ net = <<"unlatch", "L">>
    /\ estopped' = FALSE
    /\ net' = <<"raise", "L">>
    /\ UNCHANGED <<g_estop, cmd, duty, bridge, motorLocals, msg>>

Raise ==
    /\ net = <<"raise", "L">>
    /\ stby' = TRUE
    /\ net' = Idle
    /\ UNCHANGED <<g_estop, driver, pins, pwm, motorLocals, msg>>

NetworkTask ==
    \/ OnVelocity \/ OnEstop \/ OnClear
    \/ Latch \/ Standby \/ Unlatch \/ Raise
    \/ \E w \in Wheels :
        SetCmd(w) \/ ZeroCmd(w) \/ ZeroDuty(w) \/ BrakePins(w) \/ CutPwm(w)
--------------------------------------------------------------------------------
(* After MotorDriver::begin() has succeeded and both tasks are running. *)
MotorInit ==
    /\ g_estop = FALSE /\ estopped = FALSE
    /\ cmd = Zero /\ duty = Zero /\ setpoint = Zero /\ arg = 0
    /\ pins = [w \in Wheels |-> "coast"] /\ pwm = Zero /\ stby = TRUE
    /\ motor = Idle /\ net = Idle /\ msg = Zero

MotorNext == MotorTask \/ NetworkTask

MotorSpec == MotorInit /\ [][MotorNext]_motorVars
--------------------------------------------------------------------------------
(***************************************************************************)
(* Properties.                                                             *)
(***************************************************************************)

(* Once an emergency stop has been carried out no wheel is driven until it *)
(* is cleared, although a step of motorTask that was under way writes its  *)
(* pins and duties over those of brake() afterwards.                       *)
StoppedDriveIsOff ==
    g_estop /\ net = Idle => \A w \in Wheels : Drive(w) = 0

(* The bridge is never enabled again with a speed asked for before or      *)
(* during the stop: velocity commands are dropped while it lasts, and the  *)
(* ones before it were zeroed.                                             *)
ReleasedSetpointIsZero == [][~stby /\ stby' => cmd = Zero]_motorVars
================================================================================
