---------------------------- MODULE Esp32Motor_proofs ----------------------------
(***************************************************************************)
(* Proofs about Esp32Motor, and about the jumps of its drive, for every    *)
(* ramp and every set of commands.                                         *)
(***************************************************************************)
EXTENDS Esp32Stops, TLAPS

USE RampAssumption, CommandsAssumption

(* The stages of networkTask that carry out a stop. *)
Stopping == {"latch", "zeroCmd", "zeroDuty", "brake", "cut", "standby"}

(* What networkTask has established when it comes to a stage: g_estop is   *)
(* set throughout a stop and clear throughout a release and a velocity     *)
(* command, the setpoint is zero from the stage that zeroes it on.         *)
NetInStage ==
    /\ net[1] \in Stopping => g_estop
    /\ net[1] \in {"unlatch", "raise"} => ~g_estop
    /\ net[1] = "cmd" => ~g_estop /\ stby
    /\ net = <<"zeroCmd", "R">> => cmd["L"] = 0
    /\ net[1] \in {"zeroDuty", "brake", "cut", "standby"} => cmd = Zero

(* When networkTask rests, the bridge is in standby exactly while g_estop  *)
(* is set; and it is in standby with a zero setpoint only.                 *)
StandbyInv ==
    /\ net = Idle => (g_estop <=> ~stby)
    /\ ~stby => cmd = Zero

MotorInv == MotorTypeOK /\ NetInStage /\ StandbyInv

(* ramp() moves the duty inside its range. *)
LEMMA RampInRange ==
    ASSUME NEW current \in Duties, NEW target \in Duties
    PROVE  Ramp(current, target) \in Duties
  BY DEF Ramp, Duties

(* The invariant holds when both tasks start. *)
LEMMA InitMotorInv == MotorInit => MotorInv
  <1> SUFFICES ASSUME MotorInit PROVE MotorInv
    OBVIOUS
  <1>1. MotorTypeOK
    <2>1. /\ cmd \in [Wheels -> Int] /\ setpoint \in [Wheels -> Int]
          /\ duty \in [Wheels -> Duties] /\ arg \in Duties
          /\ pwm \in [Wheels -> 0 .. RAMP]
      BY DEF MotorInit, Zero, Duties
    <2>2. motor \in MotorStages \X Wheels /\ net \in NetStages \X Wheels
      BY DEF MotorInit, Idle, Wheels, MotorStages, NetStages
    <2> QED
      BY <2>1, <2>2 DEF MotorInit, MotorTypeOK
  <1>2. NetInStage /\ StandbyInv
    BY DEF MotorInit, NetInStage, StandbyInv, Zero, Idle, Stopping
  <1> QED
    BY <1>1, <1>2 DEF MotorInv

(* A step of motorTask touches none of what the stop relies on: it only    *)
(* has to respect the types.                                               *)
LEMMA MotorTaskKeepsInv == MotorInv /\ MotorTask => MotorInv'
  <1> SUFFICES ASSUME MotorInv, MotorTask PROVE MotorInv'
    OBVIOUS
  <1> USE DEF MotorTypeOK, driver, bridge, netLocals, motorLocals, Idle, Wheels, MotorStages
  <1>1. MotorTypeOK
    BY DEF MotorInv
  <1>2. UNCHANGED <<g_estop, cmd, stby, net, msg>>
    BY DEF MotorTask, Wake, EnterStep, ReadSetpoint, RampDuty, StoreDuty,
           PassDuty, WriteDirection, WritePwm
  <1>3. (NetInStage /\ StandbyInv)'
    BY <1>2 DEF MotorInv, NetInStage, StandbyInv, Zero
  <1>4. MotorTypeOK'
    <2>1. CASE Wake
      BY <1>1, <2>1 DEF Wake
    <2>2. CASE EnterStep
      BY <1>1, <2>2 DEF EnterStep
    <2>3. ASSUME NEW w \in Wheels, ReadSetpoint(w) PROVE MotorTypeOK'
      BY <1>1, <2>3 DEF ReadSetpoint, After
    <2>4. ASSUME NEW w \in Wheels, RampDuty(w) PROVE MotorTypeOK'
      <3>1. PICK pid \in Duties : arg' = Ramp(duty[w], pid)
        BY <2>4 DEF RampDuty
      <3>2. arg' \in Duties
        BY <1>1, <3>1, RampInRange
      <3> QED
        BY <1>1, <2>4, <3>2 DEF RampDuty
    <2>5. ASSUME NEW w \in Wheels, StoreDuty(w) PROVE MotorTypeOK'
      BY <1>1, <2>5 DEF StoreDuty, After
    <2>6. ASSUME NEW w \in Wheels, PassDuty(w) PROVE MotorTypeOK'
      BY <1>1, <2>6 DEF PassDuty
    <2>7. ASSUME NEW w \in Wheels, WriteDirection(w) PROVE MotorTypeOK'
      BY <1>1, <2>7 DEF WriteDirection
    <2>8. ASSUME NEW w \in Wheels, WritePwm(w) PROVE MotorTypeOK'
      <3>1. Abs(arg) \in 0 .. RAMP
        BY <1>1 DEF Abs, Duties
      <3> QED
        BY <1>1, <2>8, <3>1 DEF WritePwm, After
    <2> QED
      BY <2>1, <2>2, <2>3, <2>4, <2>5, <2>6, <2>7, <2>8 DEF MotorTask
  <1> QED
    BY <1>3, <1>4 DEF MotorInv

(* A step of networkTask keeps the types. *)
LEMMA NetworkTaskKeepsTypes == MotorTypeOK /\ NetworkTask => MotorTypeOK'
  <1> SUFFICES ASSUME MotorTypeOK, NetworkTask PROVE MotorTypeOK'
    OBVIOUS
  <1> USE DEF MotorTypeOK, driver, bridge, netLocals, motorLocals
  <1>1. net' \in NetStages \X Wheels
    BY DEF NetworkTask, OnVelocity, OnEstop, OnClear, Latch, Standby, Unlatch, Raise,
           SetCmd, ZeroCmd, ZeroDuty, BrakePins, CutPwm, After, Idle, Wheels, NetStages
  <1>2. CASE OnVelocity
    BY <1>1, <1>2 DEF OnVelocity
  <1>3. CASE OnEstop \/ OnClear
    BY <1>1, <1>3 DEF OnEstop, OnClear
  <1>4. CASE Latch \/ Unlatch
    BY <1>1, <1>4 DEF Latch, Unlatch
  <1>5. CASE Standby \/ Raise
    BY <1>1, <1>5 DEF Standby, Raise
  <1>6. ASSUME NEW w \in Wheels, SetCmd(w) PROVE MotorTypeOK'
    <2>1. msg[w] \in Int
      BY DEF Zero
    <2> QED
      BY <1>1, <1>6, <2>1 DEF SetCmd
  <1>7. ASSUME NEW w \in Wheels, ZeroCmd(w) PROVE MotorTypeOK'
    BY <1>1, <1>7 DEF ZeroCmd
  <1>8. ASSUME NEW w \in Wheels, ZeroDuty(w) PROVE MotorTypeOK'
    BY <1>1, <1>8 DEF ZeroDuty, Duties
  <1>9. ASSUME NEW w \in Wheels, BrakePins(w) PROVE MotorTypeOK'
    BY <1>1, <1>9 DEF BrakePins
  <1>10. ASSUME NEW w \in Wheels, CutPwm(w) PROVE MotorTypeOK'
    BY <1>1, <1>10 DEF CutPwm
  <1> QED
    BY <1>2, <1>3, <1>4, <1>5, <1>6, <1>7, <1>8, <1>9, <1>10
       DEF NetworkTask

(* A step of networkTask establishes what its next stage relies on. *)
LEMMA NetworkTaskKeepsStages ==
    MotorInv /\ NetworkTask => (NetInStage /\ StandbyInv)'
  <1> SUFFICES ASSUME MotorInv, NetworkTask PROVE (NetInStage /\ StandbyInv)'
    OBVIOUS
  <1> USE DEF MotorInv, MotorTypeOK, NetInStage, StandbyInv, Stopping, Zero,
              driver, bridge, netLocals, motorLocals, Idle, Wheels
  <1>1. CASE OnVelocity
    BY <1>1 DEF OnVelocity
  <1>2. CASE OnEstop
    BY <1>2 DEF OnEstop
  <1>3. CASE OnClear
    BY <1>3 DEF OnClear
  <1>4. CASE Latch
    BY <1>4 DEF Latch
  <1>5. CASE Standby
    BY <1>5 DEF Standby
  <1>6. CASE Unlatch
    BY <1>6 DEF Unlatch
  <1>7. CASE Raise
    BY <1>7 DEF Raise
  <1>8. ASSUME NEW w \in Wheels, SetCmd(w) PROVE (NetInStage /\ StandbyInv)'
    BY <1>8 DEF SetCmd, After
  <1>9. ASSUME NEW w \in Wheels, ZeroCmd(w) PROVE (NetInStage /\ StandbyInv)'
    BY <1>9 DEF ZeroCmd, After
  <1>10. ASSUME NEW w \in Wheels, ZeroDuty(w) PROVE (NetInStage /\ StandbyInv)'
    BY <1>10 DEF ZeroDuty, After
  <1>11. ASSUME NEW w \in Wheels, BrakePins(w) PROVE (NetInStage /\ StandbyInv)'
    BY <1>11 DEF BrakePins, After
  <1>12. ASSUME NEW w \in Wheels, CutPwm(w) PROVE (NetInStage /\ StandbyInv)'
    BY <1>12 DEF CutPwm, After
  <1> QED
    BY <1>1, <1>2, <1>3, <1>4, <1>5, <1>6, <1>7, <1>8, <1>9, <1>10, <1>11, <1>12
       DEF NetworkTask

(* The invariant is inductive. *)
LEMMA StepKeepsMotorInv == MotorInv /\ [MotorNext]_motorVars => MotorInv'
  <1> SUFFICES ASSUME MotorInv, [MotorNext]_motorVars PROVE MotorInv'
    OBVIOUS
  <1>1. CASE MotorTask
    BY <1>1, MotorTaskKeepsInv
  <1>2. CASE NetworkTask
    BY <1>2, NetworkTaskKeepsTypes, NetworkTaskKeepsStages DEF MotorInv
  <1>3. CASE UNCHANGED motorVars
    BY <1>3 DEF MotorInv, MotorTypeOK, NetInStage, StandbyInv, Zero, Idle,
                motorVars, driver, bridge, netLocals, motorLocals
  <1> QED
    BY <1>1, <1>2, <1>3 DEF MotorNext

(* The type invariant of the ESP32 drive, with what the stages of the      *)
(* command handler rely on.                                                *)
THEOREM MotorInvariant == MotorSpec => []MotorInv
  BY InitMotorInv, StepKeepsMotorInv, PTL DEF MotorSpec

(* The state of the ESP32 drive stays within its types.                    *)
THEOREM DriveIsTyped == MotorSpec => []MotorTypeOK
  BY MotorInvariant, PTL DEF MotorInv

(* A stop that estop() has carried out keeps every wheel without drive,    *)
(* whatever a step of motorTask still writes: for every ramp and command.  *)
THEOREM StoppedDriveStaysOff == MotorSpec => []StoppedDriveIsOff
  <1>1. MotorInv => StoppedDriveIsOff
    BY DEF MotorInv, StandbyInv, StoppedDriveIsOff, Drive
  <1> QED
    BY <1>1, MotorInvariant, PTL

(* clearEstop() never enables the bridge with a setpoint other than zero.  *)
THEOREM ReleaseStartsFromZero == MotorSpec => ReleasedSetpointIsZero
  <1>1. MotorInv /\ [MotorNext]_motorVars => [~stby /\ stby' => cmd = Zero]_motorVars
    BY DEF MotorInv, StandbyInv
  <1> QED
    BY <1>1, MotorInvariant, PTL DEF MotorSpec, ReleasedSetpointIsZero
--------------------------------------------------------------------------------
(***************************************************************************)
(* The drive grows by one ramp step at a time, unless a stop raced with a  *)
(* step.                                                                   *)
(***************************************************************************)
Off(w) == pins[w] \in {"coast", "brake"}

(* What the bridge was last given is the duty the next ramp starts from;   *)
(* or is at most one ramp step behind it.                                  *)
Settled(w) == pwm[w] = Abs(duty[w]) /\ (Off(w) => pwm[w] = 0)
Near(w) == Abs(duty[w]) <= pwm[w] + 1 /\ (Off(w) => pwm[w] = 0)

(* The stages of a stop after Latch.                                       *)
Braking == {"zeroCmd", "zeroDuty", "brake", "cut"}

(* A step that runs while the driver is stopped was under way before.      *)
RaceIsKnown ==
    /\ raced \in {"no", "inside", "left"} /\ (raced = "inside" => InStep)
    /\ estopped /\ InStep => raced = "inside"
    /\ net[1] \in Braking \cup {"standby"} => estopped

(* A stop that does not race leaves duty and bridge at zero.               *)
BrakedSoFar ==
    raced = "no" =>
        /\ net = <<"zeroDuty", "R">> => duty["L"] = 0
        /\ net[1] \in {"brake", "cut"} => duty = Zero
        /\ net = <<"cut", "R">> => pwm["L"] = 0

(* Between two steps the bridge has what the driver remembers.             *)
Rested == raced = "no" /\ ~InStep /\ net[1] \notin Braking => \A w \in Wheels : Settled(w)

(* In a step each wheel is at most one ramp step behind; those that it has *)
(* not come to are settled.                                                *)
RampedSoFar ==
    raced = "no" /\ InStep =>
        /\ \A w \in Wheels : Near(w)
        /\ motor[1] = "read" \/ motor \in {<<"ramp", "L">>, <<"store", "L">>} => Settled("L")
        /\ motor[1] \in {"read", "ramp", "store"} => Settled("R")
        /\ motor[1] = "store" => Abs(arg) <= Abs(duty[motor[2]]) + 1

(* What a step writes to the bridge is the duty, also after a race.        *)
WrittenSoFar ==
    raced # "inside" =>
        /\ motor[1] \in {"dir", "pwm"} => arg = duty[motor[2]]
        /\ motor[1] = "pwm" => ~Off(motor[2])
        /\ motor[1] \in {"pass", "dir", "pwm"} /\ motor[2] = "R" => Settled("L")

JumpInv == RaceIsKnown /\ BrakedSoFar /\ Rested /\ RampedSoFar /\ WrittenSoFar

LEMMA InitJumpInv == Init => JumpInv
  BY DEF Init, MotorInit, JumpInv, RaceIsKnown, BrakedSoFar, Rested, RampedSoFar, WrittenSoFar,
         Settled, Off, Abs, Zero, Idle, InStep, Braking, Wheels

(* What a step of a task does to the history.                              *)
LEMMA RacedProps ==
    ASSUME Next
    PROVE  /\ net = <<"latch", "L">> /\ net' # net => raced' = IF InStep THEN "inside" ELSE "no"
           /\ net' = net \/ net # <<"latch", "L">> =>
                 raced' = IF InStep /\ motor' = Idle
                          THEN IF raced = "inside" THEN "left" ELSE "no"
                          ELSE raced
  <1> DEFINE l == net = <<"latch", "L">> /\ net' # net
             e == InStep /\ motor' = Idle
  <1>1. raced' = CASE l -> IF InStep THEN "inside" ELSE "no"
                   [] e -> IF raced = "inside" THEN "left" ELSE "no"
                   [] OTHER -> raced
    BY Zenon DEF Next
  <1>2. ~(l /\ e)
    <2>1. MotorNext
      BY DEF Next
    <2>2. net' = net \/ motor' = motor
      BY <2>1 DEF MotorNext, MotorTask, NetworkTask, netLocals, motorLocals,
           Wake, EnterStep, ReadSetpoint, RampDuty, StoreDuty, PassDuty, WriteDirection, WritePwm,
           OnVelocity, OnEstop, OnClear, Latch, Standby, Unlatch, Raise,
           SetCmd, ZeroCmd, ZeroDuty, BrakePins, CutPwm
    <2> QED
      BY <2>2 DEF InStep
  <1> HIDE DEF l, e
  <1>3. l => raced' = IF InStep THEN "inside" ELSE "no"
    BY <1>1, <1>2, Zenon
  <1>4. ~l => raced' = IF e THEN IF raced = "inside" THEN "left" ELSE "no" ELSE raced
    BY <1>1, <1>2, Zenon
  <1> QED
    BY <1>3, <1>4 DEF l, e

LEMMA RampIsNear ==
    ASSUME NEW current \in Duties, NEW target \in Duties
    PROVE  Abs(Ramp(current, target)) <= Abs(current) + 1
  BY DEF Ramp, Duties, Abs

LEMMA StepJumpInv == MotorInv /\ JumpInv /\ Next => JumpInv'
  <1> SUFFICES ASSUME MotorInv, JumpInv, Next PROVE JumpInv'
    OBVIOUS
  <1> USE DEF MotorTypeOK, JumpInv, RaceIsKnown, BrakedSoFar, Rested, RampedSoFar, WrittenSoFar,
              Settled, Near, Off, Zero, Idle, InStep, Braking, Wheels,
              driver, bridge, netLocals, motorLocals
  <1>1. /\ MotorTypeOK
        /\ net = <<"latch", "L">> /\ net' # net => raced' = IF InStep THEN "inside" ELSE "no"
        /\ net' = net \/ net # <<"latch", "L">> =>
               raced' = IF InStep /\ motor' = Idle
                        THEN IF raced = "inside" THEN "left" ELSE "no"
                        ELSE raced
    BY RacedProps DEF MotorInv
  <1>2. CASE Wake
    BY <1>1, <1>2 DEF Wake
  <1>3. CASE EnterStep
    BY <1>1, <1>3 DEF EnterStep
  <1>4. CASE OnVelocity
    BY <1>1, <1>4 DEF OnVelocity
  <1>5. CASE OnEstop
    BY <1>1, <1>5 DEF OnEstop
  <1>6. CASE OnClear
    BY <1>1, <1>6 DEF OnClear
  <1>7. CASE Latch
    BY <1>1, <1>7 DEF Latch
  <1>8. CASE Standby
    BY <1>1, <1>8 DEF Standby
  <1>9. CASE Unlatch
    BY <1>1, <1>9 DEF Unlatch
  <1>10. CASE Raise
    BY <1>1, <1>10 DEF Raise
  <1>11. ASSUME NEW w \in Wheels, ReadSetpoint(w) PROVE JumpInv'
    BY <1>1, <1>11 DEF ReadSetpoint, After
  <1>12. ASSUME NEW w \in Wheels, RampDuty(w) PROVE JumpInv'
    <2>1. PICK pid \in Duties : arg' = Ramp(duty[w], pid)
      BY <1>12 DEF RampDuty
    <2>2. duty[w] \in Duties
      BY <1>1
    <2>3. Abs(arg') <= Abs(duty[w]) + 1
      BY <2>1, <2>2, RampIsNear
    <2> QED
      BY <1>1, <1>12, <2>3 DEF RampDuty
  <1>13. ASSUME NEW w \in Wheels, StoreDuty(w) PROVE JumpInv'
    BY <1>1, <1>13 DEF StoreDuty, After
  <1>14. ASSUME NEW w \in Wheels, PassDuty(w) PROVE JumpInv'
    BY <1>1, <1>14 DEF PassDuty, After
  <1>15. ASSUME NEW w \in Wheels, WriteDirection(w) PROVE JumpInv'
    BY <1>1, <1>15 DEF WriteDirection, After
  <1>16. ASSUME NEW w \in Wheels, WritePwm(w) PROVE JumpInv'
    <2>1. /\ pwm' = [pwm EXCEPT ![w] = Abs(arg)] /\ motor = <<"pwm", w>> /\ net' = net
          /\ motor' = After("pass", w, "idle") /\ UNCHANGED <<estopped, duty, pins, arg, stby>>
      BY <1>16 DEF WritePwm
    <2>2. CASE w = "L"
      <3>1. motor' = <<"pass", "R">> /\ raced' = raced
        BY <1>1, <2>1, <2>2 DEF After
      <3>2. raced # "inside" => Settled("L")'
        BY <1>1, <2>1, <2>2
      <3>3. raced = "no" => \A v \in Wheels : Near(v)'
        BY <1>1, <2>1, <2>2, <3>2 DEF Abs, Duties
      <3> QED
        BY <2>1, <2>2, <3>1, <3>2, <3>3, <1>1
    <2>3. CASE w = "R"
      <3>1. motor' = Idle /\ raced' = IF raced = "inside" THEN "left" ELSE "no"
        BY <1>1, <2>1, <2>3 DEF After
      <3>2. raced # "inside" => Settled("L")' /\ Settled("R")' /\ ~estopped
        BY <1>1, <2>1, <2>3
      <3> QED
        BY <2>1, <2>3, <3>1, <3>2, <1>1
    <2> QED
      BY <2>2, <2>3
  <1>17. ASSUME NEW w \in Wheels, SetCmd(w) PROVE JumpInv'
    BY <1>1, <1>17 DEF SetCmd, After
  <1>18. ASSUME NEW w \in Wheels, ZeroCmd(w) PROVE JumpInv'
    BY <1>1, <1>18 DEF ZeroCmd, After
  <1>19. ASSUME NEW w \in Wheels, ZeroDuty(w) PROVE JumpInv'
    <2>1. /\ duty' = [duty EXCEPT ![w] = 0] /\ net = <<"zeroDuty", w>>
          /\ net' = After("zeroDuty", w, "brake") /\ UNCHANGED <<estopped, pwm, pins, arg, motor>>
      BY <1>19 DEF ZeroDuty
    <2>2. raced' = raced /\ estopped
      BY <1>1, <2>1
    <2>3. (RaceIsKnown /\ RampedSoFar /\ WrittenSoFar)'
      BY <1>1, <2>1, <2>2 DEF After
    <2>4. (BrakedSoFar /\ Rested)'
      BY <1>1, <2>1, <2>2 DEF After
    <2> QED
      BY <2>3, <2>4
  <1>20. ASSUME NEW w \in Wheels, BrakePins(w) PROVE JumpInv'
    BY <1>1, <1>20 DEF BrakePins, After
  <1>21. ASSUME NEW w \in Wheels, CutPwm(w) PROVE JumpInv'
    <2>1. /\ pwm' = [pwm EXCEPT ![w] = 0] /\ net = <<"cut", w>>
          /\ net' = After("cut", w, "standby") /\ UNCHANGED <<estopped, duty, pins, arg, motor>>
      BY <1>21 DEF CutPwm
    <2>2. raced' = raced /\ estopped
      BY <1>1, <2>1
    <2>3. (RaceIsKnown /\ RampedSoFar /\ WrittenSoFar)'
      BY <1>1, <2>1, <2>2 DEF After
    <2>4. BrakedSoFar'
      BY <1>1, <2>1, <2>2 DEF After
    <2>5. ASSUME raced = "no", w = "R" PROVE \A v \in Wheels : Settled(v)'
      BY <2>1, <2>5, <1>1 DEF Abs
    <2>6. Rested'
      BY <2>1, <2>2, <2>5 DEF After
    <2> QED
      BY <2>3, <2>4, <2>6
  <1> QED
    BY <1>2, <1>3, <1>4, <1>5, <1>6, <1>7, <1>8, <1>9, <1>10, <1>11, <1>12, <1>13, <1>14, <1>15, <1>16, <1>17, <1>18, <1>19, <1>20, <1>21 DEF Next, MotorNext, MotorTask, NetworkTask

(* A stutter keeps it, too.                                                *)
LEMMA StutterJumpInv == JumpInv /\ UNCHANGED vars => JumpInv'
  BY DEF vars, motorVars, driver, bridge, netLocals, motorLocals, JumpInv, RaceIsKnown, BrakedSoFar,
         Rested, RampedSoFar, WrittenSoFar, Settled, Near, Off, InStep

(* How strong a wheel is driven.                                           *)
Strength ==
    \A w \in Wheels :
        /\ pwm[w] \in Nat /\ Abs(Drive(w)) \in Nat /\ Abs(Drive(w)) <= pwm[w]
        /\ stby /\ ~Off(w) => Abs(Drive(w)) = pwm[w]
        /\ ~stby \/ Off(w) => Abs(Drive(w)) = 0

LEMMA DriveProps == MotorTypeOK => Strength
  <1> SUFFICES ASSUME MotorTypeOK, NEW w \in Wheels
               PROVE  /\ pwm[w] \in Nat /\ Abs(Drive(w)) \in Nat /\ Abs(Drive(w)) <= pwm[w]
                      /\ stby /\ ~Off(w) => Abs(Drive(w)) = pwm[w]
                      /\ ~stby \/ Off(w) => Abs(Drive(w)) = 0
    BY Zenon DEF Strength
  <1>1. pwm[w] \in Nat /\ pins[w] \in {"coast", "brake", "fwd", "rev"} /\ stby \in BOOLEAN
    BY DEF MotorTypeOK
  <1>2. stby /\ pins[w] = "fwd" => Drive(w) = pwm[w]
    BY DEF Drive
  <1>3. stby /\ pins[w] = "rev" => Drive(w) = -pwm[w]
    BY DEF Drive
  <1>4. ~stby \/ Off(w) => Drive(w) = 0
    BY DEF Drive, Off
  <1> HIDE DEF Drive
  <1> QED
    BY <1>1, <1>2, <1>3, <1>4 DEF Abs, Off

(* Unless a stop raced, each access to the bridge raises a drive by at most *)
(* one ramp step.                                                           *)
LEMMA StepJumps ==
    ASSUME MotorInv, MotorTypeOK', JumpInv, MotorNext, stby, raced = "no", NEW w \in Wheels
    PROVE  Abs(Drive(w)') <= Abs(Drive(w)) + 1
  <1> DEFINE d == Abs(Drive(w))
  <1>1. /\ MotorTypeOK /\ pwm[w] \in Nat /\ d \in Nat
        /\ ~Off(w) => d = pwm[w]
        /\ Off(w) => d = 0
    BY DriveProps DEF MotorInv, Strength
  <1>2. /\ pwm'[w] \in Nat /\ d' \in Nat /\ d' <= pwm'[w]
        /\ Off(w)' => d' = 0
    <2>1. Strength'
      BY DriveProps, PTL
    <2> QED
      BY <2>1 DEF Strength
  <1> SUFFICES d' <= d + 1
    BY DEF d
  <1> HIDE DEF d
  <1>3. CASE pins'[w] = pins[w] /\ pwm'[w] = pwm[w]
    BY <1>1, <1>2, <1>3 DEF Off
  <1>4. CASE \E v \in Wheels : WriteDirection(v)
    BY <1>1, <1>2, <1>4 DEF WriteDirection, JumpInv, RampedSoFar, Near, InStep, Idle, MotorTypeOK, Wheels
  <1>5. CASE \E v \in Wheels : WritePwm(v)
    <2>1. PICK v \in Wheels : WritePwm(v)
      BY <1>5
    <2>2. CASE v = w
      <3>1. motor = <<"pwm", w>> /\ pwm'[w] = Abs(arg)
        BY <1>1, <2>1, <2>2 DEF WritePwm, MotorTypeOK
      <3>2. arg = duty[w] /\ ~Off(w) /\ Abs(duty[w]) <= pwm[w] + 1
        BY <3>1 DEF JumpInv, RampedSoFar, WrittenSoFar, Near, InStep, Idle
      <3> QED
        BY <1>1, <1>2, <3>1, <3>2
    <2>3. CASE v # w
      BY <1>1, <1>3, <2>1, <2>3 DEF WritePwm, MotorTypeOK
    <2> QED
      BY <2>2, <2>3
  <1>6. CASE \E v \in Wheels : BrakePins(v)
    BY <1>1, <1>2, <1>3, <1>6 DEF BrakePins, MotorTypeOK, Off
  <1>7. CASE \E v \in Wheels : CutPwm(v)
    BY <1>1, <1>2, <1>3, <1>7 DEF CutPwm, MotorTypeOK, Abs
  <1>8. \/ pins' = pins /\ pwm' = pwm
        \/ \E v \in Wheels : WriteDirection(v) \/ WritePwm(v) \/ BrakePins(v) \/ CutPwm(v)
    BY DEF MotorNext, MotorTask, NetworkTask, bridge, Wake, EnterStep, ReadSetpoint, RampDuty, StoreDuty,
           PassDuty, OnVelocity, OnEstop, OnClear, Latch, Standby, Unlatch, Raise,
           SetCmd, ZeroCmd, ZeroDuty
  <1> QED
    BY <1>3, <1>4, <1>5, <1>6, <1>7, <1>8

(* While the bridge stays enabled the drive of a wheel grows by one ramp    *)
(* step at a time, across stops and releases, unless a stop raced with a    *)
(* step: for every ramp and every set of commands.                          *)
THEOREM DriveGrowsByRamp == Spec => JumpsOnlyAfterRace
  <1>1. Init => MotorInv /\ JumpInv
    BY InitMotorInv, InitJumpInv DEF Init
  <1>2. MotorInv /\ JumpInv /\ [Next]_vars => (MotorInv /\ JumpInv)'
    BY StepKeepsMotorInv, StepJumpInv, StutterJumpInv DEF Next, vars
  <1>3. MotorInv /\ JumpInv /\ [Next]_vars
           => [stby /\ raced = "no" => \A w \in Wheels : Abs(Drive(w)') <= Abs(Drive(w)) + 1]_vars
    BY StepJumps, StepKeepsMotorInv DEF Next, MotorInv
  <1> QED
    BY <1>1, <1>2, <1>3, PTL DEF Spec, JumpsOnlyAfterRace
=================================================================================
