------------------------------ MODULE SystemState ------------------------------
(***************************************************************************)
(* The supervisory state machine of the vehicle firmware                   *)
(* (src/c/embedded_system/main.c): the states, the transition table and    *)
(* the fields of g_system_status that steer it.                            *)
(*                                                                         *)
(* Everything here is a function of a status record, so that a handler     *)
(* which changes the status several times in one call (a self-test that    *)
(* reports a fault and then transitions) is a composition of these.        *)
(* Timestamps, loop counters and previous_state are never read back by the *)
(* firmware and are left out.                                              *)
(***************************************************************************)
EXTENDS Integers

SystemStates ==
    {"BOOT", "SELFTEST", "STANDBY", "INIT_DRIVERS", "CALIBRATION", "READY",
     "DRIVING", "PARKING", "EMERGENCY", "SHUTDOWN", "FAULT"}

(* FaultSeverity_t; the code compares severities as integers. *)
INFO     == 0
WARNING  == 1
ERROR    == 2
CRITICAL == 3
Severities == INFO .. CRITICAL

SystemStatus ==
    [current_state  : SystemStates,
     fault_active   : BOOLEAN,
     fault_severity : Severities]

(* System_ConfigureDefaults: memset to zero, then BOOT. *)
DefaultStatus ==
    [current_state |-> "BOOT", fault_active |-> FALSE, fault_severity |-> INFO]

(* The switch of System_ValidateStateTransition. *)
Successors ==
    [s \in SystemStates |->
        CASE s = "BOOT"         -> {"SELFTEST"}
          [] s = "SELFTEST"     -> {"INIT_DRIVERS"}
          [] s = "INIT_DRIVERS" -> {"CALIBRATION"}
          [] s = "CALIBRATION"  -> {"READY"}
          [] s = "READY"        -> {"DRIVING", "PARKING", "SHUTDOWN", "STANDBY"}
          [] s = "DRIVING"      -> {"READY", "PARKING", "STANDBY"}
          [] s = "PARKING"      -> {"READY", "SHUTDOWN", "DRIVING"}
          [] s = "STANDBY"      -> {"READY", "SHUTDOWN"}
          [] s = "EMERGENCY"    -> {"SHUTDOWN", "SELFTEST"}
          [] s = "SHUTDOWN"     -> {"BOOT"}
          [] s = "FAULT"        -> {"BOOT", "SHUTDOWN"}]

(* Mutants of ValidateStateTransition: FAULT must be in the table; READY   *)
(* need not be.                                                            *)
ValidateWithoutFault(from, to) == to \in {"EMERGENCY"} \cup Successors[from]

ValidateReadyAlways(from, to) == to \in {"EMERGENCY", "FAULT", "READY"} \cup Successors[from]

(* EMERGENCY and FAULT may be entered from every state. *)
ValidateStateTransition(from, to) ==
    to \in {"EMERGENCY", "FAULT"} \cup Successors[from]

(* A rejected transition changes nothing; its error code is ignored by     *)
(* every caller in the firmware.                                           *)
TransitionState(s, new) ==
    IF ValidateStateTransition(s.current_state, new)
    THEN [s EXCEPT !.current_state = new]
    ELSE s

EmergencyStop(s) == TransitionState(s, "EMERGENCY")

(* Mutants of EnterSafeState: the severity is forgotten, the stop is       *)
(* forgotten.                                                              *)
EnterSafeStateUngraded(s) == EmergencyStop([s EXCEPT !.fault_active = TRUE])

EnterSafeStateMoving(s) ==
    [s EXCEPT !.fault_active = TRUE, !.fault_severity = CRITICAL]

(* FaultHandler_EnterSafeState: latch the fault, then stop.  No function   *)
(* but System_ConfigureDefaults ever clears the latch.                     *)
EnterSafeState(s) ==
    EmergencyStop([s EXCEPT !.fault_active = TRUE, !.fault_severity = CRITICAL])

(* The condition System_RunDriving tests in every iteration. *)
Latched(s) == s.fault_active /\ s.fault_severity >= CRITICAL

(* Mutant of RunDriving: > for >=. *)
RunDrivingBeyond(s) ==
    IF s.fault_active /\ s.fault_severity > CRITICAL
    THEN TransitionState(s, "EMERGENCY") ELSE s

RunDriving(s) == IF Latched(s) THEN TransitionState(s, "EMERGENCY") ELSE s
================================================================================
