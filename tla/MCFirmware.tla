------------------------------- MODULE MCFirmware -------------------------------
(***************************************************************************)
(* Model checking of Firmware.  The application asks for every state a     *)
(* driver or a service tool can ask for, and its monitors report a         *)
(* CRITICAL fault; the self-test adds the other severities.                *)
(***************************************************************************)
EXTENDS Firmware

MCCodes     == SelfTestCodes \cup {"MOTOR_OVERTEMP"}
MCRequests  == {"BOOT", "SELFTEST", "READY", "DRIVING", "PARKING", "STANDBY", "SHUTDOWN"}
MCAppFaults == {<<CRITICAL, "MOTOR_OVERTEMP">>}
================================================================================
