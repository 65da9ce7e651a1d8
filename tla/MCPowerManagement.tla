--------------------------- MODULE MCPowerManagement ---------------------------
(***************************************************************************)
(* Model checking of PowerManagement with two of the six rails: the core   *)
(* rail, which the code protects, and the motor rail, which starts off.    *)
(***************************************************************************)
EXTENDS PowerManagement

MCRails == <<"CORE", "MOTOR">>
MCCodes == PowerCodes
================================================================================
