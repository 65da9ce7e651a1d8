----------------------------- MODULE MCFaultReports -----------------------------
(* Model checking of FaultReports on the constants of its configurations. *)
EXTENDS FaultReports
================================================================================
