------------------------------ MODULE MCRpiVehicle ------------------------------
(* Model checking of RpiVehicle: one of the two wildcards main.py          *)
(* subscribes to, and one topic it matches.                                *)
EXTENDS RpiVehicle

const_Filters == {"+/estop"}
const_Topics == {"av/estop"}
const_Matches == Filters \X Topics
================================================================================
