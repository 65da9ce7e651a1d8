------------------------------ MODULE MCControlNode ------------------------------
(* Model checking of ControlNode with NavigationNode. *)
EXTENDS ControlNode

const_PathLengths == {1, 2}
================================================================================
