------------------------------- MODULE Esp32Stops -------------------------------
(***************************************************************************)
(* Esp32Motor with a history of whether the last emergency stop came while *)
(* a step of motorTask was under way.                                      *)
(***************************************************************************)
EXTENDS Esp32Motor

VARIABLE
    raced      (* "no"; "inside": the step that was under way still runs;   *)
               (* "left": it has ended and no step was completed since      *)

vars == <<motorVars, raced>>

InStep == motor \notin {Idle, <<"enter", "L">>}

Init == MotorInit /\ raced = "no"

Next ==
    /\ MotorNext
    /\ raced' = CASE net = <<"latch", "L">> /\ net' # net ->
                       IF InStep THEN "inside" ELSE "no"
                  [] InStep /\ motor' = Idle ->
                       IF raced = "inside" THEN "left" ELSE "no"
                  [] OTHER -> raced

Spec == Init /\ [][Next]_vars
--------------------------------------------------------------------------------
(* While the bridge stays enabled the drive of a wheel grows by at most    *)
(* one ramp step at a time, across stops and releases too, unless the stop *)
(* raced with a step: brake() resets the duty the ramp starts from.        *)
JumpsOnlyAfterRace ==
    [][stby /\ raced = "no" =>
         \A w \in Wheels : Abs(Drive(w)') <= Abs(Drive(w)) + 1]_vars
================================================================================
