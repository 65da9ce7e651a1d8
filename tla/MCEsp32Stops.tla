------------------------------ MODULE MCEsp32Stops ------------------------------
(* Model checking of Esp32Stops: drive forwards or turn on the spot. *)
EXTENDS Esp32Stops

const_Commands ==
    { [w \in Wheels |-> 1],
      [w \in Wheels |-> IF w = "L" THEN -1 ELSE 1] }
================================================================================
