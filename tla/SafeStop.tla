-------------------------------- MODULE SafeStop --------------------------------
(***************************************************************************)
(* What the supervisory firmware promises, with everything but the phase   *)
(* of the vehicle and the fault latch left out:                            *)
(*   - driving is reached from operational only, and operational, once the *)
(*     vehicle was stopped or restarted, only through preparation;         *)
(*   - latching a fault stops the vehicle in the same step, and only a     *)
(*     restart takes the latch away;                                       *)
(*   - a vehicle that starts driving with the latch set stops again.       *)
(***************************************************************************)
VARIABLES phase, latched

vars == <<phase, latched>>

Phases == {"preparing", "operational", "driving", "stopped"}

Init == phase = "preparing" /\ latched = FALSE

Prepared == phase = "preparing" /\ phase' = "operational" /\ UNCHANGED latched

Drive == phase = "operational" /\ phase' = "driving" /\ UNCHANGED latched

Pause == phase = "driving" /\ phase' = "operational" /\ UNCHANGED latched

Stop == phase' = "stopped" /\ UNCHANGED latched

LatchFault == phase' = "stopped" /\ latched' = TRUE

Recover == phase = "stopped" /\ phase' = "preparing" /\ UNCHANGED latched

Restart == phase' = "preparing" /\ latched' = FALSE

Next == Prepared \/ Drive \/ Pause \/ Stop \/ LatchFault \/ Recover \/ Restart

StopLatched == phase = "driving" /\ latched /\ Stop

Spec == Init /\ [][Next]_vars /\ WF_vars(StopLatched)
================================================================================
