------------------------------- MODULE MCVehicleSecurity -------------------------------
(* Model checking of VehicleSecurity: the brakes and two goals that depend on *)
(* them, two scopes, a monitor that is started and stopped once, and one    *)
(* thread that reports critical tampering with injected frames.               *)
EXTENDS VehicleSecurity

CONSTANTS brakes, bus, braking, powertrain, motion, network, ota, reporter, op

const_Ecu == {brakes}
const_OtherEvent ==
    {[source |-> bus, severity |-> "MEDIUM", tamper |-> FALSE, injection |-> FALSE]}
const_Goals == <<braking, powertrain, motion>>
const_Asil == [g \in {braking, powertrain, motion} |-> IF g = powertrain THEN "C" ELSE "D"]
const_RelatedEcus == [g \in {braking, powertrain, motion} |-> IF g = powertrain THEN {powertrain} ELSE {brakes, powertrain}]
const_Scopes == <<network, ota>>
const_Reporter == {reporter}
const_ReportedEvent ==
    {[source |-> brakes, severity |-> "CRITICAL", tamper |-> TRUE, injection |-> TRUE]}
const_LockCaller == 1 .. MaxStarts \cup {reporter, op}
================================================================================
