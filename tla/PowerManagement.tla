---------------------------- MODULE PowerManagement ----------------------------
(***************************************************************************)
(* Power modes, rails and the rail monitor of                              *)
(* src/c/embedded_system/power_management.c, over the fault handler the    *)
(* monitor reports to.                                                     *)
(*                                                                         *)
(* Voltages and currents are abstracted to the three flags the monitor     *)
(* derives from them.  The loop of PowerManagement_MonitorRails is run     *)
(* test by test: `scan' is the sequence of (rail, flag) tests it still has *)
(* to make.                                                                *)
(***************************************************************************)
EXTENDS FaultHandler

CONSTANT Rails    (* the rails, as the sequence the loops walk through      *)

PowerCodes == {"POWER_UNDERVOLTAGE", "POWER_OVERVOLTAGE", "POWER_OVERCURRENT"}

ASSUME PowerAssumption ==
    /\ Rails \in Seq({"CORE", "IO", "MOTOR", "CAN", "SENSOR", "COMMS"})
    /\ \A i, j \in DOMAIN Rails : Rails[i] = Rails[j] => i = j
    /\ "CORE" \in {Rails[i] : i \in DOMAIN Rails}
    /\ PowerCodes \subseteq Codes

RailSet == {Rails[i] : i \in DOMAIN Rails}

VARIABLES
    mode,      (* s_current_mode                                            *)
    enabled,   (* the rails whose s_rail_status[].enabled is true           *)
    flags,     (* per rail, the fault flags set at its last measurement     *)
    scan       (* the tests MonitorRails still has to make                  *)

powerVars == <<mode, enabled, flags, scan>>
vars      == <<faultVars, powerVars>>

Modes == {"RUN", "SLEEP", "STOP", "STANDBY", "SHUTDOWN"}

PowerTypeOK ==
    /\ FaultTypeOK
    /\ mode \in Modes
    /\ enabled \subseteq RailSet
    /\ flags \in [RailSet -> SUBSET PowerCodes]
    /\ scan \in Seq(RailSet \X PowerCodes)

(* A voltage is not both below the lower and above the upper limit. *)
Readings == {f \in SUBSET PowerCodes :
                ~({"POWER_UNDERVOLTAGE", "POWER_OVERVOLTAGE"} \subseteq f)}

(* Mutant of Severity: over-current is an ERROR. *)
SeverityLax(code) == IF code = "POWER_OVERVOLTAGE" THEN CRITICAL ELSE ERROR

Severity(code) == IF code = "POWER_UNDERVOLTAGE" THEN ERROR ELSE CRITICAL
--------------------------------------------------------------------------------
PowerInit ==
    /\ mode = "RUN"
    /\ enabled = RailSet \ {"MOTOR"}
    /\ flags = [r \in RailSet |-> {}]
    /\ scan = << >>

Init == FaultInit /\ PowerInit

(* POWER_MODE_SLEEP: the mode is set after the WFI has returned, and kept. *)
EnterSleep ==
    /\ mode' = "SLEEP"
    /\ UNCHANGED <<enabled, flags>>

(* POWER_MODE_STOP: back in RUN after wake-up. *)
EnterStop ==
    /\ mode' = "RUN"
    /\ UNCHANGED <<enabled, flags>>

(* PowerManagement_DisableRail refuses the core rail except in SHUTDOWN. *)
MayDisable(r) == r = "CORE" => mode = "SHUTDOWN"

(* POWER_MODE_SHUTDOWN: DisableRail for every rail, then the mode, so the  *)
(* core rail survives only the first time.                                 *)
EnterShutdown ==
    /\ enabled' = enabled \ {r \in RailSet : MayDisable(r)}
    /\ mode' = "SHUTDOWN"
    /\ UNCHANGED flags

Wakeup == mode' = "RUN" /\ UNCHANGED <<enabled, flags>>

EnableRail(r) ==
    /\ enabled' = enabled \cup {r}
    /\ UNCHANGED <<mode, flags>>

DisableRail(r) ==
    /\ MayDisable(r)
    /\ enabled' = enabled \ {r}
    /\ UNCHANGED <<mode, flags>>

Call ==
    /\ scan = << >>
    /\ \/ EnterSleep \/ EnterStop \/ EnterShutdown \/ Wakeup
       \/ \E r \in RailSet : EnableRail(r) \/ DisableRail(r)
    /\ UNCHANGED <<faultVars, scan>>

(* POWER_MODE_STANDBY ends in a processor reset. *)
EnterStandby ==
    /\ scan = << >>
    /\ mode' = "RUN" /\ enabled' = RailSet \ {"MOTOR"}
    /\ flags' = [r \in RailSet |-> {}] /\ scan' = << >>
    /\ dtcs' = << >> /\ session' = "DEFAULT" /\ log' = << >> /\ status' = DefaultStatus
    /\ stats' = [stored |-> 0, confirmed |-> 0, pending |-> 0, session |-> "unset"]

(* The tests of one pass, in the order of the loop. *)
FlagOrder == <<"POWER_UNDERVOLTAGE", "POWER_OVERVOLTAGE", "POWER_OVERCURRENT">>

Tests ==
    [n \in 1 .. 3 * Len(Rails) |->
        <<Rails[1 + ((n - 1) \div 3)], FlagOrder[1 + ((n - 1) % 3)]>>]

(* UpdateRailMeasurements: only enabled rails are measured; the others     *)
(* keep the flags of their last measurement.                               *)
MonitorRails ==
    /\ scan = << >>
    /\ flags' \in {f \in [RailSet -> Readings] :
                      \A r \in RailSet \ enabled : f[r] = flags[r]}
    /\ scan' = Tests
    /\ UNCHANGED <<faultVars, mode, enabled>>

Raises(rail, code) == rail \in enabled /\ code \in flags[rail]

Test ==
    /\ scan # << >>
    /\ LET rail == Head(scan)[1]
           code == Head(scan)[2]
       IN  IF Raises(rail, code) THEN Report(Severity(code), code)
                                 ELSE UNCHANGED faultVars
    /\ scan' = Tail(scan)
    /\ UNCHANGED <<mode, enabled, flags>>

(* Service clears the log between two passes of the monitor. *)
Service ==
    /\ scan = << >>
    /\ ClearAllRecords \/ \E code \in PowerCodes : ClearFault(code)
    /\ UNCHANGED powerVars

Next == Call \/ EnterStandby \/ MonitorRails \/ Test \/ Service

Spec == Init /\ [][Next]_vars
--------------------------------------------------------------------------------
(***************************************************************************)
(* Properties.                                                             *)
(***************************************************************************)

(* A pass of the monitor that met an over-voltage or an over-current on an *)
(* enabled rail ends with the vehicle latched, unless the fault log is     *)
(* full; whichever rails were switched and whatever service cleared.       *)
PassLatchesCriticalRail ==
    [][ /\ scan # << >> /\ scan' = << >>
        /\ Len(log') < FAULT_LOG_MAX
        /\ \E r \in enabled : flags[r] \ {"POWER_UNDERVOLTAGE"} # {}
      => Latched(status') ]_vars
================================================================================
