------------------------------ MODULE FaultReports ------------------------------
(***************************************************************************)
(* FaultHandler with two histories of what its callers reported, to        *)
(* compare the fault log and the trouble-code store with the reports they  *)
(* were made from.                                                         *)
(***************************************************************************)
EXTENDS FaultHandler

CONSTANT Reportable    (* the severities the callers report                 *)

ASSUME ReportsAssumption == Reportable \subseteq Severities

VARIABLES
    peak,      (* per code, the worst severity reported since the code was  *)
               (* last cleared from the log, -1 for none                    *)
    heard      (* per code, number and worst severity of the reports that   *)
               (* reached Diagnostics_StoreDTC since the last UDS clear     *)

reportsVars == <<faultVars, peak, heard>>

NoReports == [c \in Codes |-> -1]

L == INSTANCE DtcLedger WITH reports <- heard, ledger <- Ledger, Capacity <- DTC_MAX_COUNT

ReportsInit == FaultInit /\ peak = NoReports /\ heard = L!Blank

(* A report that a full log turns away goes no further (fault_handler.c,   *)
(* line 124).                                                              *)
Reported(sev, code) ==
    /\ Report(sev, code)
    /\ peak' = [peak EXCEPT ![code] = IF sev > @ THEN sev ELSE @]
    /\ heard' = IF Accepts(code) THEN [heard EXCEPT ![code] = L!Counted(@, sev)] ELSE heard

Cleared(code) == ClearFault(code) /\ peak' = [peak EXCEPT ![code] = -1] /\ UNCHANGED heard

AllCleared == ClearAllRecords /\ peak' = NoReports /\ UNCHANGED heard

DtcsCleared == ClearDTCs /\ heard' = L!Blank /\ UNCHANGED <<log, status, peak>>

SessionSet == /\ \E s \in Sessions : SetSession(s)
              /\ UNCHANGED <<log, status, peak, heard>>

ReportsNext ==
    \/ \E sev \in Reportable, code \in Codes : Reported(sev, code)
    \/ \E code \in Codes : Cleared(code)
    \/ AllCleared
    \/ DtcsCleared
    \/ SessionSet

ReportsSpec == ReportsInit /\ [][ReportsNext]_reportsVars
--------------------------------------------------------------------------------
(***************************************************************************)
(* Properties.                                                             *)
(***************************************************************************)

(* The log never overstates: an active record is not graver than the worst *)
(* report behind it since the code was last cleared.  (It may understate   *)
(* one that escalated.)                                                    *)
LogNeverOverstates ==
    \A i \in DOMAIN log : log[i].active => log[i].severity <= peak[log[i].code]

(* A CRITICAL report is lost to a full log and to nothing else: while the  *)
(* log has room, whatever was cleared, escalated or repeated before, every *)
(* code whose worst report is CRITICAL has latched the fault.              *)
CriticalLostOnlyWhenFull ==
    Len(log) < FAULT_LOG_MAX =>
        \A c \in Codes : peak[c] = CRITICAL => Latched(status)

(* The store implements the ledger of the reports it was given             *)
(* (Diagnostics_StoreDTC, Diagnostics_ClearDTCs): every report of a code   *)
(* that has a slot, or finds one free, is counted with the worst severity; *)
(* only a full store turns a code away; and nothing but a clear in an      *)
(* extended or programming session makes it forget.                        *)
ImplementsLedger == L!Spec
================================================================================
