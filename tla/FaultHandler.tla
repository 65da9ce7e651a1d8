------------------------------ MODULE FaultHandler ------------------------------
(***************************************************************************)
(* The fault log of src/c/embedded_system/fault_handler.c together with    *)
(* what a report does to the rest of the firmware: it stores a DTC and, if *)
(* critical, latches the fault in g_system_status and stops the vehicle.   *)
(*                                                                         *)
(* A log slot is never reused: clearing a fault only marks its record      *)
(* inactive, so FAULT_LOG_MAX bounds the number of fault episodes between  *)
(* two FaultHandler_ClearAllRecords, not the number of active faults.      *)
(* Source, timestamp and occurrence count of a record are never read by    *)
(* the firmware; `recovered' is the negation of `active'.  NotifyCallback  *)
(* calls what FaultHandler_RegisterCallback was given; nothing in the      *)
(* repository registers a callback, so it does nothing.                    *)
(***************************************************************************)
EXTENDS Diagnostics

CONSTANT FAULT_LOG_MAX    (* capacity of s_fault_log                        *)

ASSUME FaultLogAssumption == FAULT_LOG_MAX \in Nat \ {0}

VARIABLES
    log,       (* s_fault_log[0 .. s_fault_count-1]                         *)
    status     (* g_system_status                                           *)

faultVars == <<diagVars, log, status>>

FaultRecord == [code : Codes, severity : Severities, active : BOOLEAN]

FaultTypeOK ==
    /\ log \in Seq(FaultRecord)
    /\ Len(log) <= FAULT_LOG_MAX
    /\ status \in SystemStatus
--------------------------------------------------------------------------------
(* Mutant of ActiveRecords: the search starts at the second slot. *)
ActiveRecordsFrom1(code) ==
    {i \in DOMAIN log : i > 1 /\ log[i].code = code /\ log[i].active}

(* FindFaultRecord looks at active records only. *)
ActiveRecords(code) == {i \in DOMAIN log : log[i].code = code /\ log[i].active}

HasRecord(code) == ActiveRecords(code) # {}

(* FaultHandler_HasActiveFault *)
HasActiveFault(min) ==
    \E i \in DOMAIN log : log[i].active /\ log[i].severity >= min

(* A report of a code that is not active is turned away by a full log. *)
Accepts(code) == HasRecord(code) \/ Len(log) < FAULT_LOG_MAX

NewRecord(code, sev) == [code |-> code, severity |-> sev, active |-> TRUE]

(* The bookkeeping of FaultHandler_Report.  The severity of a record that  *)
(* is already active is left as it is.                                     *)
LogFault(sev, code) ==
    IF Accepts(code)
    THEN /\ log' = IF HasRecord(code) THEN log
                   ELSE Append(log, NewRecord(code, sev))
         /\ Store(code, sev)
    ELSE UNCHANGED <<log, diagVars>>

(* Mutant of React: returns early when the fault is already active. *)
ReactToNew(s, sev, code) ==
    IF sev = CRITICAL /\ Accepts(code) /\ ~HasRecord(code) THEN EnterSafeState(s) ELSE s

(* What a report does to a status s.  The recovery of an ERROR is always   *)
(* RECOVERY_RETRY, which does nothing.                                     *)
React(s, sev, code) ==
    IF sev = CRITICAL /\ Accepts(code) THEN EnterSafeState(s) ELSE s

Report(sev, code) ==
    /\ LogFault(sev, code)
    /\ status' = React(status, sev, code)

(* Mutant of ClearFault: the newest record is deactivated, whatever its code. *)
ClearFaultNewest(code) ==
    /\ log' = [i \in DOMAIN log |->
                 IF i = Len(log) THEN [log[i] EXCEPT !.active = FALSE] ELSE log[i]]
    /\ UNCHANGED <<status, diagVars>>

(* FaultHandler_ClearFault: the record stays, inactive. *)
ClearFault(code) ==
    /\ log' = [i \in DOMAIN log |->
                 IF i \in ActiveRecords(code) THEN [log[i] EXCEPT !.active = FALSE]
                                              ELSE log[i]]
    /\ UNCHANGED <<status, diagVars>>

ClearAllRecords ==
    /\ log' = << >>
    /\ UNCHANGED <<status, diagVars>>
--------------------------------------------------------------------------------
FaultInit ==
    /\ DiagInit
    /\ log = << >>
    /\ status = DefaultStatus

FaultNext ==
    \/ \E sev \in Severities, code \in Codes : Report(sev, code)
    \/ \E code \in Codes : ClearFault(code)
    \/ ClearAllRecords
    \/ ProcessRequest /\ UNCHANGED <<log, status>>

FaultSpec == FaultInit /\ [][FaultNext]_faultVars
--------------------------------------------------------------------------------
(***************************************************************************)
(* Properties.                                                             *)
(***************************************************************************)

(* FindFaultRecord stops at the first active record of a code, so two of   *)
(* them would leave one that ClearFault can no longer reach: there is at   *)
(* most one, however often the code is cleared and reported again.         *)
OneActiveRecord ==
    \A i, j \in DOMAIN log :
        log[i].active /\ log[j].active /\ log[i].code = log[j].code => i = j

(* The latch in g_system_status and the log are two views of the same      *)
(* faults: no CRITICAL fault is in the log, active or recovered, without   *)
(* the latch, and the latch always carries the severity RunDriving tests.  *)
LatchCoversLog ==
    /\ \A i \in DOMAIN log : log[i].severity = CRITICAL => Latched(status)
    /\ status.fault_active => status.fault_severity = CRITICAL
================================================================================
