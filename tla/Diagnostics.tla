------------------------------ MODULE Diagnostics ------------------------------
(***************************************************************************)
(* The diagnostic trouble code store and the UDS session of                *)
(* src/c/embedded_system/diagnostics.c.                                    *)
(*                                                                         *)
(* A DTC is kept per fault code, in the order of first occurrence, in an   *)
(* array of DTC_MAX_COUNT entries.  Timestamps and descriptions are left   *)
(* out, and of the status byte the two bits that are ever tested: PENDING  *)
(* and CONFIRMED.  The occurrence counter is compared with nothing but     *)
(* CONFIRM_COUNT, so it saturates at OccurrenceCap.                        *)
(***************************************************************************)
EXTENDS Integers, Sequences, FiniteSets, SystemState

CONSTANTS
    Codes,            (* fault codes                                        *)
    DTC_MAX_COUNT,    (* capacity of s_dtc_store                            *)
    OccurrenceCap     (* bound on the modelled occurrence counter           *)

CONFIRM_COUNT == 3    (* "Confirm DTC after 3 occurrences"                  *)

ASSUME DiagnosticsAssumption ==
    /\ DTC_MAX_COUNT \in Nat \ {0}
    /\ OccurrenceCap \in Nat
    /\ OccurrenceCap >= CONFIRM_COUNT

Sessions == {"DEFAULT", "EXTENDED", "PROGRAMMING", "SAFETY_DISABLED"}

VARIABLES
    dtcs,      (* s_dtc_store[0 .. s_dtc_count-1]                           *)
    session,   (* s_current_session                                         *)
    stats      (* s_stats, as last recomputed by UpdateStats                *)

diagVars == <<dtcs, session, stats>>

DTC == [code : Codes, occurrences : 1 .. OccurrenceCap, severity : Severities,
        pending : BOOLEAN, confirmed : BOOLEAN]

(* s_stats is zeroed by Init, and 0 is no DiagSession_t: "unset". *)
Stats == [stored : Nat, confirmed : Nat, pending : Nat,
          session : Sessions \cup {"unset"}]

DiagTypeOK ==
    /\ dtcs \in Seq(DTC)
    /\ Len(dtcs) <= DTC_MAX_COUNT
    /\ session \in Sessions
    /\ stats \in Stats
--------------------------------------------------------------------------------
Bump(n) == IF n < OccurrenceCap THEN n + 1 ELSE n

(* FindDTCIndex returns the first slot of a code; by DtcLifecycle there is *)
(* never more than one.                                                    *)
DtcSlots(d, code) == {i \in DOMAIN d : d[i].code = code}
FindDTC(d, code)  == CHOOSE i \in DtcSlots(d, code) : TRUE

NewDTC(code, sev) ==
    [code |-> code, occurrences |-> 1, severity |-> sev,
     pending |-> TRUE, confirmed |-> FALSE]

(* Mutant of Recur: confirmed one occurrence late. *)
RecurLate(r, sev) ==
    LET n == Bump(r.occurrences) IN
    [r EXCEPT !.occurrences = n, !.severity = IF sev > @ THEN sev ELSE @,
              !.confirmed = @ \/ n > CONFIRM_COUNT, !.pending = @ /\ n <= CONFIRM_COUNT]

(* The update of a DTC that is already stored: count, promote the severity *)
(* if higher, confirm at the third occurrence.                             *)
Recur(r, sev) ==
    LET n == Bump(r.occurrences) IN
    [r EXCEPT !.occurrences = n,
              !.severity    = IF sev > @ THEN sev ELSE @,
              !.confirmed   = @ \/ n >= CONFIRM_COUNT,
              !.pending     = @ /\ n < CONFIRM_COUNT]

(* Mutant of StoreDTC: the last slot is never used. *)
StoreDTCShort(d, code, sev) ==
    IF DtcSlots(d, code) # {}
    THEN [d EXCEPT ![FindDTC(d, code)] = Recur(@, sev)]
    ELSE IF Len(d) + 1 < DTC_MAX_COUNT THEN Append(d, NewDTC(code, sev)) ELSE d

(* Diagnostics_StoreDTC: a code that finds the store full is dropped. *)
StoreDTC(d, code, sev) ==
    IF DtcSlots(d, code) # {}
    THEN [d EXCEPT ![FindDTC(d, code)] = Recur(@, sev)]
    ELSE IF Len(d) < DTC_MAX_COUNT THEN Append(d, NewDTC(code, sev)) ELSE d

UpdateStats(d, s) ==
    [stored    |-> Len(d),
     confirmed |-> Cardinality({i \in DOMAIN d : d[i].confirmed}),
     pending   |-> Cardinality({i \in DOMAIN d : d[i].pending}),
     session   |-> s]
--------------------------------------------------------------------------------
DiagInit ==
    /\ dtcs = << >>
    /\ session = "DEFAULT"
    /\ stats = [stored |-> 0, confirmed |-> 0, pending |-> 0, session |-> "unset"]

Store(code, sev) ==
    /\ dtcs' = StoreDTC(dtcs, code, sev)
    /\ stats' = UpdateStats(dtcs', session)
    /\ UNCHANGED session

(* UDS 0x14: refused in the default session. *)
ClearDTCs ==
    /\ session # "DEFAULT"
    /\ dtcs' = << >>
    /\ stats' = UpdateStats(dtcs', session)
    /\ UNCHANGED session

(* UDS 0x10: the safety-disabled session is refused. *)
SetSession(s) ==
    /\ s \in Sessions \ {"SAFETY_DISABLED"}
    /\ session' = s
    /\ stats' = UpdateStats(dtcs, s)
    /\ UNCHANGED dtcs

(* Diagnostics_ProcessRequest, the services that change state. *)
ProcessRequest == ClearDTCs \/ \E s \in Sessions : SetSession(s)

DiagNext == ProcessRequest \/ \E code \in Codes, sev \in Severities : Store(code, sev)

DiagSpec == DiagInit /\ [][DiagNext]_diagVars
--------------------------------------------------------------------------------
(***************************************************************************)
(* Properties.                                                             *)
(***************************************************************************)

(* The statistics served by Diagnostics_GetStats are those of the store at *)
(* every moment: no path changes the store and leaves a stale count (or a  *)
(* stale session) behind.                                                  *)
StatsAgree ==
    \/ stats = UpdateStats(dtcs, session)
    \/ /\ dtcs = << >>
       /\ session = "DEFAULT"
       /\ stats = [UpdateStats(dtcs, session) EXCEPT !.session = "unset"]

OneDtcPerCode ==
    \A i, j \in DOMAIN dtcs : dtcs[i].code = dtcs[j].code => i = j

(* The life cycle of a DTC: every stored code has one entry, and an entry  *)
(* is pending until its third occurrence and confirmed from then on.       *)
DtcLifecycle ==
    /\ OneDtcPerCode
    /\ \A i \in DOMAIN dtcs :
          /\ dtcs[i].confirmed <=> dtcs[i].occurrences >= CONFIRM_COUNT
          /\ dtcs[i].pending <=> ~dtcs[i].confirmed

(* What the store shows of every code, for the comparison with the ledger  *)
(* of reports in FaultReports.                                             *)
Ledger ==
    [c \in Codes |->
        IF DtcSlots(dtcs, c) = {} THEN [hits |-> 0, worst |-> -1]
        ELSE [hits  |-> dtcs[FindDTC(dtcs, c)].occurrences,
              worst |-> dtcs[FindDTC(dtcs, c)].severity]]
================================================================================
