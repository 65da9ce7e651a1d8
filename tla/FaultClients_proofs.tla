-------------------------- MODULE FaultClients_proofs --------------------------
(***************************************************************************)
(* Proofs about the two specifications that drive the fault handler:       *)
(* FaultReports, with histories of what its callers reported, and          *)
(* PowerManagement, the rail monitor.  Both leave log and latch to the     *)
(* handler, so what holds of a step of FaultHandler holds of theirs.       *)
(***************************************************************************)
EXTENDS FaultReports, PowerManagement, FaultHandler_proofs

Peaks == [Codes -> {-1} \cup Severities]

(* What the log, the latch and the history of reports say of each other.   *)
ReportInv == peak \in Peaks /\ LogNeverOverstates /\ CriticalLostOnlyWhenFull

(* Watching the reports does not change the fault handler.                 *)
LEMMA OnlyWatches == ReportsSpec => FaultSpec
  <1>1. ReportsInit => FaultInit
    BY DEF ReportsInit
  <1>2. [ReportsNext]_reportsVars => [FaultNext]_faultVars
    BY ReportsAssumption DEF ReportsNext, FaultNext, reportsVars, Reported, Cleared, AllCleared,
                             DtcsCleared, SessionSet, ProcessRequest
  <1> QED
    BY <1>1, <1>2, PTL DEF ReportsSpec, FaultSpec

(* A report is entered in the history with the graver of two severities.   *)
LEMMA PeakAfterReport ==
    ASSUME peak \in Peaks, NEW sev \in Reportable, NEW c \in Codes, Reported(sev, c)
    PROVE  /\ peak' \in Peaks
           /\ \A x \in Codes : peak[x] <= peak'[x]
           /\ sev <= peak'[c]
           /\ \A x \in Codes : peak'[x] = peak[x] \/ (x = c /\ peak'[x] = sev)
  BY ReportsAssumption DEF Peaks, Reported, Severities, INFO, CRITICAL

(* A report preserves the invariant: the record is new with the severity   *)
(* reported, or unchanged.                                                 *)
LEMMA ReportedStep ==
    ASSUME FaultInv, ReportInv, NEW sev \in Reportable, NEW c \in Codes, Reported(sev, c)
    PROVE  ReportInv'
  <1>1. /\ log \in Seq(FaultRecord) /\ Len(log) <= FAULT_LOG_MAX
        /\ status \in SystemStatus /\ sev \in Severities
    BY ReportsAssumption DEF FaultInv, FaultTypeOK
  <1>2. /\ peak' \in Peaks /\ peak \in Peaks
        /\ \A x \in Codes : peak[x] <= peak'[x]
        /\ sev <= peak'[c]
        /\ \A x \in Codes : peak'[x] = peak[x] \/ (x = c /\ peak'[x] = sev)
    BY PeakAfterReport DEF ReportInv
  <1>3. \/ log' = log
        \/ log' = Append(log, NewRecord(c, sev))
    BY DEF Reported, Report, LogFault
  <1>4. LogNeverOverstates'
    <2>1. ASSUME NEW i \in DOMAIN log, log[i].active
          PROVE  log[i].severity <= peak'[log[i].code]
      <3>1. log[i] \in FaultRecord
        BY <1>1
      <3>2. log[i].code \in Codes /\ log[i].severity \in Severities
        BY <3>1 DEF FaultRecord
      <3>3. log[i].severity <= peak[log[i].code]
        BY <2>1 DEF ReportInv, LogNeverOverstates
      <3>4. peak[log[i].code] <= peak'[log[i].code]
        BY <1>2, <3>2
      <3>5. peak[log[i].code] \in Int /\ peak'[log[i].code] \in Int /\ log[i].severity \in Int
        BY <1>2, <3>2 DEF Peaks, Severities, INFO, CRITICAL
      <3> QED
        BY <3>3, <3>4, <3>5
    <2>2. CASE log' = log
      BY <2>1, <2>2 DEF LogNeverOverstates
    <2>3. CASE log' = Append(log, NewRecord(c, sev))
      <3>1. /\ DOMAIN log' = 1 .. Len(log) + 1
            /\ log'[Len(log) + 1] = NewRecord(c, sev)
            /\ \A i \in DOMAIN log : log'[i] = log[i]
            /\ DOMAIN log = 1 .. Len(log)
        BY <1>1, <2>3
      <3>2. NewRecord(c, sev).code = c /\ NewRecord(c, sev).severity = sev
        BY DEF NewRecord
      <3> QED
        BY <1>1, <1>2, <2>1, <3>1, <3>2 DEF LogNeverOverstates
    <2> QED
      BY <1>3, <2>2, <2>3
  <1>5. CriticalLostOnlyWhenFull'
    <2> SUFFICES ASSUME Len(log') < FAULT_LOG_MAX, NEW x \in Codes, peak'[x] = CRITICAL
                 PROVE  Latched(status')
      BY DEF CriticalLostOnlyWhenFull
    <2>1. Len(log) < FAULT_LOG_MAX
      BY <1>1, <1>3, FaultLogAssumption
    <2>2. status' = React(status, sev, c)
      BY DEF Reported, Report
    <2>3. CASE peak[x] = CRITICAL
      <3>1. Latched(status)
        BY <2>1, <2>3 DEF ReportInv, CriticalLostOnlyWhenFull
      <3> QED
        BY <1>1, <2>2, <3>1, ReactProps DEF Latched
    <2>4. CASE peak[x] # CRITICAL
      <3>1. x = c /\ sev = CRITICAL
        BY <1>2, <2>4
      <3>2. Accepts(c)
        BY <2>1 DEF Accepts
      <3> QED
        BY <1>1, <2>2, <3>1, <3>2, ReactProps
    <2> QED
      BY <2>3, <2>4
  <1> QED
    BY <1>2, <1>4, <1>5 DEF ReportInv

(* Clearing a code forgets its reports and deactivates its record.         *)
LEMMA ClearedStep ==
    ASSUME FaultInv, ReportInv, NEW c \in Codes, Cleared(c)
    PROVE  ReportInv'
  <1>1. log \in Seq(FaultRecord) /\ peak \in Peaks
    BY DEF FaultInv, FaultTypeOK, ReportInv
  <1>2. /\ peak' \in Peaks
        /\ \A x \in Codes : x # c => peak'[x] = peak[x]
        /\ peak'[c] = -1
        /\ status' = status
    BY <1>1 DEF Cleared, ClearFault, Peaks
  <1>3. /\ DOMAIN log' = DOMAIN log
        /\ \A i \in DOMAIN log : i \notin ActiveRecords(c) => log'[i] = log[i]
        /\ \A i \in ActiveRecords(c) : log'[i] = [log[i] EXCEPT !.active = FALSE]
    BY <1>1 DEF Cleared, ClearFault, ActiveRecords
  <1>4. LogNeverOverstates'
    <2> SUFFICES ASSUME NEW i \in DOMAIN log', log'[i].active
                 PROVE  log'[i].severity <= peak'[log'[i].code]
      BY DEF LogNeverOverstates
    <2>1. i \in DOMAIN log /\ log[i] \in FaultRecord
      BY <1>1, <1>3
    <2>2. i \notin ActiveRecords(c)
      <3>1. [log[i] EXCEPT !.active = FALSE].active = FALSE
        BY <2>1, Zenon DEF FaultRecord
      <3> QED
        BY <1>3, <3>1
    <2>3. log'[i] = log[i] /\ log[i].code # c
      BY <1>3, <2>1, <2>2 DEF ActiveRecords
    <2>4. log[i].code \in Codes
      BY <2>1 DEF FaultRecord
    <2> QED
      BY <1>2, <2>1, <2>3, <2>4 DEF ReportInv, LogNeverOverstates
  <1>5. Len(log') = Len(log)
    BY <1>1 DEF Cleared, ClearFault
  <1>6. CriticalLostOnlyWhenFull'
    BY <1>2, <1>5 DEF ReportInv, CriticalLostOnlyWhenFull, CRITICAL
  <1> QED
    BY <1>2, <1>4, <1>6 DEF ReportInv

(* The log never says worse of a fault than its reports did, and the only  *)
(* reason for a CRITICAL report to be without a latch is a full log: for   *)
(* every capacity, every set of codes and every order of reports, clears   *)
(* and requests.                                                           *)
THEOREM ReportsAreKept == ReportsSpec => []LogNeverOverstates /\ []CriticalLostOnlyWhenFull
  <1>1. ReportsInit => ReportInv
    BY DEF ReportsInit, FaultInit, NoReports, ReportInv, Peaks, LogNeverOverstates,
           CriticalLostOnlyWhenFull, CRITICAL
  <1>2. FaultInv /\ ReportInv /\ [ReportsNext]_reportsVars => ReportInv'
    <2> SUFFICES ASSUME FaultInv, ReportInv, [ReportsNext]_reportsVars PROVE ReportInv'
      OBVIOUS
    <2>1. ASSUME AllCleared PROVE ReportInv'
      BY <2>1 DEF AllCleared, ClearAllRecords, NoReports, ReportInv, Peaks,
                  LogNeverOverstates, CriticalLostOnlyWhenFull, CRITICAL
    <2>2. ASSUME UNCHANGED <<log, status, peak>> PROVE ReportInv'
      BY <2>2 DEF ReportInv, LogNeverOverstates, CriticalLostOnlyWhenFull, Latched
    <2> QED
      BY <2>1, <2>2, ReportedStep, ClearedStep DEF ReportsNext, DtcsCleared, SessionSet, reportsVars, faultVars
  <1>3. FaultSpec => []FaultInv
    BY FaultHandlerInvariant, PTL
  <1> QED
    BY <1>1, <1>2, <1>3, OnlyWatches, PTL DEF ReportsSpec, ReportInv
--------------------------------------------------------------------------------
(* The ledger counts as the store does.                                    *)
LEMMA SameCardinality == \A S : L!Cardinality(S) = Cardinality(S)
  BY DEF L!Cardinality, Cardinality

(* The ledger shows a code for every slot of the store.                    *)
LEMMA RecordedFitsStore ==
    ASSUME dtcs \in Seq(DTC), OneDtcPerCode
    PROVE  Cardinality(L!Recorded) = Len(dtcs)
  <1> DEFINE f == [i \in 1 .. Len(dtcs) |-> dtcs[i].code]
  <1>1. \A c \in L!Recorded : \E i \in 1 .. Len(dtcs) : dtcs[i].code = c
    BY DEF L!Recorded, Ledger, DtcSlots
  <1>2. \A i \in 1 .. Len(dtcs) : dtcs[i].code \in L!Recorded
    <2> TAKE i \in 1 .. Len(dtcs)
    <2> DEFINE c == dtcs[i].code
               k == FindDTC(dtcs, c)
    <2>1. dtcs[i] \in DTC /\ c \in Codes
      <3>1. dtcs[i] \in DTC
        OBVIOUS
      <3> QED
        BY <3>1, Zenon DEF DTC
    <2>2. i \in DtcSlots(dtcs, c)
      BY DEF DtcSlots
    <2>3. k \in DOMAIN dtcs /\ dtcs[k] \in DTC
      BY <2>2, FindDTCInSlots DEF DtcSlots
    <2>4. dtcs[k].occurrences > 0
      BY <2>3 DEF DTC
    <2>5. Ledger[c].hits = dtcs[k].occurrences
      BY <2>1, <2>2 DEF Ledger
    <2> QED
      BY <2>1, <2>4, <2>5 DEF L!Recorded
  <1>3. f \in Surjection(1 .. Len(dtcs), L!Recorded)
    BY <1>1, <1>2 DEF Surjection
  <1>4. IsFiniteSet(1 .. Len(dtcs)) /\ Cardinality(1 .. Len(dtcs)) = Len(dtcs)
    <2>1. Len(dtcs) \in Nat /\ 1 \in Int /\ Len(dtcs) \in Int
      OBVIOUS
    <2>2. /\ IsFiniteSet(1 .. Len(dtcs))
          /\ Cardinality(1 .. Len(dtcs)) = IF 1 > Len(dtcs) THEN 0 ELSE Len(dtcs) - 1 + 1
      BY <2>1, FS_Interval, Zenon
    <2> HIDE DEF f
    <2> QED
      BY <2>1, <2>2
  <1>5. f \in Injection(1 .. Len(dtcs), L!Recorded)
    BY <1>2 DEF Injection, IsInjective, OneDtcPerCode
  <1> QED
    BY <1>3, <1>4, <1>5, FS_Surjection

(* A report is counted in the ledger, or finds no room there.              *)
LEMMA StoreRecords ==
    ASSUME DiagTypeOK, OneDtcPerCode, NEW c \in Codes, NEW sev \in Severities, Store(c, sev)
    PROVE  Ledger' = IF L!TakesIn(c) THEN [Ledger EXCEPT ![c] = L!Counted(@, sev)] ELSE Ledger
  <1> USE DiagnosticsAssumption DEF CONFIRM_COUNT
  <1>1. dtcs \in Seq(DTC) /\ dtcs' = StoreDTC(dtcs, c, sev)
    BY DEF DiagTypeOK, Store
  <1> DEFINE entry(n, w) == [Ledger EXCEPT ![c] = [hits |-> n, worst |-> w]]
  <1>2. Ledger = [x \in Codes |-> Ledger[x]] /\ Ledger' = [x \in Codes |-> Ledger'[x]]
    BY DEF Ledger
  <1>3. CASE DtcSlots(dtcs, c) # {}
    <2> DEFINE k == FindDTC(dtcs, c)
               r == Recur(dtcs[k], sev)
               n == Bump(dtcs[k].occurrences)
               w == IF sev > dtcs[k].severity THEN sev ELSE dtcs[k].severity
    <2>1. k \in DOMAIN dtcs /\ dtcs[k] \in DTC /\ dtcs[k].code = c
      BY <1>1, <1>3, FindDTCInSlots DEF DtcSlots
    <2>2. r.code = c /\ r.occurrences = n /\ r.severity = w
      BY <2>1, Zenon DEF Recur, DTC
    <2>3. dtcs' = [dtcs EXCEPT ![k] = r]
      BY <1>1, <1>3 DEF StoreDTC
    <2>4. Ledger[c] = [hits |-> dtcs[k].occurrences, worst |-> dtcs[k].severity]
      BY <1>3 DEF Ledger
    <2> HIDE DEF r, k
    <2>5. /\ DOMAIN dtcs' = DOMAIN dtcs /\ dtcs'[k] = r
          /\ \A i \in DOMAIN dtcs : i # k => dtcs'[i] = dtcs[i]
      BY <1>1, <2>1, <2>3
    <2>6. \A x : DtcSlots(dtcs', x) = DtcSlots(dtcs, x)
      BY <2>1, <2>2, <2>5 DEF DtcSlots
    <2>7. \A x : FindDTC(dtcs', x) = FindDTC(dtcs, x)
      BY <2>6 DEF FindDTC
    <2>8. ASSUME NEW x \in Codes, x # c PROVE Ledger'[x] = Ledger[x]
      <3>1. CASE DtcSlots(dtcs, x) = {}
        BY <2>6, <3>1 DEF Ledger
      <3>2. CASE DtcSlots(dtcs, x) # {}
        <4>1. FindDTC(dtcs, x) \in DOMAIN dtcs /\ dtcs[FindDTC(dtcs, x)].code = x
          BY <1>1, <3>2, FindDTCInSlots DEF DtcSlots
        <4>2. dtcs'[FindDTC(dtcs, x)] = dtcs[FindDTC(dtcs, x)]
          BY <2>1, <2>5, <2>8, <4>1
        <4> QED
          BY <2>6, <2>7, <3>2, <4>2 DEF Ledger
      <3> QED
        BY <3>1, <3>2
    <2>9. Ledger'[c] = [hits |-> n, worst |-> w]
      <3>1. FindDTC(dtcs', c) = k
        BY <2>7 DEF k
      <3>2. Ledger'[c] = [hits |-> dtcs'[k].occurrences, worst |-> dtcs'[k].severity]
        BY <1>3, <2>6, <3>1 DEF Ledger
      <3> QED
        BY <2>2, <2>5, <3>2
    <2>10. Ledger' = entry(n, w)
      BY <1>2, <2>8, <2>9, Zenon
    <2>11. c \in L!Recorded
      BY <2>1, <2>4 DEF L!Recorded, DTC
    <2>12. [Ledger EXCEPT ![c] = L!Counted(@, sev)] = entry(n, w)
      <3>1. Ledger[c].hits = dtcs[k].occurrences /\ Ledger[c].worst = dtcs[k].severity
        BY <2>4
      <3> QED
        BY <1>2, <2>4, <3>1 DEF Bump, L!Worse, L!Counted
    <2> QED
      BY <2>10, <2>11, <2>12 DEF L!TakesIn
  <1>4. CASE DtcSlots(dtcs, c) = {} /\ Len(dtcs) < DTC_MAX_COUNT
    <2> DEFINE m == Len(dtcs) + 1
    <2>1. dtcs' = Append(dtcs, NewDTC(c, sev))
      BY <1>1, <1>4 DEF StoreDTC
    <2>2. \A i \in DOMAIN dtcs : dtcs[i].code # c
      BY <1>4 DEF DtcSlots
    <2>3. /\ DOMAIN dtcs' = 1 .. m /\ DOMAIN dtcs = 1 .. Len(dtcs)
          /\ dtcs'[m] = NewDTC(c, sev) /\ m \notin DOMAIN dtcs
          /\ \A i \in DOMAIN dtcs : dtcs'[i] = dtcs[i]
      BY <1>1, <2>1
    <2>4. NewDTC(c, sev).code = c /\ NewDTC(c, sev).occurrences = 1 /\ NewDTC(c, sev).severity = sev
      BY DEF NewDTC
    <2>5. DtcSlots(dtcs', c) = {m}
      BY <1>1, <2>2, <2>3, <2>4 DEF DtcSlots
    <2>6. FindDTC(dtcs', c) = m
      BY <2>5 DEF FindDTC
    <2>7. Ledger'[c] = [hits |-> 1, worst |-> sev]
      BY <2>3, <2>4, <2>5, <2>6 DEF Ledger
    <2>8. ASSUME NEW x \in Codes, x # c PROVE Ledger'[x] = Ledger[x]
      <3>1. DtcSlots(dtcs', x) = DtcSlots(dtcs, x)
        BY <1>1, <2>3, <2>4, <2>8 DEF DtcSlots
      <3>2. FindDTC(dtcs', x) = FindDTC(dtcs, x)
        BY <3>1 DEF FindDTC
      <3>3. CASE DtcSlots(dtcs, x) = {}
        BY <3>1, <3>3 DEF Ledger
      <3>4. CASE DtcSlots(dtcs, x) # {}
        <4>1. FindDTC(dtcs, x) \in DOMAIN dtcs
          BY <1>1, <3>4, FindDTCInSlots DEF DtcSlots
        <4> QED
          BY <2>3, <3>1, <3>2, <3>4, <4>1 DEF Ledger
      <3> QED
        BY <3>3, <3>4
    <2>9. Ledger' = entry(1, sev)
      BY <1>2, <2>7, <2>8, Zenon
    <2>10. Cardinality(L!Recorded) < DTC_MAX_COUNT
      BY <1>1, <1>4, RecordedFitsStore
    <2>11. [Ledger EXCEPT ![c] = L!Counted(@, sev)] = entry(1, sev)
      <3>1. Ledger[c] = [hits |-> 0, worst |-> -1]
        BY <1>4 DEF Ledger
      <3>2. sev > -1 /\ 0 < OccurrenceCap /\ 0 + 1 = 1
        BY DEF Severities, INFO, CRITICAL
      <3>3. Ledger[c].hits = 0 /\ Ledger[c].worst = -1
        BY <3>1
      <3>4. L!Worse(sev, -1) = sev
        BY <3>2 DEF L!Worse
      <3>5. (IF Ledger[c].hits < OccurrenceCap THEN Ledger[c].hits + 1 ELSE Ledger[c].hits) = 1
        BY <3>2, <3>3
      <3> QED
        BY <3>1, <3>3, <3>4, <3>5, Zenon DEF L!Counted
    <2> QED
      BY <2>9, <2>10, <2>11, SameCardinality DEF L!TakesIn
  <1>5. CASE DtcSlots(dtcs, c) = {} /\ ~(Len(dtcs) < DTC_MAX_COUNT)
    <2>1. Ledger' = Ledger
      BY <1>1, <1>5 DEF StoreDTC, Ledger
    <2>2. c \notin L!Recorded
      <3>1. Ledger[c].hits = 0
        BY <1>5 DEF Ledger
      <3> QED
        BY <3>1 DEF L!Recorded
    <2>3. ~(Cardinality(L!Recorded) < DTC_MAX_COUNT)
      BY <1>1, <1>5, RecordedFitsStore
    <2> QED
      BY <2>1, <2>2, <2>3, SameCardinality DEF L!TakesIn
  <1> QED
    BY <1>3, <1>4, <1>5

(* The trouble-code store implements the ledger of the reports it was      *)
(* given: of a code that has a slot or finds one free no report is lost    *)
(* and no severity demoted, only a full store turns a code away, and only  *)
(* a clear forgets, for every capacity, every set of codes and every order *)
(* of calls.                                                               *)
THEOREM StoreImplementsLedger == ReportsSpec => ImplementsLedger
  <1>1. ASSUME dtcs = << >> PROVE Ledger = L!Blank
    BY <1>1 DEF Ledger, L!Blank, DtcSlots
  <1>2. ReportsInit => L!Init
    BY <1>1 DEF ReportsInit, FaultInit, DiagInit, L!Init
  <1>3. DiagTypeOK /\ DtcLifecycle /\ [ReportsNext]_reportsVars => [L!Next]_<<heard, Ledger>>
    <2> SUFFICES ASSUME DiagTypeOK, DtcLifecycle, [ReportsNext]_reportsVars
                 PROVE  L!Next \/ (heard' = heard /\ Ledger' = Ledger)
      OBVIOUS
    <2>1. ASSUME dtcs' = dtcs PROVE Ledger' = Ledger
      BY <2>1 DEF Ledger
    <2>2. ASSUME NEW sev \in Reportable, NEW c \in Codes, Reported(sev, c)
          PROVE  L!Next \/ (heard' = heard /\ Ledger' = Ledger)
      <3>1. sev \in Severities /\ sev \in 0 .. 3
        BY ReportsAssumption DEF Severities, INFO, CRITICAL
      <3>2. CASE Accepts(c)
        <4>1. Store(c, sev) /\ heard' = [heard EXCEPT ![c] = L!Counted(@, sev)]
          BY <2>2, <3>2 DEF Reported, Report, LogFault
        <4>2. L!Report(c, sev)
          BY <3>1, <4>1, StoreRecords DEF DtcLifecycle, L!Report
        <4> QED
          BY <3>1, <4>2 DEF L!Next
      <3>3. CASE ~Accepts(c)
        BY <2>1, <2>2, <3>3 DEF Reported, Report, LogFault, diagVars
      <3> QED
        BY <3>2, <3>3
    <2>3. ASSUME DtcsCleared PROVE L!Next
      <3>1. dtcs' = << >> /\ heard' = L!Blank
        BY <2>3 DEF DtcsCleared, ClearDTCs
      <3>2. Ledger' = L!Blank
        BY <3>1 DEF Ledger, L!Blank, DtcSlots
      <3> QED
        BY <3>1, <3>2 DEF L!Next, L!Clear
    <2>4. ASSUME SessionSet PROVE heard' = heard /\ Ledger' = Ledger
      BY <2>1, <2>4 DEF SessionSet, SetSession
    <2>5. ASSUME NEW c \in Codes, Cleared(c) PROVE heard' = heard /\ Ledger' = Ledger
      BY <2>1, <2>5 DEF Cleared, ClearFault, diagVars
    <2>6. ASSUME AllCleared PROVE heard' = heard /\ Ledger' = Ledger
      BY <2>1, <2>6 DEF AllCleared, ClearAllRecords, diagVars
    <2>7. ASSUME UNCHANGED reportsVars PROVE heard' = heard /\ Ledger' = Ledger
      BY <2>1, <2>7 DEF reportsVars, faultVars, diagVars
    <2> QED
      BY <2>2, <2>3, <2>4, <2>5, <2>6, <2>7 DEF ReportsNext
  <1>4. ReportsSpec => []DiagTypeOK /\ []DtcLifecycle
    BY OnlyWatches, StoresAreTyped, TroubleCodesMature, PTL
  <1> QED
    BY <1>2, <1>3, <1>4, PTL DEF ReportsSpec, ImplementsLedger, L!Spec, L!vars
--------------------------------------------------------------------------------
(* PowerManagement.  The tests a pass of the monitor has made are those in *)
(* front of the ones it still has to make.                                 *)
Made == {n \in DOMAIN Tests : n <= 3 * Len(Rails) - Len(scan)}

(* The tests left are the last ones of the pass, in order.                 *)
ScanIsSuffix ==
    /\ Len(scan) <= 3 * Len(Rails)
    /\ \A n \in DOMAIN scan : scan[n] = Tests[3 * Len(Rails) - Len(scan) + n]

(* A critical flag on an enabled rail that the pass under way has tested   *)
(* has latched the vehicle, if the log has room.                           *)
MadeTestsLatch ==
    scan # << >> /\ Len(log) < FAULT_LOG_MAX =>
        \A n \in Made :
            Raises(Tests[n][1], Tests[n][2]) /\ Severity(Tests[n][2]) = CRITICAL
                => Latched(status)

PassInv == PowerTypeOK /\ FaultInv /\ ScanIsSuffix /\ MadeTestsLatch

(* The tests are pairs of a rail and a flag; a rail has all three.         *)
LEMMA TestsProps ==
    /\ Tests \in Seq(RailSet \X PowerCodes) /\ Len(Tests) = 3 * Len(Rails)
    /\ \A r \in RailSet, c \in PowerCodes : \E n \in DOMAIN Tests : Tests[n] = <<r, c>>
  <1>1. Len(Rails) \in Nat /\ DOMAIN Rails = 1 .. Len(Rails)
    BY PowerAssumption
  <1> DEFINE rail(n) == Rails[1 + ((n - 1) \div 3)]
             code(n) == FlagOrder[1 + ((n - 1) % 3)]
  <1>2. Tests = [n \in 1 .. 3 * Len(Rails) |-> <<rail(n), code(n)>>]
    BY DEF Tests
  <1>3. ASSUME NEW n \in 1 .. 3 * Len(Rails)
        PROVE  rail(n) \in RailSet /\ code(n) \in PowerCodes
    <2>1. 1 + ((n - 1) \div 3) \in DOMAIN Rails
      BY <1>1
    <2>2. 1 + ((n - 1) % 3) \in 1 .. 3
      <3>1. n - 1 \in Nat
        BY <1>1
      <3> HIDE DEF rail, code
      <3> QED
        BY <3>1
    <2>3. code(n) \in PowerCodes
      BY <2>2 DEF FlagOrder, PowerCodes
    <2> QED
      BY <2>1, <2>3 DEF RailSet
  <1>4. ASSUME NEW k \in DOMAIN Rails, NEW j \in 1 .. 3
        PROVE  \E n \in 1 .. 3 * Len(Rails) : rail(n) = Rails[k] /\ code(n) = FlagOrder[j]
    <2> DEFINE n == 3 * (k - 1) + j
    <2>1. k \in Int /\ 1 <= k /\ k <= Len(Rails)
      BY <1>1
    <2>2. n \in 1 .. 3 * Len(Rails)
      BY <1>1, <2>1
    <2>3. (n - 1) \div 3 = k - 1 /\ (n - 1) % 3 = j - 1
      <3>1. n - 1 = 3 * (k - 1) + (j - 1) /\ j - 1 \in 0 .. 2 /\ k - 1 \in Int
        BY <2>1
      <3> HIDE DEF n
      <3>2. (n - 1) \div 3 = k - 1
        BY <3>1
      <3>3. (n - 1) % 3 = j - 1
        BY <3>1
      <3> QED
        BY <3>2, <3>3
    <2>4. 1 + (k - 1) = k /\ 1 + (j - 1) = j
      BY <2>1
    <2> HIDE DEF n
    <2>5. 1 + ((n - 1) \div 3) = k /\ 1 + ((n - 1) % 3) = j
      BY <2>3, <2>4
    <2>6. rail(n) = Rails[k] /\ code(n) = FlagOrder[j]
      BY <2>5
    <2> HIDE DEF rail, code
    <2> QED
      BY <2>2, <2>6
  <1>5. DOMAIN Tests = 1 .. 3 * Len(Rails)
    BY <1>2
  <1> HIDE DEF rail, code
  <1>6. Tests \in Seq(RailSet \X PowerCodes) /\ Len(Tests) = 3 * Len(Rails)
    BY <1>1, <1>2, <1>3 DEF RailSet
  <1>7. ASSUME NEW r \in RailSet, NEW c \in PowerCodes
        PROVE  \E n \in DOMAIN Tests : Tests[n] = <<r, c>>
    <2>1. PICK k \in DOMAIN Rails : Rails[k] = r
      BY DEF RailSet
    <2>2. PICK j \in 1 .. 3 : FlagOrder[j] = c
      <3>1. FlagOrder[1] = c \/ FlagOrder[2] = c \/ FlagOrder[3] = c
        BY DEF FlagOrder, PowerCodes
      <3>2. 1 \in 1 .. 3 /\ 2 \in 1 .. 3 /\ 3 \in 1 .. 3
        OBVIOUS
      <3> QED
        BY <3>1, <3>2, Zenon
    <2> QED
      BY <1>2, <1>4, <1>5, <2>1, <2>2, Zenon
  <1> QED
    BY <1>6, <1>7

(* A test preserves the invariant of the pass, and a critical flag it      *)
(* meets has latched the vehicle if there is still room in the log.        *)
LEMMA TestStep ==
    ASSUME PassInv, Test
    PROVE  /\ PassInv'
           /\ Len(log') < FAULT_LOG_MAX =>
                 \A n \in DOMAIN Tests :
                     /\ n <= 3 * Len(Rails) - Len(scan')
                     /\ Raises(Tests[n][1], Tests[n][2])
                     /\ Severity(Tests[n][2]) = CRITICAL
                     => Latched(status')
  <1> DEFINE N    == 3 * Len(Rails)
             rail == Head(scan)[1]
             code == Head(scan)[2]
  <1>1. /\ log \in Seq(FaultRecord) /\ Len(log) <= FAULT_LOG_MAX /\ status \in SystemStatus
        /\ scan \in Seq(RailSet \X PowerCodes)
        /\ mode' = mode /\ enabled' = enabled /\ flags' = flags
        /\ N \in Nat /\ FAULT_LOG_MAX \in Nat
    BY PowerAssumption, FaultLogAssumption DEF PassInv, PowerTypeOK, FaultTypeOK, Test
  <1>2. /\ scan # << >> /\ scan' = Tail(scan)
        /\ rail \in RailSet /\ code \in PowerCodes /\ code \in Codes
    BY <1>1, PowerAssumption DEF Test
  <1>3. Severity(code) \in Severities
    BY DEF Severity, Severities, INFO, ERROR, CRITICAL
  <1>4. /\ Len(log) <= Len(log') /\ Len(log') <= FAULT_LOG_MAX /\ FaultInv'
        /\ Latched(status) => Latched(status')
        /\ /\ Len(log') < FAULT_LOG_MAX
           /\ Raises(rail, code) /\ Severity(code) = CRITICAL
           => Latched(status')
    <2>1. CASE Raises(rail, code)
      <3>1. LogFault(Severity(code), code) /\ status' = React(status, Severity(code), code)
        BY <2>1 DEF Test, Report
      <3>2. status' \in SystemStatus
        BY <1>1, <1>2, <1>3, <3>1, ReactProps
      <3>3. FaultInv'
        BY <1>2, <1>3, <3>1, <3>2, LogFaultStep DEF PassInv
      <3>4. log' = log \/ log' = Append(log, NewRecord(code, Severity(code)))
        BY <3>1 DEF LogFault
      <3>5. Len(log) <= Len(log') /\ Len(log') <= FAULT_LOG_MAX
        BY <1>1, <3>3, <3>4 DEF FaultInv, FaultTypeOK
      <3>6. Latched(status) => Latched(status')
        BY <1>1, <1>2, <1>3, <3>1, ReactProps
      <3>7. Len(log') < FAULT_LOG_MAX => Accepts(code)
        BY <1>1, <3>5, <3>3 DEF Accepts, FaultInv, FaultTypeOK
      <3> QED
        BY <1>1, <1>2, <1>3, <3>1, <3>3, <3>5, <3>6, <3>7, ReactProps
    <2>2. CASE ~Raises(rail, code)
      <3>1. UNCHANGED <<log, status>>
        BY <2>2 DEF Test, faultVars
      <3> QED
        BY <1>1, <2>2, <3>1
           DEF PassInv, FaultInv, FaultTypeOK, OneActiveRecord, LatchCoversLog, Latched
    <2> QED
      BY <2>1, <2>2
  <1>5. /\ Len(scan') = Len(scan) - 1 /\ scan' \in Seq(RailSet \X PowerCodes)
        /\ \A n \in DOMAIN scan' : scan'[n] = scan[n + 1] /\ n + 1 \in DOMAIN scan
        /\ Len(scan) >= 1 /\ Len(scan) <= N
    BY <1>1, <1>2 DEF PassInv, ScanIsSuffix
  <1>6. Tests[N - Len(scan) + 1] = <<rail, code>>
    <2>1. scan[1] = Tests[N - Len(scan) + 1] /\ Head(scan) = scan[1]
      BY <1>1, <1>2, <1>5 DEF PassInv, ScanIsSuffix
    <2>2. scan[1] \in RailSet \X PowerCodes
      BY <1>1, <1>5
    <2> QED
      BY <2>1, <2>2
  <1> HIDE DEF rail, code
  <1>7. ScanIsSuffix'
    <2> SUFFICES ASSUME NEW n \in DOMAIN scan'
                 PROVE  scan'[n] = Tests[N - Len(scan') + n]
      BY <1>1, <1>5 DEF ScanIsSuffix
    <2>1. n \in Nat /\ scan'[n] = scan[n + 1] /\ n + 1 \in DOMAIN scan
      BY <1>5
    <2>2. scan[n + 1] = Tests[N - Len(scan) + (n + 1)]
      BY <2>1 DEF PassInv, ScanIsSuffix
    <2>3. N - Len(scan) + (n + 1) = N - Len(scan') + n
      BY <1>1, <1>5, <2>1
    <2> QED
      BY <2>1, <2>2, <2>3
  <1>8. ASSUME Len(log') < FAULT_LOG_MAX, NEW n \in DOMAIN Tests, n <= N - Len(scan'),
               Raises(Tests[n][1], Tests[n][2]), Severity(Tests[n][2]) = CRITICAL
        PROVE  Latched(status')
    <2>1. n \in Nat /\ (n <= N - Len(scan) \/ n = N - Len(scan) + 1)
      <3>1. n \in 1 .. N
        BY <1>1, TestsProps
      <3> QED
        BY <1>1, <1>5, <1>8, <3>1
    <2>2. CASE n <= N - Len(scan)
      <3>1. n \in Made /\ Len(log) < FAULT_LOG_MAX
        BY <1>1, <1>4, <1>8, <2>2 DEF Made
      <3> QED
        BY <1>2, <1>4, <1>8, <3>1 DEF PassInv, MadeTestsLatch
    <2>3. CASE n = N - Len(scan) + 1
      BY <1>4, <1>6, <1>8, <2>3
    <2> QED
      BY <2>1, <2>2, <2>3
  <1>9. MadeTestsLatch'
    BY <1>1, <1>8 DEF MadeTestsLatch, Made, Raises, Tests
  <1>10. PowerTypeOK'
    BY <1>1, <1>4, <1>5 DEF PassInv, PowerTypeOK, FaultInv
  <1> QED
    BY <1>4, <1>7, <1>8, <1>9, <1>10 DEF PassInv

(* Between two passes nothing is tested, and what is called then neither   *)
(* starts one nor touches the log but to clear it.                         *)
LEMMA BetweenPasses ==
    ASSUME PassInv, Call \/ EnterStandby \/ MonitorRails \/ Service
    PROVE  PassInv' /\ scan = << >>
  <1>1. scan = << >>
    BY DEF Call, EnterStandby, MonitorRails, Service
  <1>2. ASSUME UNCHANGED faultVars PROVE FaultInv' /\ FaultTypeOK'
    BY <1>2 DEF PassInv, faultVars, FaultInv, FaultTypeOK, OneActiveRecord, LatchCoversLog
  <1>3. ASSUME scan' = << >> PROVE ScanIsSuffix' /\ MadeTestsLatch'
    BY <1>3, PowerAssumption DEF ScanIsSuffix, MadeTestsLatch
  <1>4. ASSUME Call PROVE PassInv'
    <2>1. mode' \in Modes /\ enabled' \subseteq RailSet /\ flags' = flags /\ scan' = scan
      BY <1>4 DEF Call, EnterSleep, EnterStop, EnterShutdown, Wakeup, EnableRail, DisableRail,
                  Modes, PassInv, PowerTypeOK
    <2>2. UNCHANGED faultVars
      BY <1>4 DEF Call
    <2> QED
      BY <1>1, <1>2, <1>3, <2>1, <2>2 DEF PassInv, PowerTypeOK
  <1>5. ASSUME EnterStandby PROVE PassInv'
    <2>1. FaultInv'
      BY <1>5, FaultLogAssumption
         DEF EnterStandby, FaultInv, FaultTypeOK, OneActiveRecord, LatchCoversLog,
             DefaultStatus, SystemStatus, SystemStates, Severities, INFO, CRITICAL
    <2> QED
      BY <1>3, <1>5, <2>1 DEF EnterStandby, PassInv, PowerTypeOK, FaultInv, Modes
  <1>6. ASSUME MonitorRails PROVE PassInv'
    <2>1. UNCHANGED faultVars /\ mode' = mode /\ enabled' = enabled /\ scan' = Tests
      BY <1>6 DEF MonitorRails
    <2>2. flags' \in [RailSet -> SUBSET PowerCodes]
      BY <1>6 DEF MonitorRails, Readings
    <2>3. Len(Rails) \in Nat
      BY PowerAssumption
    <2>4. ScanIsSuffix'
      <3>1. Len(scan') = 3 * Len(Rails)
        BY <2>1, TestsProps
      <3>2. ASSUME NEW n \in DOMAIN scan' PROVE 3 * Len(Rails) - Len(scan') + n = n
        BY <2>1, <2>3, <3>1, TestsProps
      <3>3. \A n \in DOMAIN scan' : scan'[n] = Tests[3 * Len(Rails) - Len(scan') + n]
        BY <2>1, <3>2
      <3> QED
        BY <2>3, <3>1, <3>3 DEF ScanIsSuffix
    <2>5. MadeTestsLatch'
      BY <2>1, <2>3, TestsProps DEF MadeTestsLatch, Made, Tests
    <2> QED
      BY <1>2, <2>1, <2>2, <2>4, <2>5, TestsProps DEF PassInv, PowerTypeOK
  <1>7. ASSUME Service PROVE PassInv'
    <2>1. FaultInv'
      BY <1>7, ClearAllStep, ClearFaultStep, PowerAssumption DEF Service, PassInv
    <2> QED
      BY <1>1, <1>3, <1>7, <2>1 DEF Service, PassInv, PowerTypeOK, FaultInv, powerVars
  <1> QED
    BY <1>1, <1>4, <1>5, <1>6, <1>7

(* The invariant of the rail monitor.                                      *)
THEOREM PassInvariant == Spec => []PassInv
  <1>1. Init => PassInv
    <2> SUFFICES ASSUME Init PROVE PassInv
      OBVIOUS
    <2>1. FaultInv
      BY FaultLogAssumption
         DEF Init, FaultInit, FaultInv, FaultTypeOK, OneActiveRecord, LatchCoversLog,
             DefaultStatus, SystemStatus, SystemStates, Severities, INFO, CRITICAL
    <2> QED
      BY <2>1, PowerAssumption
         DEF Init, PowerInit, PassInv, PowerTypeOK, FaultInv, ScanIsSuffix, MadeTestsLatch, Modes
  <1>2. PassInv /\ [Next]_vars => PassInv'
    <2> SUFFICES ASSUME PassInv, [Next]_vars PROVE PassInv'
      OBVIOUS
    <2>1. ASSUME UNCHANGED vars PROVE PassInv'
      BY <2>1 DEF vars, faultVars, powerVars, PassInv, PowerTypeOK, FaultInv, FaultTypeOK,
                  OneActiveRecord, LatchCoversLog, ScanIsSuffix, MadeTestsLatch, Made, Raises,
                  Latched, Tests
    <2> QED
      BY <2>1, TestStep, BetweenPasses DEF Next
  <1> QED
    BY <1>1, <1>2, PTL DEF Spec

(* A pass that met a critical flag on an enabled rail ends in a latched    *)
(* vehicle or with a full log, for every sequence of rails.                *)
THEOREM CriticalRailsLatch == Spec => PassLatchesCriticalRail
  <1> DEFINE P == /\ scan # << >> /\ scan' = << >>
                  /\ Len(log') < FAULT_LOG_MAX
                  /\ \E r \in enabled : flags[r] \ {"POWER_UNDERVOLTAGE"} # {}
                  => Latched(status')
  <1>1. PassInv /\ [Next]_vars => [P]_vars
    <2> SUFFICES ASSUME PassInv, Next, scan # << >>, scan' = << >>, Len(log') < FAULT_LOG_MAX,
                        NEW r \in enabled, flags[r] \ {"POWER_UNDERVOLTAGE"} # {}
                 PROVE  Latched(status')
      OBVIOUS
    <2>1. Test
      BY BetweenPasses DEF Next
    <2>2. r \in RailSet /\ flags[r] \subseteq PowerCodes
      BY DEF PassInv, PowerTypeOK
    <2>3. PICK c \in flags[r] : c \in PowerCodes /\ c # "POWER_UNDERVOLTAGE"
      BY <2>2
    <2>4. PICK n \in DOMAIN Tests : Tests[n] = <<r, c>>
      BY <2>2, <2>3, TestsProps
    <2>5. n <= 3 * Len(Rails) - Len(scan')
      BY <2>4, TestsProps, PowerAssumption
    <2>6. Raises(Tests[n][1], Tests[n][2]) /\ Severity(Tests[n][2]) = CRITICAL
      BY <2>3, <2>4 DEF Raises, Severity
    <2> QED
      BY <2>1, <2>4, <2>5, <2>6, TestStep
  <1> QED
    BY <1>1, PassInvariant, PTL DEF Spec, PassLatchesCriticalRail
================================================================================
