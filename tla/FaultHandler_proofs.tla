--------------------------- MODULE FaultHandler_proofs ---------------------------
(***************************************************************************)
(* Proofs about FaultHandler: the types of the two stores, uniqueness of   *)
(* active records and agreement of the latch with the log.                 *)
(***************************************************************************)
EXTENDS FaultHandler, FiniteSetTheorems, TLAPS

(* A transition of a well-formed status is a well-formed status, and only  *)
(* its state differs.                                                      *)
LEMMA TransitionProps ==
    ASSUME NEW s \in SystemStatus, NEW n \in SystemStates
    PROVE  /\ TransitionState(s, n) \in SystemStatus
           /\ TransitionState(s, n).fault_active = s.fault_active
           /\ TransitionState(s, n).fault_severity = s.fault_severity
           /\ TransitionState(s, n).current_state =
                 IF n \in {"EMERGENCY", "FAULT"} \cup Successors[s.current_state]
                 THEN n ELSE s.current_state
  BY DEF SystemStatus, TransitionState, ValidateStateTransition

(* Entering the safe state latches and stops, whatever the status was. *)
LEMMA SafeStateProps ==
    ASSUME NEW s \in SystemStatus
    PROVE  /\ EnterSafeState(s) \in SystemStatus
           /\ EnterSafeState(s).current_state = "EMERGENCY"
           /\ EnterSafeState(s).fault_active = TRUE
           /\ EnterSafeState(s).fault_severity = CRITICAL
  <1> DEFINE t == [s EXCEPT !.fault_active = TRUE, !.fault_severity = CRITICAL]
  <1>1. /\ t \in SystemStatus
        /\ t.fault_active = TRUE
        /\ t.fault_severity = CRITICAL
    <2>1. TRUE \in BOOLEAN /\ CRITICAL \in Severities
      BY DEF Severities, INFO, CRITICAL
    <2> QED
      BY <2>1, Zenon DEF SystemStatus
  <1>2. EnterSafeState(s) = TransitionState(t, "EMERGENCY")
    BY Zenon DEF EnterSafeState, EmergencyStop
  <1>3. "EMERGENCY" \in SystemStates
    BY DEF SystemStates
  <1> HIDE DEF t
  <1>4. /\ TransitionState(t, "EMERGENCY") \in SystemStatus
        /\ TransitionState(t, "EMERGENCY").fault_active = t.fault_active
        /\ TransitionState(t, "EMERGENCY").fault_severity = t.fault_severity
        /\ TransitionState(t, "EMERGENCY").current_state = "EMERGENCY"
    BY <1>1, <1>3, TransitionProps
  <1> QED
    BY <1>1, <1>2, <1>4

(* The slot FindDTC chooses is one of the slots of the code. *)
LEMMA FindDTCInSlots ==
    ASSUME NEW d \in Seq(DTC), NEW c, DtcSlots(d, c) # {}
    PROVE  FindDTC(d, c) \in DtcSlots(d, c)
  BY DEF FindDTC

(* The statistics of a store are well-formed. *)
LEMMA UpdateStatsType ==
    ASSUME NEW d \in Seq(DTC), NEW s \in Sessions
    PROVE  UpdateStats(d, s) \in Stats
  <1>1. IsFiniteSet(DOMAIN d)
    BY FS_Interval
  <1>2. /\ Cardinality({i \in DOMAIN d : d[i].confirmed}) \in Nat
        /\ Cardinality({i \in DOMAIN d : d[i].pending}) \in Nat
    BY <1>1, FS_Subset, FS_CardinalityType
  <1> QED
    BY <1>2 DEF UpdateStats, Stats

(* The store stays well-formed and within its capacity. *)
LEMMA StoreDTCType ==
    ASSUME NEW d \in Seq(DTC), Len(d) <= DTC_MAX_COUNT,
           NEW c \in Codes, NEW sev \in Severities
    PROVE  StoreDTC(d, c, sev) \in Seq(DTC) /\ Len(StoreDTC(d, c, sev)) <= DTC_MAX_COUNT
  <1> USE DiagnosticsAssumption DEF CONFIRM_COUNT
  <1>1. CASE DtcSlots(d, c) # {}
    <2> DEFINE i == FindDTC(d, c)
    <2>1. i \in DOMAIN d /\ d[i] \in DTC
      BY <1>1, FindDTCInSlots DEF DtcSlots
    <2> DEFINE n == Bump(d[i].occurrences)
               w == IF sev > d[i].severity THEN sev ELSE d[i].severity
    <2>2. n \in 1 .. OccurrenceCap /\ w \in Severities
      BY <2>1 DEF Bump, DTC, Severities, INFO, CRITICAL
    <2>3. /\ (d[i].confirmed \/ n >= CONFIRM_COUNT) \in BOOLEAN
          /\ (d[i].pending /\ n < CONFIRM_COUNT) \in BOOLEAN
      OBVIOUS
    <2>4. Recur(d[i], sev) \in DTC
      BY <2>1, <2>2, <2>3, Zenon DEF Recur, DTC
    <2>5. StoreDTC(d, c, sev) = [d EXCEPT ![i] = Recur(d[i], sev)]
      BY <1>1 DEF StoreDTC
    <2> QED
      BY <2>1, <2>4, <2>5
  <1>2. CASE DtcSlots(d, c) = {} /\ Len(d) < DTC_MAX_COUNT
    <2>1. NewDTC(c, sev) \in DTC
      BY DEF NewDTC, DTC
    <2> QED
      BY <1>2, <2>1 DEF StoreDTC
  <1>3. CASE DtcSlots(d, c) = {} /\ ~(Len(d) < DTC_MAX_COUNT)
    BY <1>3 DEF StoreDTC
  <1> QED
    BY <1>1, <1>2, <1>3

--------------------------------------------------------------------------------
(* The inductive invariant of the fault log. *)
FaultInv == FaultTypeOK /\ OneActiveRecord /\ LatchCoversLog

(* The DTC store keeps its type when a fault is stored ... *)
LEMMA StoreType ==
    ASSUME DiagTypeOK, NEW c \in Codes, NEW sev \in Severities, Store(c, sev)
    PROVE  DiagTypeOK'
  BY StoreDTCType, UpdateStatsType DEF DiagTypeOK, Store

(* ... and when a diagnostic request is served. *)
LEMMA RequestType ==
    ASSUME DiagTypeOK, ProcessRequest
    PROVE  DiagTypeOK'
  <1>1. ASSUME ClearDTCs PROVE DiagTypeOK'
    <2>1. << >> \in Seq(DTC) /\ Len(<< >>) <= DTC_MAX_COUNT
      BY DiagnosticsAssumption
    <2> QED
      BY <1>1, <2>1, UpdateStatsType DEF DiagTypeOK, ClearDTCs
  <1>2. ASSUME NEW s \in Sessions, SetSession(s) PROVE DiagTypeOK'
    BY <1>2, UpdateStatsType DEF DiagTypeOK, SetSession
  <1> QED
    BY <1>1, <1>2 DEF ProcessRequest

(* What a report makes of a status: the latch is kept, and it is set when  *)
(* a CRITICAL report is accepted.                                          *)
LEMMA ReactProps ==
    ASSUME NEW s \in SystemStatus, NEW sev \in Severities, NEW c \in Codes
    PROVE  /\ React(s, sev, c) \in SystemStatus
           /\ sev = CRITICAL /\ Accepts(c) => Latched(React(s, sev, c))
           /\ \/ React(s, sev, c) = s
              \/ /\ React(s, sev, c).fault_active = TRUE
                 /\ React(s, sev, c).fault_severity = CRITICAL
                 /\ React(s, sev, c).current_state = "EMERGENCY"
                 /\ Latched(React(s, sev, c))
  <1>1. CASE sev = CRITICAL /\ Accepts(c)
    <2>1. React(s, sev, c) = EnterSafeState(s)
      BY <1>1 DEF React
    <2>2. CRITICAL >= CRITICAL
      BY DEF CRITICAL
    <2> QED
      BY <1>1, <2>1, <2>2, SafeStateProps, Zenon DEF Latched
  <1>2. CASE ~(sev = CRITICAL /\ Accepts(c))
    BY <1>2 DEF React
  <1> QED
    BY <1>1, <1>2

(* Logging a fault preserves the invariant if the new status carries the   *)
(* latch the report produces, whatever state it ends in.                   *)
LEMMA LogFaultStep ==
    ASSUME FaultInv, NEW sev \in Severities, NEW c \in Codes,
           LogFault(sev, c), status' \in SystemStatus,
           status'.fault_active = React(status, sev, c).fault_active,
           status'.fault_severity = React(status, sev, c).fault_severity
    PROVE  FaultInv'
  <1> USE DEF FaultInv
  <1>1. /\ status \in SystemStatus
        /\ log \in Seq(FaultRecord)
    BY DEF FaultTypeOK
  <1>2. /\ Latched(status) => Latched(status')
        /\ sev = CRITICAL /\ Accepts(c) => Latched(status')
        /\ status'.fault_active => status'.fault_severity = CRITICAL
    BY <1>1, ReactProps DEF Latched, LatchCoversLog, CRITICAL
  <1>3. CASE log' = log
    BY <1>1, <1>2, <1>3 DEF FaultTypeOK, OneActiveRecord, LatchCoversLog
  <1>4. CASE /\ log' = Append(log, NewRecord(c, sev))
             /\ Len(log) < FAULT_LOG_MAX
             /\ ~HasRecord(c)
    <2>1. NewRecord(c, sev) \in FaultRecord
      BY DEF NewRecord, FaultRecord
    <2>2. /\ log' \in Seq(FaultRecord)
          /\ Len(log') = Len(log) + 1
          /\ log'[Len(log) + 1] = NewRecord(c, sev)
          /\ \A i \in DOMAIN log : log'[i] = log[i]
      BY <1>1, <1>4, <2>1
    <2>3. FaultTypeOK'
      BY <1>4, <2>2, FaultLogAssumption DEF FaultTypeOK
    <2>4. OneActiveRecord'
      BY <1>1, <1>4, <2>2 DEF OneActiveRecord, HasRecord, ActiveRecords, NewRecord
    <2>5. LatchCoversLog'
      BY <1>1, <1>2, <1>4, <2>2 DEF LatchCoversLog, NewRecord, Accepts
    <2> QED
      BY <2>3, <2>4, <2>5
  <1> QED
    BY <1>3, <1>4 DEF LogFault, Accepts

(* Clearing one fault preserves the invariant, ... *)
LEMMA ClearFaultStep ==
    ASSUME FaultInv, NEW c \in Codes, ClearFault(c)
    PROVE  FaultInv'
  <1> USE DEF FaultInv
  <1>1. log \in Seq(FaultRecord)
    BY DEF FaultTypeOK
  <1>2. /\ Len(log') = Len(log) /\ DOMAIN log' = DOMAIN log
        /\ log' \in Seq(FaultRecord)
        /\ \A i \in DOMAIN log : /\ log'[i].code = log[i].code
                                 /\ log'[i].severity = log[i].severity
                                 /\ log'[i].active => log[i].active
    <2> DEFINE r(i) == IF i \in ActiveRecords(c) THEN [log[i] EXCEPT !.active = FALSE]
                                                 ELSE log[i]
    <2>1. log' = [i \in 1 .. Len(log) |-> r(i)]
      BY <1>1 DEF ClearFault
    <2>2. ASSUME NEW i \in 1 .. Len(log)
          PROVE  /\ r(i) \in FaultRecord
                 /\ r(i).code = log[i].code
                 /\ r(i).severity = log[i].severity
                 /\ r(i).active => log[i].active
      <3>1. log[i] \in FaultRecord
        BY <1>1
      <3>2. /\ [log[i] EXCEPT !.active = FALSE] \in FaultRecord
            /\ [log[i] EXCEPT !.active = FALSE].code = log[i].code
            /\ [log[i] EXCEPT !.active = FALSE].severity = log[i].severity
            /\ [log[i] EXCEPT !.active = FALSE].active = FALSE
        BY <3>1, Zenon DEF FaultRecord
      <3> QED
        BY <3>1, <3>2, Zenon
    <2> HIDE DEF r
    <2>3. log' \in Seq(FaultRecord) /\ Len(log') = Len(log)
      BY <1>1, <2>1, <2>2
    <2>4. \A i \in DOMAIN log : log'[i] = r(i)
      BY <1>1, <2>1
    <2> QED
      BY <1>1, <2>2, <2>3, <2>4
  <1> QED
    BY <1>1, <1>2 DEF ClearFault, FaultTypeOK, OneActiveRecord, LatchCoversLog

(* ... and so does clearing the whole log, which leaves the latch alone. *)
LEMMA ClearAllStep ==
    ASSUME FaultInv, ClearAllRecords
    PROVE  FaultInv'
  BY FaultLogAssumption
     DEF FaultInv, ClearAllRecords, FaultTypeOK, OneActiveRecord, LatchCoversLog

--------------------------------------------------------------------------------
(* The fault handler on its own: in every behaviour the stores are         *)
(* well-formed and the latch covers the log.                               *)
THEOREM FaultHandlerInvariant == FaultSpec => [](DiagTypeOK /\ FaultInv)
  <1>1. FaultInit => DiagTypeOK /\ FaultInv
    <2>1. << >> \in Seq(DTC) /\ << >> \in Seq(FaultRecord) /\ Len(<< >>) = 0
      OBVIOUS
    <2>2. DefaultStatus \in SystemStatus /\ DefaultStatus.fault_active = FALSE
      BY DEF DefaultStatus, SystemStatus, SystemStates, Severities, INFO, CRITICAL
    <2>3. [stored |-> 0, confirmed |-> 0, pending |-> 0, session |-> "unset"] \in Stats
      BY DEF Stats
    <2> QED
      BY <2>1, <2>2, <2>3, DiagnosticsAssumption, FaultLogAssumption
         DEF FaultInit, DiagInit, DiagTypeOK, FaultInv, FaultTypeOK,
             OneActiveRecord, LatchCoversLog, Sessions
  <1>2. DiagTypeOK /\ FaultInv /\ [FaultNext]_faultVars => (DiagTypeOK /\ FaultInv)'
    <2> SUFFICES ASSUME DiagTypeOK, FaultInv, [FaultNext]_faultVars
                 PROVE  DiagTypeOK' /\ FaultInv'
      OBVIOUS
    <2>1. ASSUME NEW sev \in Severities, NEW c \in Codes, Report(sev, c)
          PROVE  DiagTypeOK' /\ FaultInv'
      <3>1. FaultInv'
        BY <2>1, ReactProps, LogFaultStep DEF Report, FaultInv, FaultTypeOK
      <3>2. CASE Accepts(c)
        BY <2>1, <3>1, <3>2, StoreType DEF Report, LogFault
      <3>3. CASE ~Accepts(c)
        BY <2>1, <3>1, <3>3 DEF Report, LogFault, diagVars, DiagTypeOK
      <3> QED
        BY <3>2, <3>3
    <2>2. ASSUME NEW c \in Codes, ClearFault(c)
          PROVE  DiagTypeOK' /\ FaultInv'
      BY <2>2, ClearFaultStep DEF ClearFault, diagVars, DiagTypeOK
    <2>3. ASSUME ClearAllRecords
          PROVE  DiagTypeOK' /\ FaultInv'
      BY <2>3, ClearAllStep DEF ClearAllRecords, diagVars, DiagTypeOK
    <2>4. ASSUME ProcessRequest, UNCHANGED <<log, status>>
          PROVE  DiagTypeOK' /\ FaultInv'
      BY <2>4, RequestType
         DEF FaultInv, FaultTypeOK, OneActiveRecord, LatchCoversLog, Latched
    <2>5. ASSUME UNCHANGED faultVars
          PROVE  DiagTypeOK' /\ FaultInv'
      BY <2>5 DEF faultVars, diagVars, DiagTypeOK, FaultInv, FaultTypeOK,
                  OneActiveRecord, LatchCoversLog, Latched
    <2> QED
      BY <2>1, <2>2, <2>3, <2>4, <2>5 DEF FaultNext
  <1> QED
    BY <1>1, <1>2, PTL DEF FaultSpec

(* Two records of one code are never active at once. *)
THEOREM ActiveRecordsAreUnique == FaultSpec => []OneActiveRecord
  BY FaultHandlerInvariant, PTL DEF FaultInv

(* No CRITICAL fault is in the log without the latch. *)
THEOREM LatchCoversLogAlways == FaultSpec => []LatchCoversLog
  BY FaultHandlerInvariant, PTL DEF FaultInv

(* The types of the two stores are those their modules state. *)
THEOREM StoresAreTyped == FaultSpec => []DiagTypeOK /\ []FaultTypeOK
  BY FaultHandlerInvariant, PTL DEF FaultInv

--------------------------------------------------------------------------------
(* What a diagnostic request or a report does to the store is one of three *)
(* things: a code is stored, all are cleared, or nothing happens to it.    *)
LEMMA StoreSteps ==
    ASSUME [FaultNext]_faultVars
    PROVE  \/ \E c \in Codes, sev \in Severities : Store(c, sev)
           \/ ClearDTCs
           \/ \E s \in Sessions : SetSession(s)
           \/ UNCHANGED diagVars
  <1>1. ASSUME NEW sev \in Severities, NEW c \in Codes, Report(sev, c)
        PROVE  Store(c, sev) \/ UNCHANGED diagVars
    BY <1>1 DEF Report, LogFault
  <1>2. ASSUME NEW c \in Codes, ClearFault(c)
        PROVE  UNCHANGED diagVars
    BY <1>2 DEF ClearFault
  <1>3. ClearAllRecords => UNCHANGED diagVars
    BY DEF ClearAllRecords
  <1>4. UNCHANGED faultVars => UNCHANGED diagVars
    BY DEF faultVars
  <1> QED
    BY <1>1, <1>2, <1>3, <1>4 DEF FaultNext, ProcessRequest

(* The statistics a tester reads are never those of an earlier store or an *)
(* earlier session.                                                        *)
THEOREM StatisticsAreCurrent == FaultSpec => []StatsAgree
  <1>1. FaultInit => StatsAgree
    <2> SUFFICES ASSUME FaultInit PROVE StatsAgree
      OBVIOUS
    <2>1. /\ dtcs = << >> /\ session = "DEFAULT"
          /\ stats = [stored |-> 0, confirmed |-> 0, pending |-> 0, session |-> "unset"]
      BY DEF FaultInit, DiagInit
    <2>2. /\ {i \in DOMAIN << >> : << >>[i].confirmed} = {}
          /\ {i \in DOMAIN << >> : << >>[i].pending} = {}
          /\ Len(<< >>) = 0
      OBVIOUS
    <2>3. Cardinality({}) = 0
      BY FS_EmptySet
    <2> QED
      BY <2>1, <2>2, <2>3 DEF StatsAgree, UpdateStats
  <1>2. StatsAgree /\ [FaultNext]_faultVars => StatsAgree'
    <2> SUFFICES ASSUME StatsAgree, [FaultNext]_faultVars PROVE StatsAgree'
      OBVIOUS
    <2>1. ASSUME NEW c \in Codes, NEW sev \in Severities, Store(c, sev)
          PROVE  stats' = UpdateStats(dtcs', session')
      BY <2>1 DEF Store
    <2>2. ClearDTCs => stats' = UpdateStats(dtcs', session')
      BY DEF ClearDTCs
    <2>3. ASSUME NEW s \in Sessions, SetSession(s)
          PROVE  stats' = UpdateStats(dtcs', session')
      BY <2>3 DEF SetSession
    <2>4. UNCHANGED diagVars => StatsAgree'
      BY DEF diagVars, StatsAgree
    <2> QED
      BY <2>1, <2>2, <2>3, <2>4, StoreSteps DEF StatsAgree
  <1> QED
    BY <1>1, <1>2, PTL DEF FaultSpec

(* Storing a code keeps one entry per code, and in every entry the state   *)
(* its count of occurrences asks for.                                      *)
LEMMA StoreLifecycle ==
    ASSUME DiagTypeOK, DtcLifecycle, NEW c \in Codes, NEW sev \in Severities, Store(c, sev)
    PROVE  DtcLifecycle'
  <1> USE DiagnosticsAssumption DEF CONFIRM_COUNT
  <1>1. dtcs \in Seq(DTC) /\ dtcs' = StoreDTC(dtcs, c, sev)
    BY DEF DiagTypeOK, Store
  <1>2. CASE DtcSlots(dtcs, c) # {}
    <2> DEFINE k == FindDTC(dtcs, c)
    <2>1. k \in DOMAIN dtcs /\ dtcs[k] \in DTC
      BY <1>1, <1>2, FindDTCInSlots DEF DtcSlots
    <2> DEFINE r == Recur(dtcs[k], sev)
               n == Bump(dtcs[k].occurrences)
    <2>2. /\ dtcs' = [dtcs EXCEPT ![k] = r]
      BY <1>1, <1>2 DEF StoreDTC
    <2>3. /\ r.code = dtcs[k].code /\ r.occurrences = n
          /\ r.confirmed = (dtcs[k].confirmed \/ n >= 3)
          /\ r.pending = (dtcs[k].pending /\ n < 3)
      BY <2>1, Zenon DEF Recur, DTC
    <2>4. /\ dtcs[k].occurrences \in 1 .. OccurrenceCap
          /\ n \in Nat /\ n >= dtcs[k].occurrences
      BY <2>1 DEF DTC, Bump
    <2>5. /\ dtcs[k].confirmed <=> dtcs[k].occurrences >= 3
          /\ dtcs[k].pending <=> ~dtcs[k].confirmed
      BY <2>1 DEF DtcLifecycle
    <2>6. n >= 3 \/ n < 3
      BY <2>4
    <2>7. dtcs[k].occurrences >= 3 => n >= 3
      BY <2>4
    <2>7a. n < 3 <=> ~(n >= 3)
      BY <2>4
    <2>8. (r.confirmed <=> r.occurrences >= 3) /\ (r.pending <=> ~r.confirmed)
      BY <2>3, <2>5, <2>7, <2>7a, Zenon
    <2> HIDE DEF r, k
    <2>9. /\ DOMAIN dtcs' = DOMAIN dtcs /\ dtcs'[k] = r
          /\ \A i \in DOMAIN dtcs : i # k => dtcs'[i] = dtcs[i]
      BY <1>1, <2>1, <2>2
    <2>10. \A i \in DOMAIN dtcs : dtcs'[i].code = dtcs[i].code
      BY <2>3, <2>9
    <2> QED
      BY <2>8, <2>9, <2>10 DEF DtcLifecycle, OneDtcPerCode
  <1>3. CASE DtcSlots(dtcs, c) = {} /\ Len(dtcs) < DTC_MAX_COUNT
    <2>1. dtcs' = Append(dtcs, NewDTC(c, sev))
      BY <1>1, <1>3 DEF StoreDTC
    <2>2. \A i \in DOMAIN dtcs : dtcs[i].code # c
      BY <1>3 DEF DtcSlots
    <2>3. /\ DOMAIN dtcs' = 1 .. Len(dtcs) + 1 /\ DOMAIN dtcs = 1 .. Len(dtcs)
          /\ dtcs'[Len(dtcs) + 1] = NewDTC(c, sev)
          /\ \A i \in DOMAIN dtcs : dtcs'[i] = dtcs[i]
      BY <1>1, <2>1
    <2> QED
      BY <1>1, <2>2, <2>3 DEF DtcLifecycle, OneDtcPerCode, NewDTC
  <1>4. CASE DtcSlots(dtcs, c) = {} /\ ~(Len(dtcs) < DTC_MAX_COUNT)
    BY <1>1, <1>4 DEF StoreDTC, DtcLifecycle, OneDtcPerCode
  <1> QED
    BY <1>2, <1>3, <1>4

(* A code never has two entries, and an entry is confirmed exactly from    *)
(* its third occurrence on, for every capacity and every set of codes.     *)
THEOREM TroubleCodesMature == FaultSpec => []DtcLifecycle
  <1>1. FaultInit => DtcLifecycle
    BY DEF FaultInit, DiagInit, DtcLifecycle, OneDtcPerCode
  <1>2. DiagTypeOK /\ DtcLifecycle /\ [FaultNext]_faultVars => DtcLifecycle'
    <2> SUFFICES ASSUME DiagTypeOK, DtcLifecycle, [FaultNext]_faultVars PROVE DtcLifecycle'
      OBVIOUS
    <2>1. ASSUME NEW s \in Sessions, SetSession(s) PROVE DtcLifecycle'
      BY <2>1 DEF SetSession, DtcLifecycle, OneDtcPerCode
    <2>2. ClearDTCs => DtcLifecycle'
      BY DEF ClearDTCs, DtcLifecycle, OneDtcPerCode
    <2>3. UNCHANGED diagVars => DtcLifecycle'
      BY DEF diagVars, DtcLifecycle, OneDtcPerCode
    <2> QED
      BY <2>1, <2>2, <2>3, StoreSteps, StoreLifecycle
  <1> QED
    BY <1>1, <1>2, StoresAreTyped, PTL DEF FaultSpec
================================================================================
