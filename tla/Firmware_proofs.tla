----------------------------- MODULE Firmware_proofs -----------------------------
(***************************************************************************)
(* Proofs about Firmware: its invariant, the latch, and the safety part of *)
(* the refinement of SafeStop.  The leaves about the fault log come from   *)
(* FaultHandler_proofs.                                                    *)
(***************************************************************************)
EXTENDS Firmware, FaultHandler_proofs

(* A processor that has just been reset remembers nothing. *)
FreshAfterReset == pc = "init" => log = << >> /\ status = DefaultStatus

(* The handlers of System_RunSelfTest run in SELFTEST only: nobody else    *)
(* changes the state while one of them runs.                               *)
SelfTestInState == pc \in InSelfTest => state = "SELFTEST"

(* The inductive invariant. *)
FirmwareInv ==
    /\ FirmwareTypeOK
    /\ FaultInv
    /\ OperationalIsTested
    /\ SelfTestTimeoutIsDead
    /\ FreshAfterReset
    /\ SelfTestInState

(* The parts of the invariant that depend on the status and the log alone  *)
(* survive every step that leaves both alone.                              *)
LEMMA LogUnchanged ==
    ASSUME FaultInv, UNCHANGED <<log, status>>
    PROVE  FaultInv'
  BY DEF FaultInv, FaultTypeOK, OneActiveRecord, LatchCoversLog, Latched

(* A new status with the old latch keeps the log's invariant. *)
LEMMA LatchUnchanged ==
    ASSUME FaultInv, UNCHANGED log, status' \in SystemStatus,
           status'.fault_active = status.fault_active,
           status'.fault_severity = status.fault_severity
    PROVE  FaultInv'
  BY DEF FaultInv, FaultTypeOK, OneActiveRecord, LatchCoversLog, Latched

(* The status after reset. *)
LEMMA DefaultStatusProps ==
    /\ DefaultStatus \in SystemStatus
    /\ DefaultStatus.current_state = "BOOT"
    /\ DefaultStatus.fault_active = FALSE
    /\ ~Latched(DefaultStatus)
  BY DEF DefaultStatus, SystemStatus, SystemStates, Severities, INFO, CRITICAL, Latched

(* The reset, which is also the initial condition, establishes the         *)
(* invariant.                                                              *)
LEMMA ResetStep ==
    ASSUME HardwareReset
    PROVE  FirmwareInv'
  <1>1. << >> \in Seq(DTC) /\ << >> \in Seq(FaultRecord) /\ Len(<< >>) = 0
    OBVIOUS
  <1>2. [stored |-> 0, confirmed |-> 0, pending |-> 0, session |-> "unset"] \in Stats
    BY DEF Stats
  <1>3. DiagTypeOK'
    BY <1>1, <1>2, DiagnosticsAssumption DEF HardwareReset, DiagTypeOK, Sessions
  <1>4. FaultInv'
    BY <1>1, DefaultStatusProps, FaultLogAssumption
       DEF HardwareReset, FaultInv, FaultTypeOK, OneActiveRecord, LatchCoversLog
  <1>0. 0 \in 0 .. WATCHDOG_MS - 1
    BY FirmwareAssumption
  <1>5. FirmwareTypeOK'
    BY <1>0, <1>3, <1>4 DEF HardwareReset, FirmwareTypeOK, FaultInv
  <1>6. OperationalIsTested' /\ FreshAfterReset' /\ SelfTestInState'
    BY DefaultStatusProps
       DEF HardwareReset, OperationalIsTested, Operational, state, FreshAfterReset,
           SelfTestInState, InSelfTest
  <1>7. SelfTestTimeoutIsDead'
    BY <1>1, FirmwareAssumption DEF HardwareReset, SelfTestTimeoutIsDead, TestClock
  <1> QED
    BY <1>4, <1>5, <1>6, <1>7 DEF FirmwareInv

(* Logging a fault keeps the types of the DTC store, ... *)
LEMMA LogFaultType ==
    ASSUME DiagTypeOK, NEW sev \in Severities, NEW c \in Codes, LogFault(sev, c)
    PROVE  DiagTypeOK'
  <1>1. CASE Store(c, sev)
    BY <1>1, StoreType
  <1>2. CASE UNCHANGED diagVars
    BY <1>2 DEF diagVars, DiagTypeOK
  <1> QED
    BY <1>1, <1>2 DEF LogFault

(* ... and adds no other code to the log. *)
LEMMA NoTimeoutLogged ==
    ASSUME log \in Seq(FaultRecord), NEW sev, NEW c, c # "SELFTEST_TIMEOUT",
           \A i \in DOMAIN log : log[i].code # "SELFTEST_TIMEOUT", LogFault(sev, c)
    PROVE  \A i \in DOMAIN log' : log'[i].code # "SELFTEST_TIMEOUT"
  <1>1. CASE log' = log
    BY <1>1
  <1>2. CASE log' = Append(log, NewRecord(c, sev))
    BY <1>2 DEF NewRecord
  <1> QED
    BY <1>1, <1>2 DEF LogFault

(* Clearing a fault relabels no record. *)
LEMMA FaultCodesKept ==
    ASSUME log \in Seq(FaultRecord), NEW c, ClearFault(c)
    PROVE  /\ DOMAIN log' = DOMAIN log
           /\ \A i \in DOMAIN log : log'[i].code = log[i].code
  BY DEF ClearFault, FaultRecord

(* In the transition table, what leads to an operational state is          *)
(* CALIBRATION or another operational state.                               *)
LEMMA SuccessorProps ==
    ASSUME NEW s \in SystemStates
    PROVE  \A n \in Operational : n \in Successors[s] => s \in Operational \cup {"CALIBRATION"}
  BY DEF Successors, SystemStates, Operational

(* System_InitAll. *)
LEMMA InitAllStep ==
    ASSUME FirmwareInv, InitAll
    PROVE  FirmwareInv' /\ ~Latched(status')
  <1> DEFINE s == [DefaultStatus EXCEPT !.current_state = "SELFTEST"]
  <1>1. /\ s \in SystemStatus
        /\ s.current_state = "SELFTEST"
        /\ s.fault_active = DefaultStatus.fault_active
        /\ s.fault_severity = DefaultStatus.fault_severity
    BY DefaultStatusProps DEF SystemStatus, SystemStates
  <1>2. /\ status' = s /\ pc' = "top" /\ idle' = 0
        /\ status = DefaultStatus /\ pc = "init"
        /\ UNCHANGED <<diagVars, log, testMs, tested>>
    BY DEF InitAll, FirmwareInv, FreshAfterReset
  <1> HIDE DEF s
  <1>3. FaultInv'
    BY <1>1, <1>2, LatchUnchanged DEF FirmwareInv
  <1>4. FirmwareTypeOK'
    BY <1>2, <1>3, FirmwareAssumption
       DEF FirmwareInv, FirmwareTypeOK, FaultInv, DiagTypeOK, diagVars
  <1>5. OperationalIsTested' /\ FreshAfterReset' /\ SelfTestInState'
    BY <1>1, <1>2
       DEF OperationalIsTested, Operational, state, FreshAfterReset,
           SelfTestInState, InSelfTest
  <1>6. SelfTestTimeoutIsDead'
    BY <1>2, FirmwareAssumption
       DEF FirmwareInv, SelfTestTimeoutIsDead, TestClock, InSelfTest
  <1>7. ~Latched(status')
    BY <1>1, <1>2, DefaultStatusProps DEF Latched
  <1> QED
    BY <1>3, <1>4, <1>5, <1>6, <1>7 DEF FirmwareInv

(* What one handler does to a status: the latch stays, and the state moves *)
(* along the boot sequence or stops. *)
LEMMA HandleProps ==
    ASSUME NEW s \in SystemStatus
    PROVE  /\ Handle(s) \in SystemStatus
           /\ Handle(s).fault_active = s.fault_active
           /\ Handle(s).fault_severity = s.fault_severity
           /\ \/ Handle(s).current_state = s.current_state
              \/ s.current_state = "BOOT" /\ Handle(s).current_state = "SELFTEST"
              \/ s.current_state = "INIT_DRIVERS" /\ Handle(s).current_state = "CALIBRATION"
              \/ s.current_state = "CALIBRATION" /\ Handle(s).current_state = "READY"
              \/ s.current_state = "DRIVING" /\ Handle(s).current_state = "EMERGENCY"
  <1> DEFINE Move(n) ==
        \/ s.current_state = "BOOT" /\ n = "SELFTEST"
        \/ s.current_state = "INIT_DRIVERS" /\ n = "CALIBRATION"
        \/ s.current_state = "CALIBRATION" /\ n = "READY"
        \/ s.current_state = "DRIVING" /\ n = "EMERGENCY"
        \/ s.current_state = "SHUTDOWN" /\ n = "SHUTDOWN"
  <1>1. \/ Handle(s) = s
        \/ \E n \in SystemStates : Handle(s) = TransitionState(s, n) /\ Move(n)
    BY DEF Handle, RunDriving, SystemStates
  <1>2. CASE Handle(s) = s
    BY <1>2
  <1>3. ASSUME NEW n \in SystemStates, Handle(s) = TransitionState(s, n), Move(n)
        PROVE  /\ Handle(s) \in SystemStatus
               /\ Handle(s).fault_active = s.fault_active
               /\ Handle(s).fault_severity = s.fault_severity
               /\ Handle(s).current_state \in {n, s.current_state}
    <2>1. /\ TransitionState(s, n) \in SystemStatus
          /\ TransitionState(s, n).fault_active = s.fault_active
          /\ TransitionState(s, n).fault_severity = s.fault_severity
          /\ TransitionState(s, n).current_state = n
             \/ TransitionState(s, n).current_state = s.current_state
      BY TransitionProps, Zenon
    <2> QED
      BY <1>3, <2>1, Zenon
  <1> QED
    BY <1>1, <1>2, <1>3, Zenon

(* One iteration of the loop outside the self-test and STANDBY. *)
LEMMA IterateStep ==
    ASSUME FirmwareInv, Iterate
    PROVE  FirmwareInv'
  <1>1. status \in SystemStatus
    BY DEF FirmwareInv, FaultInv, FaultTypeOK
  <1>2. /\ status' = Handle(status) /\ pc' = "refresh" /\ pc = "top"
        /\ UNCHANGED <<diagVars, log, idle, testMs, tested>>
    BY DEF Iterate
  <1>3. FaultInv'
    BY <1>1, <1>2, HandleProps, LatchUnchanged DEF FirmwareInv
  <1>4. FirmwareTypeOK'
    BY <1>2, <1>3 DEF FirmwareInv, FirmwareTypeOK, FaultInv, DiagTypeOK, diagVars
  <1>5. OperationalIsTested' /\ FreshAfterReset' /\ SelfTestInState'
    BY <1>1, <1>2, HandleProps
       DEF FirmwareInv, OperationalIsTested, Operational, state, FreshAfterReset,
           SelfTestInState, InSelfTest
  <1>6. SelfTestTimeoutIsDead'
    BY <1>2 DEF FirmwareInv, SelfTestTimeoutIsDead, TestClock, InSelfTest
  <1> QED
    BY <1>3, <1>4, <1>5, <1>6 DEF FirmwareInv

(* The steps that move the processor and leave status, log and store       *)
(* alone: entering and leaving STOP, feeding the watchdog, beginning the   *)
(* self-test and passing one of its checks.                                *)
LEMMA ControlStep ==
    ASSUME FirmwareInv,
           \/ EnterStop \/ WakeUp \/ Refresh \/ BeginSelfTest
           \/ \E here, next \in InSelfTest : Passes(here, next)
    PROVE  FirmwareInv'
  <1> USE DEF FirmwareInv
  <1>1. UNCHANGED faultVars
    BY DEF EnterStop, WakeUp, Refresh, BeginSelfTest, Passes
  <1>2. FaultInv' /\ DiagTypeOK'
    BY <1>1, LogUnchanged DEF faultVars, diagVars, DiagTypeOK, FirmwareTypeOK
  <1>3. /\ pc' \in {"wfi", "refresh", "top"} \cup InSelfTest
        /\ \/ idle' = idle
           \/ idle' = 0 /\ pc = "refresh"
        /\ \/ testMs' = testMs /\ (pc \in InSelfTest => pc' \in InSelfTest)
           \/ testMs' = 0 /\ pc = "top"
        /\ \/ tested' = tested
           \/ tested' = FALSE /\ state = "SELFTEST"
        /\ pc' \in InSelfTest => state = "SELFTEST"
    BY DEF InSelfTest, EnterStop, WakeUp, Refresh, BeginSelfTest, Passes, SelfTestInState
  <1>4. FirmwareTypeOK'
    <2>1. 0 \in 0 .. WATCHDOG_MS - 1
      BY FirmwareAssumption
    <2>2. tested' \in BOOLEAN
      BY <1>3, Zenon DEF FirmwareTypeOK
    <2>3. /\ pc' \in {"init", "top", "wfi", "refresh"} \cup InSelfTest
          /\ idle' \in 0 .. WATCHDOG_MS - 1
          /\ testMs' \in Nat
      BY <1>3, <2>1 DEF FirmwareTypeOK
    <2> QED
      BY <1>2, <2>2, <2>3, Zenon DEF FirmwareTypeOK, FaultInv
  <1>5. OperationalIsTested' /\ FreshAfterReset' /\ SelfTestInState'
    BY <1>1, <1>3 DEF faultVars, OperationalIsTested, Operational, state, FreshAfterReset,
           SelfTestInState, InSelfTest
  <1>6. SelfTestTimeoutIsDead'
    <2>1. TestClock' /\ testMs' < SELFTEST_TIMEOUT_MS
      BY <1>3, FirmwareAssumption
         DEF FirmwareTypeOK, SelfTestTimeoutIsDead, TestClock, InSelfTest
    <2> QED
      BY <1>1, <2>1 DEF faultVars, SelfTestTimeoutIsDead
  <1> QED
    BY <1>2, <1>4, <1>5, <1>6

(* A self-test that fails a check: the report is logged with its latch and *)
(* the vehicle ends in FAULT.                                              *)
LEMMA FailStep ==
    ASSUME FirmwareInv, NEW sev \in Severities, NEW c \in Codes,
           c # "SELFTEST_TIMEOUT", FailSelfTest(sev, c)
    PROVE  FirmwareInv'
  <1> DEFINE t == React(status, sev, c)
  <1> USE DEF FirmwareInv
  <1>1. t \in SystemStatus
    BY ReactProps DEF FaultInv, FaultTypeOK
  <1>2. /\ status' = TransitionState(t, "FAULT") /\ LogFault(sev, c)
        /\ pc' = "refresh" /\ testMs' = 0 /\ UNCHANGED <<idle, tested>>
    BY DEF FailSelfTest
  <1> HIDE DEF t
  <1>3. /\ status' \in SystemStatus
        /\ status'.fault_active = t.fault_active
        /\ status'.fault_severity = t.fault_severity
        /\ status'.current_state = "FAULT"
    <2>1. "FAULT" \in SystemStates
      BY DEF SystemStates
    <2> QED
      BY <1>1, <1>2, <2>1, TransitionProps, Zenon
  <1>4. FaultInv'
    BY <1>2, <1>3, LogFaultStep DEF t
  <1>5. DiagTypeOK'
    BY <1>2, LogFaultType DEF FirmwareTypeOK
  <1>6. FirmwareTypeOK'
    BY <1>2, <1>4, <1>5 DEF FirmwareTypeOK, FaultInv
  <1>7. OperationalIsTested' /\ FreshAfterReset' /\ SelfTestInState'
    BY <1>2, <1>3 DEF OperationalIsTested, Operational, state, FreshAfterReset,
           SelfTestInState, InSelfTest
  <1>8. SelfTestTimeoutIsDead'
    <2>1. TestClock' /\ testMs' < SELFTEST_TIMEOUT_MS
      BY <1>2, FirmwareAssumption DEF FirmwareTypeOK, TestClock
    <2>2. \A i \in DOMAIN log' : log'[i].code # "SELFTEST_TIMEOUT"
      BY <1>2, NoTimeoutLogged DEF FaultInv, FaultTypeOK, SelfTestTimeoutIsDead
    <2> QED
      BY <2>1, <2>2 DEF SelfTestTimeoutIsDead
  <1> QED
    BY <1>4, <1>6, <1>7, <1>8

(* A report that only logs and reacts, from the self-test's CAN check or   *)
(* from the application.                                                   *)
LEMMA ReportStep ==
    ASSUME FirmwareInv, NEW sev \in Severities, NEW c \in Codes,
           c # "SELFTEST_TIMEOUT", Report(sev, c),
           UNCHANGED <<idle, testMs, tested>>,
           \/ pc = "top" /\ pc' = "top"
           \/ pc = "can" /\ pc' = "motor" /\ sev # CRITICAL
    PROVE  FirmwareInv'
  <1> USE DEF FirmwareInv
  <1>1. /\ status' = React(status, sev, c) /\ LogFault(sev, c)
        /\ status \in SystemStatus
    BY DEF Report, FaultInv, FaultTypeOK
  <1>2. /\ status' \in SystemStatus
        /\ status' = status \/ status'.current_state = "EMERGENCY"
        /\ sev # CRITICAL => status' = status
    <2>1. sev # CRITICAL => status' = status
      BY <1>1 DEF React
    <2> QED
      BY <1>1, <2>1, ReactProps, Zenon
  <1>3. FaultInv'
    BY <1>1, <1>2, LogFaultStep
  <1>4. DiagTypeOK'
    BY <1>1, LogFaultType DEF FirmwareTypeOK
  <1>5. FirmwareTypeOK'
    BY <1>3, <1>4 DEF FirmwareTypeOK, FaultInv, InSelfTest
  <1>6. OperationalIsTested' /\ FreshAfterReset' /\ SelfTestInState'
    BY <1>2 DEF OperationalIsTested, Operational, state, FreshAfterReset,
           SelfTestInState, InSelfTest
  <1>7. SelfTestTimeoutIsDead'
    <2>1. TestClock' /\ testMs' < SELFTEST_TIMEOUT_MS
      BY DEF SelfTestTimeoutIsDead, TestClock, InSelfTest
    <2>2. \A i \in DOMAIN log' : log'[i].code # "SELFTEST_TIMEOUT"
      BY <1>1, NoTimeoutLogged DEF FaultInv, FaultTypeOK, SelfTestTimeoutIsDead
    <2> QED
      BY <2>1, <2>2 DEF SelfTestTimeoutIsDead
  <1> QED
    BY <1>3, <1>5, <1>6, <1>7

(* The last check of the self-test passes it: the time-out cannot have     *)
(* been reached, because the watchdog would have been.                     *)
LEMMA DeadlineStep ==
    ASSUME FirmwareInv, CheckDeadline
    PROVE  FirmwareInv'
  <1> USE DEF FirmwareInv
  <1>1. /\ status' = TransitionState(status, "INIT_DRIVERS")
        /\ pc = "deadline" /\ pc' = "refresh" /\ testMs' = 0 /\ tested' = TRUE
        /\ UNCHANGED <<diagVars, log, idle>>
    BY FirmwareAssumption
       DEF CheckDeadline, SelfTestTimeoutIsDead, FirmwareTypeOK
  <1>2. /\ status \in SystemStatus
        /\ "INIT_DRIVERS" \in SystemStates
    BY DEF FaultInv, FaultTypeOK, SystemStates
  <1>3. /\ status' \in SystemStatus
        /\ status'.fault_active = status.fault_active
        /\ status'.fault_severity = status.fault_severity
    BY <1>1, <1>2, TransitionProps, Zenon
  <1>4. FaultInv'
    BY <1>1, <1>3, LatchUnchanged
  <1>5. FirmwareTypeOK'
    BY <1>1, <1>4 DEF FirmwareTypeOK, FaultInv, DiagTypeOK, diagVars
  <1>6. OperationalIsTested' /\ FreshAfterReset' /\ SelfTestInState'
    BY <1>1 DEF OperationalIsTested, FreshAfterReset, SelfTestInState, InSelfTest
  <1>7. SelfTestTimeoutIsDead'
    BY <1>1, FirmwareAssumption DEF FirmwareTypeOK, SelfTestTimeoutIsDead, TestClock
  <1> QED
    BY <1>4, <1>5, <1>6, <1>7

(* A request of the application can reach an operational state from one    *)
(* whose self-test has passed, and from no other.                          *)
LEMMA RequestStep ==
    ASSUME FirmwareInv, NEW n \in Requests, Request(n), pc = "top", UNCHANGED loopVars
    PROVE  FirmwareInv'
  <1> USE DEF FirmwareInv
  <1>1. /\ status' = TransitionState(status, n)
        /\ UNCHANGED <<diagVars, log, pc, idle, testMs, tested>>
        /\ status \in SystemStatus
        /\ n \in SystemStates \ {"INIT_DRIVERS", "CALIBRATION"}
    BY FirmwareAssumption DEF Request, loopVars, FaultInv, FaultTypeOK
  <1>2. /\ status' \in SystemStatus
        /\ status'.fault_active = status.fault_active
        /\ status'.fault_severity = status.fault_severity
    BY <1>1, TransitionProps, Zenon
  <1>3. FaultInv'
    BY <1>1, <1>2, LatchUnchanged
  <1>4. FirmwareTypeOK'
    BY <1>1, <1>3 DEF FirmwareTypeOK, FaultInv, DiagTypeOK, diagVars
  <1>5. OperationalIsTested'
    <2>1. CASE status'.current_state = status.current_state
      BY <1>1, <2>1 DEF OperationalIsTested, state
    <2>2. CASE /\ status'.current_state = n
               /\ n \in {"EMERGENCY", "FAULT"} \cup Successors[status.current_state]
      <3>1. n \in Operational =>
              status.current_state \in Operational \cup {"CALIBRATION"}
        BY <1>1, <2>2, SuccessorProps DEF SystemStatus, Operational
      <3> QED
        BY <1>1, <2>2, <3>1 DEF OperationalIsTested, state
    <2> QED
      BY <1>1, <2>1, <2>2, TransitionProps
  <1>6. FreshAfterReset' /\ SelfTestInState' /\ SelfTestTimeoutIsDead'
    BY <1>1 DEF FreshAfterReset, SelfTestInState, InSelfTest, SelfTestTimeoutIsDead,
                TestClock
  <1> QED
    BY <1>3, <1>4, <1>5, <1>6

(* The other calls of the application leave the status alone and only take *)
(* records or codes away.                                                  *)
LEMMA ServiceStep ==
    ASSUME FirmwareInv, pc = "top", UNCHANGED loopVars,
           \/ \E c \in Codes : ClearFault(c)
           \/ ClearAllRecords
           \/ ProcessRequest /\ UNCHANGED <<log, status>>
    PROVE  FirmwareInv'
  <1> USE DEF FirmwareInv
  <1>1. UNCHANGED <<status, pc, idle, testMs, tested>>
    BY DEF ClearFault, ClearAllRecords, loopVars
  <1>2. FaultInv'
    BY ClearFaultStep, ClearAllStep, LogUnchanged
  <1>3. DiagTypeOK'
    <2>1. ASSUME UNCHANGED diagVars PROVE DiagTypeOK'
      BY <2>1 DEF diagVars, DiagTypeOK, FirmwareTypeOK
    <2> QED
      BY <2>1, RequestType DEF ClearFault, ClearAllRecords, FirmwareTypeOK
  <1>4. FirmwareTypeOK'
    BY <1>1, <1>2, <1>3 DEF FirmwareTypeOK, FaultInv
  <1>5. OperationalIsTested' /\ FreshAfterReset' /\ SelfTestInState'
    BY <1>1 DEF OperationalIsTested, state, FreshAfterReset, SelfTestInState, InSelfTest
  <1>6. SelfTestTimeoutIsDead'
    <2>1. \A i \in DOMAIN log' : log'[i].code # "SELFTEST_TIMEOUT"
      <3>1. CASE \E c \in Codes : ClearFault(c)
        <4>1. DOMAIN log' = DOMAIN log
              /\ \A i \in DOMAIN log : log'[i].code = log[i].code
          BY <3>1, FaultCodesKept DEF FaultInv, FaultTypeOK
        <4> QED
          BY <4>1 DEF SelfTestTimeoutIsDead
      <3>2. CASE log' = << >> \/ log' = log
        BY <3>2 DEF SelfTestTimeoutIsDead
      <3> QED
        BY <3>1, <3>2 DEF ClearAllRecords
    <2> QED
      BY <1>1, <2>1 DEF SelfTestTimeoutIsDead, TestClock
  <1> QED
    BY <1>2, <1>4, <1>5, <1>6

(* The millisecond that does not expire the watchdog. *)
LEMMA TickStep ==
    ASSUME FirmwareInv, Tick
    PROVE  FirmwareInv'
  <1> USE DEF FirmwareInv
  <1>1. CASE HardwareReset
    BY <1>1, ResetStep
  <1>2. CASE /\ pc # "init" /\ idle + 1 < WATCHDOG_MS /\ idle' = idle + 1
             /\ testMs' = IF pc \in InSelfTest THEN testMs + 1 ELSE testMs
             /\ UNCHANGED <<faultVars, pc, tested>>
    <2>1. UNCHANGED <<log, status, diagVars, pc, tested>>
      BY <1>2 DEF faultVars
    <2>2. FaultInv' /\ DiagTypeOK'
      BY <2>1, LogUnchanged DEF diagVars, DiagTypeOK, FirmwareTypeOK
    <2>3. /\ idle' \in 0 .. WATCHDOG_MS - 1 /\ testMs' \in Nat
          /\ TestClock' /\ testMs' < SELFTEST_TIMEOUT_MS
      BY <1>2, FirmwareAssumption
         DEF FirmwareTypeOK, SelfTestTimeoutIsDead, TestClock, InSelfTest
    <2>4. FirmwareTypeOK' /\ SelfTestTimeoutIsDead'
      BY <2>1, <2>2, <2>3 DEF FirmwareTypeOK, FaultInv, SelfTestTimeoutIsDead, InSelfTest
    <2>5. OperationalIsTested' /\ FreshAfterReset' /\ SelfTestInState'
      BY <2>1 DEF OperationalIsTested, state, FreshAfterReset, SelfTestInState, InSelfTest
    <2> QED
      BY <2>2, <2>4, <2>5
  <1> QED
    BY <1>1, <1>2 DEF Tick

--------------------------------------------------------------------------------
(* Every behaviour of the firmware satisfies the invariant. *)
THEOREM FirmwareInvariant == Spec => []FirmwareInv
  <1>1. Init => FirmwareInv
    <2> SUFFICES ASSUME Init PROVE FirmwareInv
      OBVIOUS
    <2>1. << >> \in Seq(DTC) /\ << >> \in Seq(FaultRecord) /\ Len(<< >>) = 0
      OBVIOUS
    <2>2. [stored |-> 0, confirmed |-> 0, pending |-> 0, session |-> "unset"] \in Stats
      BY DEF Stats
    <2>3. DiagTypeOK
      BY <2>1, <2>2, DiagnosticsAssumption
         DEF Init, FaultInit, DiagInit, DiagTypeOK, Sessions
    <2>4. FaultInv
      BY <2>1, DefaultStatusProps, FaultLogAssumption
         DEF Init, FaultInit, FaultInv, FaultTypeOK, OneActiveRecord, LatchCoversLog
    <2>5. 0 \in 0 .. WATCHDOG_MS - 1 /\ 0 < SELFTEST_TIMEOUT_MS
      BY FirmwareAssumption
    <2>6. FirmwareTypeOK
      BY <2>3, <2>4, <2>5 DEF Init, FirmwareTypeOK, FaultInv
    <2>7. OperationalIsTested /\ FreshAfterReset /\ SelfTestInState
      BY DefaultStatusProps
         DEF Init, FaultInit, OperationalIsTested, Operational, state, FreshAfterReset,
             SelfTestInState, InSelfTest
    <2>8. SelfTestTimeoutIsDead
      BY <2>1, <2>5 DEF Init, FaultInit, SelfTestTimeoutIsDead, TestClock
    <2> QED
      BY <2>4, <2>6, <2>7, <2>8 DEF FirmwareInv
  <1>2. FirmwareInv /\ [Next]_vars => FirmwareInv'
    <2> SUFFICES ASSUME FirmwareInv, [Next]_vars PROVE FirmwareInv'
      OBVIOUS
    <2>1. CASE InitAll \/ Tick \/ Iterate \/ EnterStop \/ WakeUp \/ Refresh \/ BeginSelfTest
      BY <2>1, InitAllStep, TickStep, IterateStep, ControlStep
    <2>2. CASE CheckMemory \/ CheckPeripherals \/ CheckCANBus \/ CheckMotorDrivers
      <3>1. ASSUME NEW here \in InSelfTest, NEW next \in InSelfTest, Passes(here, next)
            PROVE  FirmwareInv'
        BY <3>1, ControlStep
      <3>2. ASSUME NEW sev \in Severities, NEW c \in SelfTestCodes \ {"SELFTEST_TIMEOUT"},
                   FailSelfTest(sev, c)
            PROVE  FirmwareInv'
        BY <3>2, FailStep, FirmwareAssumption
      <3>3. ASSUME Report(WARNING, "SELFTEST_CAN"), pc = "can", pc' = "motor",
                   UNCHANGED <<idle, testMs, tested>>
            PROVE  FirmwareInv'
        <4>1. /\ "SELFTEST_CAN" \in Codes /\ "SELFTEST_CAN" # "SELFTEST_TIMEOUT"
              /\ WARNING \in Severities /\ WARNING # CRITICAL
          BY FirmwareAssumption DEF SelfTestCodes, Severities, INFO, WARNING, CRITICAL
        <4> QED
          BY <3>3, <4>1, ReportStep
      <3>4. {CRITICAL, ERROR} \subseteq Severities
        BY DEF Severities, INFO, ERROR, CRITICAL
      <3>5. {"mem", "periph", "can", "motor", "deadline"} \subseteq InSelfTest
        BY DEF InSelfTest
      <3>6. {"SELFTEST_MEM", "SELFTEST_PERIPH", "SELFTEST_MOTOR"}
               \subseteq SelfTestCodes \ {"SELFTEST_TIMEOUT"}
        BY DEF SelfTestCodes
      <3> QED
        BY <2>2, <3>1, <3>2, <3>3, <3>4, <3>5, <3>6
           DEF CheckMemory, CheckPeripherals, CheckCANBus, CheckMotorDrivers, Fails
    <2>3. CASE CheckDeadline
      BY <2>3, DeadlineStep
    <2>4. CASE Application
      <3>1. ASSUME NEW f \in AppFaults, Report(f[1], f[2]), pc = "top", UNCHANGED loopVars
            PROVE  FirmwareInv'
        <4>1. f[1] \in Severities /\ f[2] \in Codes /\ f[2] # "SELFTEST_TIMEOUT"
          BY FirmwareAssumption DEF SelfTestCodes
        <4> QED
          BY <3>1, <4>1, ReportStep DEF loopVars
      <3> QED
        BY <2>4, <3>1, RequestStep, ServiceStep DEF Application, AppCall
    <2>5. CASE UNCHANGED vars
      <3>1. UNCHANGED <<log, status, diagVars, pc, idle, testMs, tested>>
        BY <2>5 DEF vars, faultVars, loopVars
      <3>2. FaultInv' /\ DiagTypeOK'
        BY <3>1, LogUnchanged DEF FirmwareInv, diagVars, DiagTypeOK, FirmwareTypeOK
      <3> QED
        BY <3>1, <3>2
           DEF FirmwareInv, FirmwareTypeOK, FaultInv, OperationalIsTested, state,
               SelfTestTimeoutIsDead, TestClock, FreshAfterReset, SelfTestInState,
               InSelfTest
    <2> QED
      BY <2>1, <2>2, <2>3, <2>4, <2>5 DEF Next, Loop, SelfTest
  <1> QED
    BY <1>1, <1>2, PTL DEF Spec

(* The state of the super-loop stays within its types. *)
THEOREM FirmwareIsTyped == Spec => []FirmwareTypeOK
  BY FirmwareInvariant, PTL DEF FirmwareInv

(* The vehicle is operational only after a self-test that has passed. *)
THEOREM OperationalOnlyAfterSelfTest == Spec => []OperationalIsTested
  BY FirmwareInvariant, PTL DEF FirmwareInv

(* A self-test that hangs is always ended by the watchdog and never        *)
(* reports its time-out.                                                   *)
THEOREM TimeoutIsNeverReported == Spec => []SelfTestTimeoutIsDead
  BY FirmwareInvariant, PTL DEF FirmwareInv

--------------------------------------------------------------------------------
(* What a permitted transition does to the phase of the vehicle. *)
LEMMA PhaseStep ==
    ASSUME NEW s \in SystemStates, NEW n \in {"EMERGENCY", "FAULT"} \cup Successors[s]
    PROVE  \/ PhaseOf(n) = PhaseOf(s)
           \/ PhaseOf(n) = "stopped"
           \/ PhaseOf(s) = "preparing" /\ PhaseOf(n) = "operational"
           \/ PhaseOf(s) = "operational" /\ PhaseOf(n) = "driving"
           \/ PhaseOf(s) = "driving" /\ PhaseOf(n) = "operational"
           \/ PhaseOf(s) = "stopped" /\ PhaseOf(n) = "preparing"
  <1>1. CASE n \in {"EMERGENCY", "FAULT"}
    BY <1>1 DEF PhaseOf, Operational
  <1>2. CASE s \in {"BOOT", "SELFTEST", "INIT_DRIVERS", "CALIBRATION"} /\ n \in Successors[s]
    BY <1>2 DEF PhaseOf, Operational, Successors, SystemStates
  <1>3. CASE s \in Operational /\ n \in Successors[s]
    BY <1>3 DEF PhaseOf, Operational, Successors, SystemStates
  <1>4. CASE s \in {"EMERGENCY", "FAULT", "SHUTDOWN"} /\ n \in Successors[s]
    BY <1>4 DEF PhaseOf, Operational, Successors, SystemStates
  <1> QED
    BY <1>1, <1>2, <1>3, <1>4 DEF SystemStates, Operational

(* A transition that leaves the latch alone is a step of SafeStop. *)
LEMMA TransitionIsSafe ==
    ASSUME status \in SystemStatus, NEW n \in SystemStates,
           status' = TransitionState(status, n)
    PROVE  [Safe!Next]_Safe!vars
  <1>1. /\ status'.fault_active = status.fault_active
        /\ status'.fault_severity = status.fault_severity
        /\ status'.current_state =
             IF n \in {"EMERGENCY", "FAULT"} \cup Successors[status.current_state]
             THEN n ELSE status.current_state
    BY TransitionProps, Zenon
  <1>2. Latched(status)' = Latched(status)
    BY <1>1, Zenon DEF Latched
  <1>3. \/ PhaseOf(state)' = PhaseOf(state)
        \/ PhaseOf(state)' = "stopped"
        \/ PhaseOf(state) = "preparing" /\ PhaseOf(state)' = "operational"
        \/ PhaseOf(state) = "operational" /\ PhaseOf(state)' = "driving"
        \/ PhaseOf(state) = "driving" /\ PhaseOf(state)' = "operational"
        \/ PhaseOf(state) = "stopped" /\ PhaseOf(state)' = "preparing"
    <2>1. status.current_state \in SystemStates
      BY DEF SystemStatus
    <2>2. CASE n \in {"EMERGENCY", "FAULT"} \cup Successors[status.current_state]
      <3>1. state' = n
        BY <1>1, <2>2 DEF state
      <3>2. PhaseOf(state)' = PhaseOf(n)
        BY <3>1 DEF PhaseOf
      <3> QED
        BY <2>1, <2>2, <3>2, PhaseStep DEF state
    <2>3. CASE status'.current_state = status.current_state
      BY <2>3 DEF state, PhaseOf
    <2> QED
      BY <1>1, <2>2, <2>3
  <1> QED
    BY <1>2, <1>3
       DEF Safe!Next, Safe!vars, Safe!Prepared, Safe!Drive, Safe!Pause, Safe!Stop, Safe!Recover

(* A step that leaves the status alone is a stutter. *)
LEMMA StatusKeptIsSafe ==
    ASSUME UNCHANGED status
    PROVE  [Safe!Next]_Safe!vars
  BY DEF Safe!vars, state, PhaseOf, Latched

(* A report either leaves the status alone or latches and stops, and so    *)
(* does a failed self-test, which stops in any case.                       *)
LEMMA StopIsSafe ==
    ASSUME status'.current_state \in {"EMERGENCY", "FAULT"},
           Latched(status') \/ Latched(status)' = Latched(status)
    PROVE  [Safe!Next]_Safe!vars
  <1>1. PhaseOf(state)' = "stopped"
    BY DEF state, PhaseOf, Operational
  <1>2. Latched(status)' = TRUE \/ Latched(status)' = Latched(status)
    BY DEF Latched
  <1> QED
    BY <1>1, <1>2 DEF Safe!Next, Safe!Stop, Safe!LatchFault

(* Reset is the abstract restart. *)
LEMMA ResetIsSafe ==
    ASSUME HardwareReset
    PROVE  [Safe!Next]_Safe!vars
  <1>1. PhaseOf(state)' = "preparing" /\ Latched(status)' = FALSE
    BY DefaultStatusProps DEF HardwareReset, state, PhaseOf, Operational, Latched
  <1> QED
    BY <1>1 DEF Safe!Next, Safe!Restart

(* The status after a report, and after a failed self-test. *)
LEMMA ReportIsSafe ==
    ASSUME FaultInv, NEW sev \in Severities, NEW c \in Codes,
           \/ status' = React(status, sev, c)
           \/ status' = TransitionState(React(status, sev, c), "FAULT")
    PROVE  [Safe!Next]_Safe!vars /\ (Latched(status) => Latched(status)')
  <1> DEFINE t == React(status, sev, c)
  <1>1. /\ status \in SystemStatus /\ t \in SystemStatus
        /\ \/ t = status
           \/ Latched(t) /\ t.current_state = "EMERGENCY"
    BY ReactProps DEF FaultInv, FaultTypeOK
  <1>2. status' = t \/ status' = TransitionState(t, "FAULT")
    OBVIOUS
  <1> HIDE DEF t
  <1>3. CASE status' = t
    <2>1. CASE t = status
      BY <1>3, <2>1, StatusKeptIsSafe DEF Latched
    <2>2. CASE Latched(t) /\ t.current_state = "EMERGENCY"
      BY <1>3, <2>2, StopIsSafe DEF Latched
    <2> QED
      BY <1>1, <2>1, <2>2
  <1>4. CASE status' = TransitionState(t, "FAULT")
    <2>1. "FAULT" \in SystemStates
      BY DEF SystemStates
    <2>2. /\ status'.fault_active = t.fault_active
          /\ status'.fault_severity = t.fault_severity
          /\ status'.current_state = "FAULT"
      BY <1>1, <1>4, <2>1, TransitionProps, Zenon
    <2>3. Latched(status)' = Latched(t)
      BY <2>2, Zenon DEF Latched
    <2> QED
      BY <1>1, <2>2, <2>3, StopIsSafe DEF Latched
  <1> QED
    BY <1>2, <1>3, <1>4

(* Every step of the firmware is a step of SafeStop or a stutter, and      *)
(* keeps the latch unless it is a reset.                                   *)
LEMMA NextIsSafe ==
    ASSUME FirmwareInv, [Next]_vars
    PROVE  /\ [Safe!Next]_Safe!vars
           /\ Latched(status) /\ pc' # "init" => Latched(status)'
  <1> USE DEF FirmwareInv
  <1>1. status \in SystemStatus
    BY DEF FaultInv, FaultTypeOK
  <1>2. ASSUME UNCHANGED status
        PROVE  [Safe!Next]_Safe!vars /\ (Latched(status) => Latched(status)')
    BY <1>2, StatusKeptIsSafe DEF Latched
  <1>3. ASSUME NEW n \in SystemStates, status' = TransitionState(status, n)
        PROVE  [Safe!Next]_Safe!vars /\ (Latched(status) => Latched(status)')
    <2>1. /\ status'.fault_active = status.fault_active
          /\ status'.fault_severity = status.fault_severity
      BY <1>1, <1>3, TransitionProps, Zenon
    <2> QED
      BY <1>1, <1>3, <2>1, TransitionIsSafe DEF Latched
  <1>4. CASE InitAll
    <2>1. status = DefaultStatus /\ ~Latched(status)
      BY <1>4, DefaultStatusProps DEF InitAll, FreshAfterReset
    <2>2. state = "BOOT" /\ state' = "SELFTEST"
      BY <1>4, <2>1, DefaultStatusProps DEF InitAll, state, SystemStatus
    <2>3. PhaseOf(state)' = PhaseOf(state)
      BY <2>2 DEF PhaseOf, Operational
    <2>4. ~Latched(status)'
      BY <1>4, InitAllStep DEF Latched
    <2> QED
      BY <2>1, <2>3, <2>4 DEF Safe!vars, Latched
  <1>5. CASE Iterate
    <2>1. \/ UNCHANGED status
          \/ \E n \in SystemStates : status' = TransitionState(status, n)
      BY <1>5 DEF Iterate, Handle, RunDriving, SystemStates
    <2> QED
      BY <1>2, <1>3, <2>1
  <1>6. CASE EnterStop \/ WakeUp \/ Refresh \/ BeginSelfTest \/ UNCHANGED vars
    <2>1. UNCHANGED status
      BY <1>6 DEF EnterStop, WakeUp, Refresh, BeginSelfTest, vars, faultVars
    <2> QED
      BY <1>2, <2>1
  <1>7. CASE CheckMemory \/ CheckPeripherals \/ CheckCANBus \/ CheckMotorDrivers
    <2>1. SelfTestCodes \subseteq Codes /\ {WARNING, ERROR, CRITICAL} \subseteq Severities
      BY FirmwareAssumption DEF Severities, INFO, WARNING, ERROR, CRITICAL
    <2>2. \/ UNCHANGED status
          \/ \E sev \in Severities, c \in Codes :
                \/ status' = React(status, sev, c)
                \/ status' = TransitionState(React(status, sev, c), "FAULT")
      BY <1>7, <2>1
         DEF CheckMemory, CheckPeripherals, CheckCANBus, CheckMotorDrivers, Passes,
             FailSelfTest, Report, SelfTestCodes, faultVars
    <2> QED
      BY <1>2, <2>2, ReportIsSafe
  <1>8. CASE CheckDeadline
    <2>1. "INIT_DRIVERS" \in SystemStates
      BY DEF SystemStates
    <2>2. status' = TransitionState(status, "INIT_DRIVERS")
      BY <1>8, FirmwareAssumption
         DEF CheckDeadline, SelfTestTimeoutIsDead, FirmwareTypeOK
    <2> QED
      BY <1>3, <2>1, <2>2
  <1>9. CASE Application
    <2>1. \/ UNCHANGED status
          \/ \E n \in SystemStates : status' = TransitionState(status, n)
          \/ \E sev \in Severities, c \in Codes : status' = React(status, sev, c)
      BY <1>9, FirmwareAssumption
         DEF Application, AppCall, Request, Report, ClearFault, ClearAllRecords
    <2> QED
      BY <1>2, <1>3, <2>1, ReportIsSafe
  <1>10. CASE Tick
    <2>1. CASE HardwareReset
      BY <2>1, ResetIsSafe DEF HardwareReset
    <2>2. CASE UNCHANGED status
      BY <1>2, <2>2
    <2> QED
      BY <1>10, <2>1, <2>2 DEF Tick, faultVars
  <1> QED
    BY <1>4, <1>5, <1>6, <1>7, <1>8, <1>9, <1>10 DEF Next, Loop, SelfTest

(* No call, recovery or self-test clears the fault latch: only a reset.    *)
THEOREM LatchStays == Spec => LatchIsSticky
  <1>1. FirmwareInv /\ [Next]_vars => [Latched(status) /\ ~Latched(status') => pc' = "init"]_vars
    BY NextIsSafe DEF Latched
  <1> QED
    BY <1>1, FirmwareInvariant, PTL DEF Spec, LatchIsSticky

(* The safety part of the refinement: the firmware starts where SafeStop   *)
(* starts and takes only its steps.                                        *)
THEOREM FirmwareStopsSafely == Spec => Safe!Init /\ [][Safe!Next]_Safe!vars
  <1>1. Init => Safe!Init
    BY DefaultStatusProps
       DEF Init, FaultInit, Safe!Init, state, PhaseOf, Operational, Latched
  <1>2. FirmwareInv /\ [Next]_vars => [Safe!Next]_Safe!vars
    BY NextIsSafe
  <1> QED
    BY <1>1, <1>2, FirmwareInvariant, PTL DEF Spec
================================================================================
