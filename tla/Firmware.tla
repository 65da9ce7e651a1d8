-------------------------------- MODULE Firmware --------------------------------
(***************************************************************************)
(* The super-loop of src/c/embedded_system/main.c over the fault handler   *)
(* and the diagnostics, with the independent watchdog running beside it.   *)
(*                                                                         *)
(* One iteration of System_StateMachine is a walk of pc from "top" through *)
(* the handler of the current state to "refresh", where the watchdog is    *)
(* fed.  Only the power-on self-test and the WFI of STANDBY can take time  *)
(* that matters, so these have control points of their own; the other      *)
(* handlers are one step.  The application code the handlers leave room    *)
(* for ("Read CAN bus inputs", "Run safety checks", "waiting for drive     *)
(* command via CAN") runs at "top" and calls the public API.               *)
(*                                                                         *)
(* Time: Tick is one millisecond, interleaved anywhere.  `idle' counts the *)
(* milliseconds since the watchdog was started or fed and `testMs' those   *)
(* since test_start of the running self-test.  When idle reaches           *)
(* WATCHDOG_MS the hardware resets the processor.                          *)
(***************************************************************************)
EXTENDS FaultHandler

CONSTANTS
    WATCHDOG_MS,          (* g_system_config.watchdog_timeout_ms            *)
    SELFTEST_TIMEOUT_MS,
    CheckResults,         (* what the self-test's checks may return         *)
    Requests,             (* states the application asks for                *)
    AppFaults             (* <<severity, code>> pairs the monitors report   *)

SelfTestCodes == {"SELFTEST_MEM", "SELFTEST_PERIPH", "SELFTEST_CAN",
                  "SELFTEST_MOTOR", "SELFTEST_TIMEOUT"}

ASSUME FirmwareAssumption ==
    /\ WATCHDOG_MS \in Nat \ {0}
    /\ SELFTEST_TIMEOUT_MS \in Nat
    /\ WATCHDOG_MS <= SELFTEST_TIMEOUT_MS
    /\ CheckResults \subseteq BOOLEAN
    /\ Requests \subseteq SystemStates \ {"INIT_DRIVERS", "CALIBRATION"}
    /\ AppFaults \subseteq Severities \X (Codes \ SelfTestCodes)
    /\ SelfTestCodes \subseteq Codes

VARIABLES
    pc,        (* where the processor is in main()                          *)
    idle,      (* milliseconds since the watchdog was fed                   *)
    testMs,    (* milliseconds since test_start; 0 outside the self-test    *)
    tested     (* history: the last self-test begun since reset has passed  *)

loopVars == <<pc, idle, testMs, tested>>
vars     == <<faultVars, loopVars>>

InSelfTest == {"mem", "periph", "can", "motor", "deadline"}

FirmwareTypeOK ==
    /\ DiagTypeOK
    /\ FaultTypeOK
    /\ pc \in {"init", "top", "wfi", "refresh"} \cup InSelfTest
    /\ idle \in 0 .. WATCHDOG_MS - 1
    /\ testMs \in Nat
    /\ tested \in BOOLEAN

state == status.current_state
--------------------------------------------------------------------------------
(* Reset: the start-up code zeroes RAM, which puts g_system_status in BOOT *)
(* and empties the fault log and the DTC store.                            *)
Init ==
    /\ FaultInit
    /\ pc = "init" /\ idle = 0 /\ testMs = 0 /\ tested = FALSE

HardwareReset ==
    /\ dtcs' = << >> /\ session' = "DEFAULT"
    /\ stats' = [stored |-> 0, confirmed |-> 0, pending |-> 0, session |-> "unset"]
    /\ log' = << >> /\ status' = DefaultStatus
    /\ pc' = "init" /\ idle' = 0 /\ testMs' = 0 /\ tested' = FALSE

(* System_InitAll starts the watchdog and leaves the state at SELFTEST.    *)
(* None of the steps it calls can fail on this configuration; a PLL that   *)
(* never locks is a boot that never happens.                               *)
InitAll ==
    /\ pc = "init"
    /\ pc' = "top"
    /\ idle' = 0
    /\ status' = [DefaultStatus EXCEPT !.current_state = "SELFTEST"]
    /\ UNCHANGED <<diagVars, log, testMs, tested>>

(* One iteration in a state whose handler takes no time. *)
Handle(s) ==
    CASE s.current_state = "BOOT"         -> TransitionState(s, "SELFTEST")
      [] s.current_state = "INIT_DRIVERS" -> TransitionState(s, "CALIBRATION")
      [] s.current_state = "CALIBRATION"  -> TransitionState(s, "READY")
      [] s.current_state = "DRIVING"      -> RunDriving(s)
      [] s.current_state = "SHUTDOWN"     -> TransitionState(s, "SHUTDOWN")
      [] OTHER                            -> s

Iterate ==
    /\ pc = "top" /\ state \notin {"SELFTEST", "STANDBY"}
    /\ pc' = "refresh"
    /\ status' = Handle(status)
    /\ UNCHANGED <<diagVars, log, idle, testMs, tested>>

(* STANDBY: PowerManagement_EnterLowPower(POWER_MODE_STOP) waits for an    *)
(* interrupt; the watchdog keeps counting.                                 *)
EnterStop ==
    /\ pc = "top" /\ state = "STANDBY"
    /\ pc' = "wfi"
    /\ UNCHANGED <<faultVars, idle, testMs, tested>>

WakeUp ==
    /\ pc = "wfi"
    /\ pc' = "refresh"
    /\ UNCHANGED <<faultVars, idle, testMs, tested>>

Refresh ==
    /\ pc = "refresh"
    /\ pc' = "top"
    /\ idle' = 0
    /\ UNCHANGED <<faultVars, testMs, tested>>
--------------------------------------------------------------------------------
(* System_RunSelfTest. *)

BeginSelfTest ==
    /\ pc = "top" /\ state = "SELFTEST"
    /\ pc' = "mem" /\ testMs' = 0 /\ tested' = FALSE
    /\ UNCHANGED <<faultVars, idle>>

Passes(here, next) ==
    /\ pc = here /\ TRUE \in CheckResults
    /\ pc' = next
    /\ UNCHANGED <<faultVars, idle, testMs, tested>>

(* Report, then System_TransitionState(SYS_STATE_FAULT), then return: a    *)
(* CRITICAL report passes through EMERGENCY on the way.                    *)
FailSelfTest(sev, code) ==
    /\ LogFault(sev, code)
    /\ status' = TransitionState(React(status, sev, code), "FAULT")
    /\ pc' = "refresh" /\ testMs' = 0
    /\ UNCHANGED <<idle, tested>>

Fails(here) == pc = here /\ FALSE \in CheckResults

CheckMemory ==
    \/ Passes("mem", "periph")
    \/ Fails("mem") /\ FailSelfTest(CRITICAL, "SELFTEST_MEM")

CheckPeripherals ==
    \/ Passes("periph", "can")
    \/ Fails("periph") /\ FailSelfTest(ERROR, "SELFTEST_PERIPH")

(* "Non-fatal: continue but log warning" *)
CheckCANBus ==
    \/ Passes("can", "motor")
    \/ /\ Fails("can")
       /\ Report(WARNING, "SELFTEST_CAN")
       /\ pc' = "motor"
       /\ UNCHANGED <<idle, testMs, tested>>

CheckMotorDrivers ==
    \/ Passes("motor", "deadline")
    \/ Fails("motor") /\ FailSelfTest(ERROR, "SELFTEST_MOTOR")

CheckDeadline ==
    /\ pc = "deadline"
    /\ \/ /\ testMs >= SELFTEST_TIMEOUT_MS
          /\ FailSelfTest(CRITICAL, "SELFTEST_TIMEOUT")
       \/ /\ testMs < SELFTEST_TIMEOUT_MS
          /\ status' = TransitionState(status, "INIT_DRIVERS")
          /\ pc' = "refresh" /\ testMs' = 0 /\ tested' = TRUE
          /\ UNCHANGED <<diagVars, log, idle>>

SelfTest ==
    BeginSelfTest \/ CheckMemory \/ CheckPeripherals \/ CheckCANBus
      \/ CheckMotorDrivers \/ CheckDeadline
--------------------------------------------------------------------------------
(* The application, between two handlers. *)

Request(s) ==
    /\ status' = TransitionState(status, s)
    /\ UNCHANGED <<diagVars, log>>

AppCall ==
    \/ \E s \in Requests : Request(s)
    \/ \E f \in AppFaults : Report(f[1], f[2])
    \/ \E code \in Codes : ClearFault(code)
    \/ ClearAllRecords
    \/ ProcessRequest /\ UNCHANGED <<log, status>>

Application == pc = "top" /\ AppCall /\ UNCHANGED loopVars

(* The millisecond tick and the watchdog's countdown. *)
Tick ==
    /\ pc # "init"
    /\ \/ /\ idle + 1 < WATCHDOG_MS
          /\ idle' = idle + 1
          /\ testMs' = IF pc \in InSelfTest THEN testMs + 1 ELSE testMs
          /\ UNCHANGED <<faultVars, pc, tested>>
       \/ /\ idle + 1 >= WATCHDOG_MS
          /\ HardwareReset

Loop == Iterate \/ EnterStop \/ Refresh \/ SelfTest

Next == InitAll \/ Loop \/ WakeUp \/ Application \/ Tick

(* The processor keeps executing main(); nothing is promised about boot,   *)
(* about wake-up events or about the application.                          *)
Spec == Init /\ [][Next]_vars /\ WF_vars(Loop)
--------------------------------------------------------------------------------
(***************************************************************************)
(* Properties.                                                             *)
(***************************************************************************)

Operational == {"READY", "DRIVING", "PARKING", "STANDBY"}

(* System_RunSelfTest guards driving: whatever sequence of faults,         *)
(* requests, recoveries and watchdog resets came before, the vehicle is    *)
(* operational only if the last self-test it began has passed.             *)
OperationalIsTested ==
    state \in Operational \cup {"INIT_DRIVERS", "CALIBRATION"} => tested

(* The clock of the self-test never runs ahead of the watchdog's. *)
TestClock ==
    /\ testMs <= idle
    /\ pc \notin InSelfTest => testMs = 0

(* The self-test never feeds the watchdog, whose 100 ms are over long      *)
(* before SELFTEST_TIMEOUT_MS: a self-test that hangs is ended by a reset, *)
(* and the time-out branch of System_RunSelfTest never reports.            *)
SelfTestTimeoutIsDead ==
    /\ TestClock
    /\ testMs < SELFTEST_TIMEOUT_MS
    /\ \A i \in DOMAIN log : log[i].code # "SELFTEST_TIMEOUT"

(* No call, recovery or passed self-test takes the fault latch away: only  *)
(* a reset does.                                                           *)
LatchIsSticky == [][Latched(status) /\ ~Latched(status') => pc' = "init"]_vars

(* RunDriving's emergency check: a vehicle that is DRIVING with the latch  *)
(* set stops driving.                                                      *)
LatchedDrivingStops == Latched(status) /\ state = "DRIVING" ~> state # "DRIVING"

(* The self-test always comes to a verdict or to a reset. *)
SelfTestEnds == state = "SELFTEST" ~> state # "SELFTEST"

(* The firmware implements SafeStop. *)
PhaseOf(s) ==
    CASE s \in Operational \ {"DRIVING"}          -> "operational"
      [] s = "DRIVING"                            -> "driving"
      [] s \in {"EMERGENCY", "FAULT", "SHUTDOWN"} -> "stopped"
      [] OTHER                                    -> "preparing"

Safe == INSTANCE SafeStop WITH phase <- PhaseOf(state), latched <- Latched(status)

ImplementsSafeStop == Safe!Spec
================================================================================
