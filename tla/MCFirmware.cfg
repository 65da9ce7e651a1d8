CONSTANTS
    Codes <- MCCodes
    DTC_MAX_COUNT = 1
    OccurrenceCap = 3
    FAULT_LOG_MAX = 2
    WATCHDOG_MS = 2
    SELFTEST_TIMEOUT_MS = 3
    CheckResults = {TRUE, FALSE}
    Requests <- MCRequests
    AppFaults <- MCAppFaults
SPECIFICATION Spec
INVARIANTS
    OperationalIsTested
PROPERTIES
    LatchedDrivingStops
    SelfTestEnds
    ImplementsSafeStop
