\* Two codes, two log slots and one DTC slot: both stores fill up.
CONSTANTS
    Codes = {c1, c2}
    DTC_MAX_COUNT = 1
    OccurrenceCap = 3
    FAULT_LOG_MAX = 2
    Reportable = {1, 2, 3}
SPECIFICATION ReportsSpec
INVARIANTS
    DtcLifecycle
    OneActiveRecord
    LatchCoversLog
    LogNeverOverstates
    CriticalLostOnlyWhenFull
PROPERTIES
    ImplementsLedger
