CONSTANTS
    Codes <- MCCodes
    DTC_MAX_COUNT = 1
    OccurrenceCap = 3
    FAULT_LOG_MAX = 3
    Rails <- MCRails
SPECIFICATION Spec
PROPERTIES
    PassLatchesCriticalRail
