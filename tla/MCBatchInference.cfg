SPECIFICATION Spec
CONSTANTS
    Requests <- MCRequests
    Urgent <- MCUrgent
    Unknown <- MCUnknown
    Strategies <- MCStrategies
    Threads = {t1, t2}
    NumWorkers = 1
    MinBatch = 1
    MaxBatch = 2
    MaxQueue = 3
    KeptResults = 1
    MaxOom = 1
    MaxStarts = 2
INVARIANTS BatchInv
PROPERTIES RequestsAreAnswered
\* the engine may be stopped for good
CHECK_DEADLOCK FALSE
