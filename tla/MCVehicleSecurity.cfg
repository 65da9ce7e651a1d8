SPECIFICATION SecurityFairSpec
CONSTANTS
    brakes = brakes
    bus = bus
    braking = braking
    powertrain = powertrain
    motion = motion
    network = network
    ota = ota
    reporter = reporter
    op = op
    Operator = op
    Ecu <- const_Ecu
    Reading = {"ONLINE", "OFFLINE"}
    SafetyEcu <- const_Ecu
    OtherEvent <- const_OtherEvent
    Goals <- const_Goals
    Asil <- const_Asil
    RelatedEcus <- const_RelatedEcus
    Scopes <- const_Scopes
    Fallible = {network, ota}
    Reporter <- const_Reporter
    ReportedEvent <- const_ReportedEvent
    LockCaller <- const_LockCaller
    QueueSize = 1
    MaxStarts = 1
    MaxEvents = 1
    MaxCommands = 1
INVARIANTS SecurityInv
PROPERTIES GoalsLimitState ScopesFollowFlag OutageLocksDown
CHECK_DEADLOCK FALSE
