SPECIFICATION RpiFairSpec
CONSTANTS
    Filters <- const_Filters
    Topics <- const_Topics
    Matches <- const_Matches
    FailPeriod = 2
    BufferSize = 2
    MaxLoops = 3
INVARIANTS MessagesAreAnswered
