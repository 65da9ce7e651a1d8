SPECIFICATION FairSpec
CONSTANTS
    PathLengths <- const_PathLengths
    Depth = 1
    Watchdog = 1
PROPERTIES StopHolds MovingCommandIsFresh RestartNeedsPath StopTakesEffect
