SPECIFICATION Spec
CONSTANTS
    RAMP = 2
    Commands <- const_Commands
INVARIANTS StoppedDriveIsOff
PROPERTIES JumpsOnlyAfterRace
