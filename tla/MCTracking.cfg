SPECIFICATION Spec
CONSTANTS
    MaxTracks = 3
    MaxDetections = 3
    MinHits = 2
    MaxAge = 4
    MaxCoasting = 1
    MaxBoxes = 4
    MaxDetected = 3
    SortHits = 2
    SortAge = 2
INVARIANTS ValidWasEarned
PROPERTIES TentativeGoesAway TrackerKeepsRegistry SortKeepsRegistry
