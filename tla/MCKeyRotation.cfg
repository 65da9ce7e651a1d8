SPECIFICATION Spec
CONSTANTS
    MaxKeys = 3
    MaxFailures = 1
    Scheduler = scheduler
    Admin = admin
    MaxNew = 1
    MaxCrashes = 1
INVARIANTS LineageIsKept
PROPERTIES NeverWithout KeysOnlyAge ExpiredIsRotated
