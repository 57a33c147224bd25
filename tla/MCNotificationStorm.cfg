CONSTANTS
    Events = {fdb, port, bfd}
    FdbEvent = fdb
    QueueLimit = 2
    ThresholdLimit = 3
    MaxQueue = 8
    MaxRuns = 4
    MaxRunLength = 6
SPECIFICATION MCSpec
INVARIANTS
    FdbWithinLimit
    StormBound
