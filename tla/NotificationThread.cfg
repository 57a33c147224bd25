CONSTANTS
    Events = {fdb, port, flow}
    FdbEvent = fdb
    FlowBulkEvent = flow
    QueueLimit = 1
    ThresholdLimit = 2
    Callbacks = {c1, c2}
    MaxQueue = 3
    MaxRunLength = 3
SPECIFICATION FairSpec
INVARIANTS
    HandledApartFromEvents
PROPERTY
    SignalledBacklogIsTaken
    StopFromWaitReturns
CHECK_DEADLOCK FALSE
