CONSTANTS
    MaxCalls = 3
    MaxRestart = 1
SPECIFICATION FairSpec
INVARIANTS
    OneThreadOnSocket
PROPERTY
    ImplementsRemoteCall
    RequestIsTaken
CHECK_DEADLOCK FALSE
