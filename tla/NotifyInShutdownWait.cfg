CONSTANTS
    MaxCalls = 2
    MaxRestart = 0
SPECIFICATION FairSpec
PROPERTY NotifyIsTakenInShutdownWait
CHECK_DEADLOCK FALSE
