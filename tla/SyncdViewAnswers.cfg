CONSTANTS
  d = d
  a = a
  x = x
  Vid <- NoVid
  Default <- NoDefault
  Port <- NoPort
  Value <- MCValue
  SyncModes = {TRUE}
  Extra = {"inspect", "dump"}
  Bulk = {}
  AsyncBulk = FALSE
  DieWaiting = TRUE
  MaxQueue = 2
  MaxRestart = 1
SPECIFICATION FairSpec
PROPERTY NotifyIsAnswered
CHECK_DEADLOCK FALSE
