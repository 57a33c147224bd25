CONSTANTS
  d = d
  a = a
  x = x
  Vid <- MCVid
  Default <- MCDefault
  Port <- NoPort
  Value <- MCValue
  SyncModes = {TRUE, FALSE}
  Extra = {}
  Bulk = {"bulkcreate", "bulkremove", "bulkset", "bulkget"}
  AsyncBulk = FALSE
  DieWaiting = FALSE
  MaxQueue = 2
  MaxRestart = 1
SPECIFICATION Spec
INVARIANTS DbMirrorsAsic AppliedViewIsRequested InitViewDataIsInTemp
CHECK_DEADLOCK FALSE
