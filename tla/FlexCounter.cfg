CONSTANTS
  x = x
  y = y
  a = a
  b = b
  Vid <- MCVid
  Removable <- MCRemovable
  Stat <- MCStat
  Prefix <- MCPrefix
  PrefixOf <- MCPrefixOf
  Lists <- MCLists
  BulkChoices <- MCBulkChoices
  Doubtful <- MCDoubtful
SPECIFICATION Spec
INVARIANTS BulkInStep RemovedIsNotPolled AddedIsPolled WaitsOnlyIfIdle
PROPERTY EndReturns
CHECK_DEADLOCK FALSE
