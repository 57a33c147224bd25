CONSTANTS
  p1 = p1
  Port <- MCPort
  Config <- BothConfigs
  AgeCap = 3
  MaxEvents = 6
  MaxSets = 4
SPECIFICATION DampingFairSpec
INVARIANTS PendingIsReleased SuppressedIsRemembered DecayEndsInTime
PROPERTY SuppressedIsDelivered
