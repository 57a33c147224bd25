CONSTANTS
  r1 = r1
  r2 = r2
  Rid <- MCRid
  MaxVid = 4
  Kind = {"fdb", "bfd", "ha", "port", "flow"}
  MaxNtf = 1
SYMMETRY Symmetry
SPECIFICATION Spec
INVARIANTS TypeOK MapsInverse CachesCoherent IdleMapsAreLive VidsNotReused CheckedFdbTranslates
CHECK_DEADLOCK FALSE
