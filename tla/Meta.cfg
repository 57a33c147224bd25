CONSTANTS
  s = s
  t = t
  p = p
  q = q
  u = u
  b = b
  e = e
  f = f
  k = k
  NoPort = NoPort
  Oid <- MCOid
  Switch <- MCSwitch
  Port <- MCPort
  Entry <- MCEntry
  SwitchOf <- MCSwitchOf
  Default <- MCDefault
  Home <- MCHome
  Member <- MCMember
  AttrKey <- MCAttrKey
  MaxLists = 1
SPECIFICATION Spec
INVARIANTS CountsAreReferences RelatedAreKnown
PROPERTY ImplementsObjectGraph
CHECK_DEADLOCK FALSE
