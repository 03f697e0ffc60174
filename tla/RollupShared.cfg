SPECIFICATION RFairSpec
CONSTANTS
  Procs = {p1, p2}
  Trees <- Grow
  Kids <- GrowKids
  Fn <- GrowFn
  SourceHash <- ByName
  Plain <- OnlyCount
  Blind <- OnlySum
  MaxEvents = 1
  Paths <- PathsFlat
  root = root
  group = group
  a = a
  b = b
  c = c
  None = None
  Parent <- MCParent
INVARIANTS
  RTypeOK
  MatchMeansFresh
  CacheProvenance
PROPERTIES
  CacheIsTransparent
  CallsReturn
