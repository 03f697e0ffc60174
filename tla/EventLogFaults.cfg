SPECIFICATION Spec
CONSTANTS
  Writers = {w1, w2}
  Readers = {r1}
  Filters <- AllOnly
  Limits <- NoLimit
  MaxCalls = 2
  ShortWrites = TRUE
  PowerCuts = TRUE
  small = small
  wide = wide
  huge = huge
  None = None
  Spliced = Spliced
  Events <- TwoEvents
  Size <- MCSize
  Split <- MCSplit
  Ceiling <- MCCeiling
SYMMETRY WriterSymmetry
INVARIANTS
  TypeOK
  DamageIsContained
PROPERTIES
  DurableStaysReadable
CHECK_DEADLOCK FALSE
