SPECIFICATION Spec
CONSTANTS
  Writers = {w1}
  Readers = {r1}
  Filters <- AllOnly
  Limits <- NoLimit
  MaxCalls = 2
  ShortWrites = TRUE
  PowerCuts = FALSE
  small = small
  wide = wide
  huge = huge
  None = None
  Spliced = Spliced
  Events <- MCEvents
  Size <- MCSize
  Split <- MCSplit
  Ceiling <- MCCeiling
INVARIANTS
  AckedReadable
CHECK_DEADLOCK FALSE
