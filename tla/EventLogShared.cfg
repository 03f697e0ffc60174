SPECIFICATION Spec
CONSTANTS
  Writers = {w1, w2}
  Readers = {r1}
  Filters <- AllOrWide
  Limits <- NoneOrOne
  MaxCalls = 3
  ShortWrites = FALSE
  PowerCuts = FALSE
  small = small
  wide = wide
  huge = huge
  None = None
  Spliced = Spliced
  Events <- MCEvents
  Size <- MCSize
  Split <- MCSplit
  Ceiling <- MCCeiling
SYMMETRY WriterSymmetry
INVARIANTS
  AckedReadable
  CursorWhenAlone
  ReadsInOrder
  CompleteAtEof
  NeverBroken
PROPERTY
  IsJournal
CHECK_DEADLOCK FALSE
