SPECIFICATION Spec
CONSTANTS
  Names = {x, y}
  MaxKids = 2
  MaxHeld = 4
  MaxObjects = 6
  MaxPath = 2
  a = a
  b = b
  c = c
  q = q
  r = r
  x = x
  y = y
  Absent = Absent
  Wrong = Wrong
  Docs <- MCDocs
  Later <- MCLater
  Unfit = {c}
  NotNames = {c, q}
  Taken = {b}
  ReadAs <- Read
  Types = {a, b, c}
  None = None
  Upcasters <- Conversions
  Log <- Lines
  EventReads = {r1}
  Accepted <- Filters
  ReadLimits <- OneOrNone
  Runs = {run1, run2}
  Texts = {old, new}
  Gone = Gone
  MaxClock = 2
  MaxEdits = 2
INVARIANTS
  WellFormed
  RowsAreDecoded
  CycleIsReal
  PromptIsCurrent
  
PROPERTIES
  IsPathTree
  UpcastEnds
  WatchersStop
CHECK_DEADLOCK FALSE
