SPECIFICATION FairSpec
CONSTANTS
  Procs = {p1, p2}
  Specs <- SmallOrForest
  Renderable <- MCRenderable
  Stubs <- MCStubs
  Forms <- OnlyDef
  Mistakes = FALSE
  Faults = FALSE
  MaxCommands = 2
  MaxEdits = 0
  small = small
  grown = grown
  forest = forest
  spend = spend
  vendors = vendors
  total = total
  None = None
CHECK_DEADLOCK FALSE
PROPERTIES
  CommandsEnd
