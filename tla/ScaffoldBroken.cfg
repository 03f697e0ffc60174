SPECIFICATION Spec
CONSTANTS
  Procs = {p1}
  Specs <- SmallOrGrown
  Renderable <- MCRenderable
  Stubs <- MCStubs
  Forms <- OnlyDef
  Mistakes = TRUE
  Faults = FALSE
  MaxCommands = 3
  MaxEdits = 2
  small = small
  grown = grown
  forest = forest
  spend = spend
  vendors = vendors
  total = total
  None = None
CHECK_DEADLOCK FALSE
INVARIANTS
  UpgradeIsIdempotent
