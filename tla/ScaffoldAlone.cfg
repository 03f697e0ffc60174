SPECIFICATION Spec
CONSTANTS
  Procs = {p1}
  Specs <- SmallOrGrown
  Renderable <- MCRenderable
  Stubs <- MCStubs
  Forms <- AnyForm
  Mistakes = TRUE
  Faults = TRUE
  MaxCommands = 3
  MaxEdits = 2
  small = small
  grown = grown
  forest = forest
  spend = spend
  vendors = vendors
  total = total
  None = None
CHECK_DEADLOCK FALSE
INVARIANTS
  TypeOK
  AtomicFiles
  RefusesCollision
  MarkerMeansComplete
  SuccessMeansComplete
  RefusalChangesNothing
  UpgradeSettles
  EditsInForce
