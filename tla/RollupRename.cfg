SPECIFICATION RSpec
CONSTANTS
  Procs = {p1}
  Trees <- Before
  Kids <- RenameKids
  Fn <- RenameFn
  SourceHash <- ByName
  Plain <- CountAndSum
  Blind <- OnlySum
  MaxEvents = 1
  Paths <- PathsTwo
  root = root
  group = group
  a = a
  b = b
  c = c
  None = None
  Parent <- MCParent
INVARIANTS
  MatchMeansFresh
