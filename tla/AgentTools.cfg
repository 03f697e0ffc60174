SPECIFICATION ASpec
CONSTANTS
  Procs = {p1}
  Trees <- Prune
  Kids <- PruneKids
  Fn <- PruneFn
  SourceHash <- ByName
  Plain <- CountAndSum
  Blind <- OnlySum
  MaxEvents = 2
  Paths <- PathsPruned
  root = root
  group = group
  a = a
  b = b
  c = c
  None = None
  Parent <- MCParent
  Root = root
  Shown <- One
  Scopes <- Globs
  Maxima <- OneOrAll
INVARIANTS
  AnswerIsFresh
  FoundIsTrue
  NothingMissed
  NearestFirst
