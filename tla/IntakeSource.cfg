SPECIFICATION Spec
CONSTANTS
  Callers = {c1}
  Seeders = {s1}
  Logs = {quotes, lpos}
  Inside = {quotes}
  Specs = {first, second}
  Trees = {both, one}
  Schema <- MCSchema
  Nodes <- MCNodes
  Leaves <- MCLeaves
  About <- MCAbout
  Named = {quote}
  Requests <- BadSource
  Counts = {1, 2}
  MaxCalls = 2
  MaxSeeds = 2
  MaxEdits = 1
  MaxBroken = 1
  quotes = quotes
  lpos = lpos
  first = first
  second = second
  both = both
  one = one
  quote = quote
  lpo = lpo
  None = None
CHECK_DEADLOCK FALSE
INVARIANTS
  ErrorsAreData
