SPECIFICATION Spec
CONSTANTS
  base = base
  distill = distill
  pair = pair
  Cells = {base, distill}
  NoCell = NoCell
  Triplets = {pair}
  NoTriplet = NoTriplet
  TripletOf <- OnePair
  Feeds = {r1}
  Routes = {r2}
  Dispatchers = {d1}
  StaleAge = 0
  MaxClock = 2
  MaxRuns = 1
  MaxManual = 1
  MaxOperators = 1
  ManualResults <- SomeResults
INVARIANTS LastResultEvaluates CompletionIsEarned
PROPERTIES ImplementsScoreboard
SYMMETRY Symmetry
CHECK_DEADLOCK FALSE
