SPECIFICATION Spec
CONSTANTS
  base = base
  distill = distill
  pair = pair
  Cells = {base, distill}
  NoCell = NoCell
  Triplets = {pair}
  NoTriplet = NoTriplet
  TripletOf <- OnePair
  Feeds = {r1}
  Routes = {}
  Dispatchers = {d1}
  StaleAge = 2
  MaxClock = 2
  MaxRuns = 2
  MaxManual = 0
  MaxOperators = 1
  ManualResults <- SomeResults
PROPERTY AcknowledgedIsProjected
SYMMETRY Symmetry
CHECK_DEADLOCK FALSE
