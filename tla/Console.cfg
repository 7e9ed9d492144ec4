SPECIFICATION Spec
CONSTANTS
  w1 = w1
  w2 = w2
  c1 = c1
  c2 = c2
  Rows = {w1, w2}
  Slots = {c1, c2}
  MaxSteps = 3
  Casts <- MCCasts
INVARIANTS OneAtATime
PROPERTIES RefusedOnlyWhenStale PassingStatusCatchesUp OptimismEnds
CHECK_DEADLOCK FALSE
