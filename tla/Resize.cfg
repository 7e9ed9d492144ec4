SPECIFICATION ResizeSafety
CONSTANTS
  n1 = n1
  p1 = p1
  a1 = a1
  a2 = a2
  w1 = w1
  w2 = w2
  h1 = h1
  h2 = h2
  NoAlloc = NoAlloc
  NoSpec = NoSpec
  NoWs = NoWs
  Nodes = {n1}
  Projects = {p1}
  AllocIds = {a1, a2}
  Workspaces = {w1, w2}
  Handlers = {h1, h2}
  Capacities <- MCCapacities
  Deltas <- MCDeltas
  Charges = {}
  Specs <- MCSpecs
  FirstSpec <- MCFirstSpec
  AllocOf <- MCAllocOf
  HostOf <- MCHostOf
  ProjectOf <- MCProjectOf
  Plans <- MCSpecs
  Casts <- PassingCasts
INVARIANTS SizesAgree UncoveredOnlyWhileShrinking
PROPERTIES StoreSteps
