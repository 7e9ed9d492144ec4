SPECIFICATION LifeSafety
CONSTANTS
  n1 = n1
  p1 = p1
  h1 = h1
  h2 = h2
  w1 = w1
  a1 = a1
  NoAlloc = NoAlloc
  NoWs = NoWs
  Nodes = {n1}
  Projects = {p1}
  Workspaces = {w1}
  AllocIds = {a1}
  Handlers = {h1, h2}
  Casts <- ReviewCasts
  Capacities <- MCCapacities
  Plans <- MCPlans
  Deltas <- MCDeltas
  Charges <- MCCharges
  ProjectOf <- MCProjectOf
  PlanOf <- MCPlanOf
SYMMETRY Symmetric
INVARIANTS DestroyFreesAllocation DestroyedLeavesNoInstance
PROPERTIES OnlyEarlierReadersRevive
