SPECIFICATION LifeSpec
CONSTANTS
  n1 = n1
  p1 = p1
  h1 = h1
  h2 = h2
  w1 = w1
  a1 = a1
  a2 = a2
  NoAlloc = NoAlloc
  NoWs = NoWs
  Nodes = {n1}
  Projects = {p1}
  Workspaces = {w1}
  AllocIds = {a1, a2}
  Handlers = {h1, h2}
  Casts <- LiveCasts
  Capacities <- MCCapacities
  Plans <- MCPlans
  Deltas <- MCDeltas
  Charges <- MCCharges
  ProjectOf <- MCProjectOf
  PlanOf <- MCPlanOf
PROPERTIES OrphansReclaimed ProvisioningResolves DestroyCompletes
