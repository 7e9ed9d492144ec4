SPECIFICATION StoreSpec
CONSTANTS
  n1 = n1
  n2 = n2
  p1 = p1
  p2 = p2
  a1 = a1
  a2 = a2
  NoAlloc = NoAlloc
  Nodes = {n1, n2}
  Projects = {p1, p2}
  AllocIds = {a1, a2}
  Capacities <- MCCapacities
  Plans <- MCPlans
  Deltas <- MCDeltas
  Charges <- MCCharges
SYMMETRY Symmetric
INVARIANTS TypeOK LiveOnRegistered UsedCoversLive
PROPERTIES ImplementsPool  ReleasedIsFinal
