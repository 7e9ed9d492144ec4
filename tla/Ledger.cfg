SPECIFICATION LedgerSafety
CONSTANTS
  n1 = n1
  n2 = n2
  p1 = p1
  arm = arm
  amd = amd
  a1 = a1
  a2 = a2
  c1 = c1
  c2 = c2
  NoAlloc = NoAlloc
  NoRequest = NoRequest
  AnyArch = AnyArch
  Nodes = {n1, n2}
  Projects = {p1}
  AllocIds = {a1, a2}
  Clients = {c1, c2}
  Capacities <- MCCapacities
  Plans <- MCPlans
  Deltas <- MCDeltas
  Charges <- MCCharges
  Requests <- MCRequests
  ArchOf <- MCArchOf
  ControlPlane = {}
  K8sNodes = {n1, n2}
  Mains = {n2}
  P2P = {n1}
  MainsBonus = 1024
  P2PBonus = 1
  Backend = "postgres"
SYMMETRY Symmetric
INVARIANTS NoSpuriousRefusal
