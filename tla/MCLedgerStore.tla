--------------------------- MODULE MCLedgerStore ---------------------------
(* A small ledger: two nodes, plans that differ in the disk, resizes that *)
(* trade cpu for disk, an offer that can shrink under what is charged, a  *)
(* stale counter a deleted node may come back with.                       *)
EXTENDS LedgerStore, TLC

Vec(c, m, d) == [cpu |-> c, mem |-> m, disk |-> d]

MCCapacities == {Vec(2, 2, 2), Vec(1, 1, 1)}
MCPlans == {Vec(1, 1, 1), Vec(1, 1, 2)}
MCDeltas == {Vec(1, 0, -1), Vec(-1, 0, 1)}
MCCharges == {ZeroVector, Vec(1, 1, 1)}

Symmetric == Permutations(AllocIds) \cup Permutations(Nodes)
               \cup Permutations(Projects)
=============================================================================
