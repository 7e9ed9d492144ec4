------------------------------ MODULE MCLedger ------------------------------
(* Two concurrent requests over two nodes, one unit of memory being 1 GiB. *)
EXTENDS Ledger, TLC

CONSTANTS n1, n2, p1, arm, amd

Vec(c, m, d) == [cpu |-> c, mem |-> m, disk |-> d]

MCCapacities == {Vec(1, 1, 1)}
MCUnequal == {Vec(1, 1, 1), Vec(1, 2, 1)}
MCPlans == {Vec(1, 1, 1)}
MCDeltas == {Vec(0, -1, 0)}
MCCharges == {ZeroVector, Vec(1, 1, 1)}
MCArchOf == [n \in Nodes |-> IF n = n1 THEN arm ELSE amd]
MCRequests ==
  {[project |-> p1, plan |-> Vec(1, 1, 1), arch |-> AnyArch, k8s |-> FALSE],
   [project |-> p1, plan |-> Vec(1, 1, 1), arch |-> arm, k8s |-> TRUE]}

Symmetric == Permutations(AllocIds) \cup Permutations(Clients)
=============================================================================
