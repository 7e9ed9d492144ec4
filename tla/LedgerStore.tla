---------------------------- MODULE LedgerStore ----------------------------
(***************************************************************************)
(* The resource ledger as the store keeps it: one row per node with what   *)
(* it offers (allocatable) and what is charged to it (used), one row per   *)
(* allocation.  Each action is one call of the store, atomic there under   *)
(* the mutex of the memory store or a FOR UPDATE transaction of postgres;  *)
(* only the deletion of a node takes postgres two steps.                   *)
(* Calls that return an error leave the state alone and are no action.     *)
(***************************************************************************)
EXTENDS Integers, FiniteSets

CONSTANTS
  Nodes,        \* node identities (uuid)
  Projects,     \* projects an allocation may belong to
  AllocIds,     \* allocation identities (uuid)
  Capacities,   \* allocatable vectors a heartbeat may report
  Plans,        \* demand vectors of the plans
  Deltas,       \* vectors a resize may add to an allocation
  Charges,      \* counters a caller may have read off a node some time ago
  NoAlloc       \* "no such row"

Resources == {"cpu", "mem", "disk"}

AllocStates == {"reserved", "active", "released"}

Vector == [Resources -> Nat]

Allocation ==
  [project : Projects, node : Nodes, size : Vector, state : AllocStates]

\* Identifiers are 128-bit uuids, so there are finitely many of them.
ASSUME AllocIdsFinite == IsFiniteSet(AllocIds)
ASSUME NoAllocIsNoRow == NoAlloc \notin Allocation
ASSUME InputTypes ==
  /\ Capacities \subseteq Vector
  /\ Plans \subseteq Vector
  /\ Deltas \subseteq [Resources -> Int]
  /\ Charges \subseteq Vector

VARIABLES
  nodes,        \* the nodes that have a row
  ready,        \* node -> is it Ready
  allocatable,  \* node -> what it offers
  used,         \* node -> what is charged to it
  allocs        \* id -> allocation row or NoAlloc

storeVars == <<nodes, ready, allocatable, used, allocs>>

----------------------------------------------------------------------------
(* What the rows say.  Units(m, n, r) holds one element per unit of        *)
(* resource r that a live (reserved or active) allocation of table m binds *)
(* on node n, so its cardinality is the SUM of those allocations' sizes.   *)

IsLive(row) == row # NoAlloc /\ row.state # "released"

LiveOn(m, n) == {a \in AllocIds : IsLive(m[a]) /\ m[a].node = n}

Units(m, n, r) == UNION {{a} \X (1 .. m[a].size[r]) : a \in LiveOn(m, n)}

Charged(n, r) == Cardinality(Units(allocs, n, r))

ZeroVector == [r \in Resources |-> 0]

Plus(v, w) == [r \in Resources |-> v[r] + w[r]]

Minus(v, w) == [r \in Resources |-> v[r] - w[r]]

\* if x < 0 { x = 0 }, component by component; GREATEST(x, 0) in SQL.
Clamp(v) == [r \in Resources |-> IF v[r] < 0 THEN 0 ELSE v[r]]

Fits_NoDisk(n, plan) ==
  \A r \in {"cpu", "mem"} : allocatable[n][r] - used[n][r] >= plan[r]

Fits(n, plan) ==
  \A r \in Resources : allocatable[n][r] - used[n][r] >= plan[r]

----------------------------------------------------------------------------
Init ==
  /\ nodes = {}
  /\ ready = [n \in Nodes |-> FALSE]
  /\ allocatable = [n \in Nodes |-> ZeroVector]
  /\ used = [n \in Nodes |-> ZeroVector]
  /\ allocs = [a \in AllocIds |-> NoAlloc]

\* A node reports, or the health ticker writes back the rows it listed: a row
\* that exists keeps its counters, everything else is overwritten; a row that
\* does not is inserted with the counters of the caller.  A report brings 0;
\* the ticker brings what it read before the node was deleted.
UpsertNode(n, cap, up, charged) ==
  /\ nodes' = nodes \cup {n}
  /\ ready' = [ready EXCEPT ![n] = up]
  /\ allocatable' = [allocatable EXCEPT ![n] = cap]
  /\ used' = [used EXCEPT ![n] = IF n \in nodes THEN @ ELSE charged]
  /\ UNCHANGED allocs

\* Charge a fresh allocation to n.  The guard is re-evaluated here, under
\* the lock, whatever the caller saw before.
ReserveOnNode(n, a, p, plan) ==
  /\ n \in nodes
  /\ ready[n]
  /\ Fits(n, plan)
  /\ allocs[a] = NoAlloc
  /\ used' = [used EXCEPT ![n] = Plus(@, plan)]
  /\ allocs' = [allocs EXCEPT ![a] = [project |-> p, node |-> n,
                                      size |-> plan, state |-> "reserved"]]
  /\ UNCHANGED <<nodes, ready, allocatable>>

ActivateAllocation_Revives(a) ==
  /\ allocs[a] # NoAlloc
  /\ allocs' = [allocs EXCEPT ![a].state = "active"]
  /\ UNCHANGED <<nodes, ready, allocatable, used>>

ActivateAllocation(a) ==
  /\ IsLive(allocs[a])
  /\ allocs' = [allocs EXCEPT ![a].state = "active"]
  /\ UNCHANGED <<nodes, ready, allocatable, used>>

ReleaseAllocation_NotIdempotent(a) ==
  /\ allocs[a] # NoAlloc
  /\ used' = [used EXCEPT ![allocs[a].node] =
                            Clamp(Minus(@, allocs[a].size))]
  /\ allocs' = [allocs EXCEPT ![a].state = "released"]
  /\ UNCHANGED <<nodes, ready, allocatable>>

ReleaseAllocation_Unclamped(a) ==
  /\ allocs[a] # NoAlloc
  /\ used' = [used EXCEPT ![allocs[a].node] = Minus(@, allocs[a].size)]
  /\ allocs' = [allocs EXCEPT ![a].state = "released"]
  /\ UNCHANGED <<nodes, ready, allocatable>>

\* Give the allocation back; its row stays, with its size.  Releasing a
\* released allocation succeeds and changes nothing.
ReleaseAllocation(a) ==
  /\ IsLive(allocs[a])
  /\ used' = IF allocs[a].node \in nodes
             THEN [used EXCEPT ![allocs[a].node] =
                                 Clamp(Minus(@, allocs[a].size))]
             ELSE used
  /\ allocs' = [allocs EXCEPT ![a].state = "released"]
  /\ UNCHANGED <<nodes, ready, allocatable>>

\* Grow or shrink by d.  Only the growing components are checked against
\* what is free; counters and sizes stop at 0.
ExpandAllocation(a, d) ==
  /\ IsLive(allocs[a])
  /\ allocs[a].node \in nodes
  /\ LET n == allocs[a].node IN
       /\ \A r \in Resources :
            d[r] > 0 => allocatable[n][r] - used[n][r] >= d[r]
       /\ used' = [used EXCEPT ![n] = Clamp(Plus(@, d))]
  /\ allocs' = [allocs EXCEPT ![a].size = Clamp(Plus(@, d))]
  /\ UNCHANGED <<nodes, ready, allocatable>>

DeleteNode_IgnoresReserved(n) ==
  /\ n \in nodes
  /\ \A a \in LiveOn(allocs, n) : allocs[a].state # "active"
  /\ nodes' = nodes \ {n}
  /\ allocs' = [a \in AllocIds |->
                  IF allocs[a] # NoAlloc /\ allocs[a].node = n
                     /\ allocs[a].state = "released"
                  THEN NoAlloc ELSE allocs[a]]
  /\ UNCHANGED <<ready, allocatable, used>>

\* Refused while a live allocation names the node; takes the released rows
\* of the node with it.
DeleteNode(n) ==
  /\ n \in nodes
  /\ LiveOn(allocs, n) = {}
  /\ nodes' = nodes \ {n}
  /\ allocs' = [a \in AllocIds |->
                  IF allocs[a] # NoAlloc /\ allocs[a].node = n
                  THEN NoAlloc ELSE allocs[a]]
  /\ UNCHANGED <<ready, allocatable, used>>

\* Postgres drops the node's released rows first, in a statement of its own,
\* and may then refuse to delete the node.
PurgeReleased(n) ==
  /\ allocs' = [a \in AllocIds |->
                  IF allocs[a] # NoAlloc /\ allocs[a].node = n
                     /\ allocs[a].state = "released"
                  THEN NoAlloc ELSE allocs[a]]
  /\ UNCHANGED <<nodes, ready, allocatable, used>>

\* Drops every allocation row of the project, live ones included, and
\* leaves the nodes' used counters as they are.
DeleteProject(p) ==
  /\ allocs' = [a \in AllocIds |->
                  IF allocs[a] # NoAlloc /\ allocs[a].project = p
                  THEN NoAlloc ELSE allocs[a]]
  /\ UNCHANGED <<nodes, ready, allocatable, used>>

\* What the ledger asks of whoever shrinks an allocation: never below 0.
\* Module Resize checks which callers keep to it.
ShrinkWithinSize(a, d) ==
  allocs[a] # NoAlloc => \A r \in Resources : allocs[a].size[r] + d[r] >= 0

ResizeWithinSize(a, d) == ShrinkWithinSize(a, d) /\ ExpandAllocation(a, d)

\* Every call but the reservations, from whatever part of the program.
OtherCalls ==
  \/ \E n \in Nodes, cap \in Capacities, up \in BOOLEAN, charged \in Charges :
       UpsertNode(n, cap, up, charged)
  \/ \E a \in AllocIds : ActivateAllocation(a)
  \/ \E a \in AllocIds : ReleaseAllocation(a)
  \/ \E a \in AllocIds, d \in Deltas : ResizeWithinSize(a, d)
  \/ \E n \in Nodes : PurgeReleased(n)
  \/ \E n \in Nodes : DeleteNode(n)
  \/ \E p \in Projects : DeleteProject(p)

StoreNext ==
  \/ \E n \in Nodes, a \in AllocIds, p \in Projects, plan \in Plans :
       ReserveOnNode(n, a, p, plan)
  \/ OtherCalls

StoreSpec == Init /\ [][StoreNext]_storeVars

----------------------------------------------------------------------------
(* Properties.                                                             *)

\* The shape of the two tables.
TypeOK ==
  /\ nodes \subseteq Nodes
  /\ ready \in [Nodes -> BOOLEAN]
  /\ allocatable \in [Nodes -> Vector]
  /\ used \in [Nodes -> Vector]
  /\ allocs \in [AllocIds -> Allocation \cup {NoAlloc}]

\* A live allocation never names a node that has been deleted: the conflict
\* check of DeleteNode sees reservations as well as running workspaces.
LiveOnRegistered ==
  \A a \in AllocIds : IsLive(allocs[a]) => allocs[a].node \in nodes

\* A node is never charged less than its live allocations add up to, so the
\* free capacity Reserve computes is never larger than the real one.
UsedCoversLive ==
  \A n \in nodes, r \in Resources : used[n][r] >= Charged(n, r)

\* What the rows mean to those who hold them: the offers of the nodes, and of
\* every live allocation its node and size.
Held(m) == [a \in {b \in AllocIds : IsLive(m[b])} |-> [node |-> m[a].node, size |-> m[a].size]]

Pool == INSTANCE ResourcePool WITH offer <- allocatable, held <- Held(allocs)

\* The store is a resource pool: however reservations, resizes, releases and
\* deletions interleave, and although it compares with its counters and never
\* adds up the rows, whoever gets more of a node gets it beside all that is
\* really bound there, and nobody loses or changes what another one touches.
ImplementsPool == Pool!Spec

\* No step binds more of a node to live allocations unless the result fits
\* what the node offers: concurrent reservations and resizes cannot oversell
\* (a heartbeat may still lower the offer under what is already bound).
NoOversell ==
  [][\A n \in Nodes, r \in Resources :
       Charged(n, r)' > Charged(n, r) =>
         Charged(n, r)' <= allocatable'[n][r]]_storeVars

\* What a node's counter holds beyond its live rows; a node that has no row
\* has none of it.
Excess(n, r) == IF n \in nodes THEN used[n][r] - Charged(n, r) ELSE 0

\* The counters and the rows move together, also where a node gets its row:
\* no retry, double release, clamp or deletion of a node makes them drift.
\* Only two steps do: the deletion of a project, which drops live rows and
\* leaves the counters, and the health ticker bringing back a node deleted
\* under it, with the counters it had read.
DriftHasTwoSources ==
  [][\/ \E p \in Projects : DeleteProject(p)
     \/ \A n \in nodes', r \in Resources :
          \/ Excess(n, r)' = Excess(n, r)
          \/ n \notin nodes /\ used'[n] \in Charges \ {ZeroVector}]_storeVars

\* Once released an allocation stays released, with the size it had, until
\* its row is dropped: neither activation nor a resize brings it back.
ReleasedIsFinal ==
  [][\A a \in AllocIds :
       allocs[a] # NoAlloc /\ allocs[a].state = "released" =>
         allocs'[a] \in {allocs[a], NoAlloc}]_storeVars
=============================================================================
