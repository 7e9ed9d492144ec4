------------------------- MODULE LedgerStore_proofs -------------------------
(***************************************************************************)
(* Proofs about LedgerStore for every set of nodes, projects, plans,       *)
(* capacities and resizes.  The first part is about the table of           *)
(* allocations alone: what replacing one row does to the number of units   *)
(* charged to a node.  The second part is the inductive invariant, the     *)
(* third the action properties that follow from it.                        *)
(***************************************************************************)
EXTENDS LedgerStore, FiniteSetTheorems, TLAPS

Tables == [AllocIds -> Allocation \cup {NoAlloc}]

\* The units one row binds on node n.
OwnUnits(a, row, n, r) ==
  IF IsLive(row) /\ row.node = n THEN {a} \X (1 .. row.size[r]) ELSE {}

Own(row, n, r) == IF IsLive(row) /\ row.node = n THEN row.size[r] ELSE 0

----------------------------------------------------------------------------
(* The units charged to a node.                                            *)

\* The units of a size are as many as the size says.
LEMMA UnitsOfSize ==
  ASSUME NEW k \in Nat
  PROVE  IsFiniteSet(1 .. k) /\ Cardinality(1 .. k) = k
<1>1. /\ IsFiniteSet(1 .. k)
      /\ Cardinality(1 .. k) = IF 1 > k THEN 0 ELSE k - 1 + 1
  BY FS_Interval, 1 \in Int, k \in Int
<1> QED BY <1>1

\* Two disjoint finite sets have as many members as both together.
LEMMA DisjointUnion ==
  ASSUME NEW S, NEW T, IsFiniteSet(S), IsFiniteSet(T), S \cap T = {}
  PROVE  /\ Cardinality(S) \in Nat
         /\ Cardinality(S \cup T) = Cardinality(S) + Cardinality(T)
<1>1. Cardinality(S \cup T) =
        Cardinality(S) + Cardinality(T) - Cardinality(S \cap T)
  BY FS_Union
<1>2. Cardinality(S \cap T) = 0
  BY FS_EmptySet
<1>3. Cardinality(S) \in Nat /\ Cardinality(T) \in Nat
  BY FS_CardinalityType
<1> QED BY <1>1, <1>2, <1>3

\* A node is charged finitely many units.
LEMMA UnitsFinite ==
  ASSUME NEW m \in Tables, NEW n, NEW r \in Resources
  PROVE  IsFiniteSet(Units(m, n, r))
<1> DEFINE A == LiveOn(m, n)
           f == [a \in A |-> {a} \X (1 .. m[a].size[r])]
           T == {{a} \X (1 .. m[a].size[r]) : a \in A}
<1>1. IsFiniteSet(A)
  BY FS_Subset, AllocIdsFinite DEF LiveOn
<1>2. f \in Surjection(A, T)
  BY DEF Surjection
<1>3. IsFiniteSet(T)
  BY <1>1, <1>2, FS_Surjection
<1>4. ASSUME NEW a \in A PROVE IsFiniteSet({a} \X (1 .. m[a].size[r]))
  <2>1. m[a].size[r] \in Nat
    BY DEF LiveOn, IsLive, Tables, Allocation, Vector
  <2>2. IsFiniteSet(1 .. m[a].size[r])
    BY <2>1, UnitsOfSize
  <2>3. IsFiniteSet({a})
    BY FS_Singleton
  <2> QED BY <2>2, <2>3, FS_Product
<1>5. \A t \in T : IsFiniteSet(t)
  BY <1>4
<1>6. IsFiniteSet(UNION T)
  BY <1>3, <1>5, FS_UNION
<1> QED BY <1>6 DEF Units

\* A row binds as many units as its size says.
LEMMA OwnCardinality ==
  ASSUME NEW a \in AllocIds, NEW row \in Allocation \cup {NoAlloc},
         NEW n, NEW r \in Resources
  PROVE  /\ Own(row, n, r) \in Nat
         /\ IsFiniteSet(OwnUnits(a, row, n, r))
         /\ Cardinality(OwnUnits(a, row, n, r)) = Own(row, n, r)
<1>1. CASE IsLive(row) /\ row.node = n
  <2>1. row.size[r] \in Nat
    BY <1>1 DEF IsLive, Allocation, Vector
  <2>2. /\ IsFiniteSet(1 .. row.size[r])
        /\ Cardinality(1 .. row.size[r]) = row.size[r]
    BY <2>1, UnitsOfSize
  <2>3. IsFiniteSet({a}) /\ Cardinality({a}) = 1
    BY FS_Singleton
  <2>4. /\ IsFiniteSet({a} \X (1 .. row.size[r]))
        /\ Cardinality({a} \X (1 .. row.size[r])) = 1 * row.size[r]
    BY <2>2, <2>3, FS_Product
  <2> QED BY <1>1, <2>1, <2>4 DEF Own, OwnUnits
<1>2. CASE ~(IsLive(row) /\ row.node = n)
  BY <1>2, FS_EmptySet DEF Own, OwnUnits
<1> QED BY <1>1, <1>2

\* Dropping a row takes exactly its own units off the node's charge.
LEMMA ChargeWithoutRow ==
  ASSUME NEW m \in Tables, NEW a \in AllocIds, NEW n, NEW r \in Resources
  PROVE  Cardinality(Units(m, n, r)) =
           Cardinality(Units([m EXCEPT ![a] = NoAlloc], n, r))
             + Own(m[a], n, r)
<1> DEFINE m0 == [m EXCEPT ![a] = NoAlloc]
           U  == Units(m, n, r)
           U0 == Units(m0, n, r)
           O  == OwnUnits(a, m[a], n, r)
<1>1. m0 \in Tables /\ m[a] \in Allocation \cup {NoAlloc}
  BY DEF Tables
<1>2. U = U0 \cup O
  BY DEF Units, LiveOn, OwnUnits, IsLive, Tables
<1>3. U0 \cap O = {}
  BY DEF Units, LiveOn, OwnUnits, IsLive, Tables
<1>4. IsFiniteSet(U0)
  BY <1>1, UnitsFinite
<1>5. IsFiniteSet(O) /\ Cardinality(O) = Own(m[a], n, r)
      /\ Own(m[a], n, r) \in Nat
  BY <1>1, OwnCardinality
<1> HIDE DEF U, U0, O
<1>6. Cardinality(U) = Cardinality(U0) + Own(m[a], n, r)
  BY <1>2, <1>3, <1>4, <1>5, DisjointUnion
<1> QED BY <1>6 DEF U, U0

\* Replacing row a by another moves the charge by the difference of the two.
LEMMA ChargeOfUpdate ==
  ASSUME NEW m \in Tables, NEW a \in AllocIds,
         NEW row \in Allocation \cup {NoAlloc}, NEW n, NEW r \in Resources
  PROVE  /\ Cardinality(Units(m, n, r)) \in Nat
         /\ Cardinality(Units([m EXCEPT ![a] = row], n, r)) =
              Cardinality(Units(m, n, r)) - Own(m[a], n, r) + Own(row, n, r)
         /\ Own(m[a], n, r) \in Nat
         /\ Own(m[a], n, r) <= Cardinality(Units(m, n, r))
<1> DEFINE m1 == [m EXCEPT ![a] = row]
           m0 == [m EXCEPT ![a] = NoAlloc]
<1>1. m1 \in Tables /\ m0 \in Tables /\ m1[a] = row
      /\ m[a] \in Allocation \cup {NoAlloc}
  BY DEF Tables
<1>2. [m1 EXCEPT ![a] = NoAlloc] = m0
  BY DEF Tables
<1>. HIDE DEF m1, m0
<1>3. \A t \in Tables :
        Cardinality(Units(t, n, r)) =
          Cardinality(Units([t EXCEPT ![a] = NoAlloc], n, r)) + Own(t[a], n, r)
  BY ChargeWithoutRow
<1>4. /\ Cardinality(Units(m, n, r)) =
           Cardinality(Units(m0, n, r)) + Own(m[a], n, r)
      /\ Cardinality(Units(m1, n, r)) =
           Cardinality(Units(m0, n, r)) + Own(m1[a], n, r)
  BY <1>1, <1>2, <1>3 DEF m0
<1>5. Cardinality(Units(m, n, r)) \in Nat /\ Cardinality(Units(m0, n, r)) \in Nat
  BY <1>1, UnitsFinite, FS_CardinalityType
<1>6. Own(m[a], n, r) \in Nat /\ Own(row, n, r) \in Nat
  BY <1>1, OwnCardinality
<1> QED BY <1>1, <1>4, <1>5, <1>6 DEF m1

\* Dropping any number of rows never raises a charge.
LEMMA ChargeOfDeletion ==
  ASSUME NEW m1 \in Tables, NEW m2 \in Tables, NEW n, NEW r \in Resources,
         \A a \in AllocIds : m2[a] \in {m1[a], NoAlloc}
  PROVE  /\ Cardinality(Units(m1, n, r)) \in Nat
         /\ Cardinality(Units(m2, n, r)) \in Nat
         /\ Cardinality(Units(m2, n, r)) <= Cardinality(Units(m1, n, r))
<1>1. Units(m2, n, r) \subseteq Units(m1, n, r)
  BY DEF Units, LiveOn, IsLive
<1>2. IsFiniteSet(Units(m1, n, r)) /\ IsFiniteSet(Units(m2, n, r))
  BY UnitsFinite
<1> QED BY <1>1, <1>2, FS_Subset, FS_CardinalityType

----------------------------------------------------------------------------
(* Type correctness.                                                       *)

\* Counters and sizes stay natural numbers under the arithmetic of the store.
LEMMA VectorArithmetic ==
  ASSUME NEW v \in Vector, NEW w \in [Resources -> Int]
  PROVE  /\ Clamp(Plus(v, w)) \in Vector
         /\ Clamp(Minus(v, w)) \in Vector
         /\ w \in Vector => Plus(v, w) \in Vector
         /\ \A r \in Resources :
              /\ Plus(v, w)[r] = v[r] + w[r]
              /\ v[r] + w[r] >= 0 => Clamp(Plus(v, w))[r] = v[r] + w[r]
              /\ v[r] - w[r] >= 0 => Clamp(Minus(v, w))[r] = v[r] - w[r]
BY DEF Clamp, Plus, Minus, Vector

\* A resize by any difference does, however much it takes away.
LEMMA ExpandType ==
  ASSUME TypeOK, NEW a \in AllocIds, NEW d \in Deltas, ExpandAllocation(a, d)
  PROVE  TypeOK'
<1> USE DEF TypeOK
<1>1. allocs[a] \in Allocation
  BY DEF ExpandAllocation, IsLive
<1>2. /\ allocs[a].node \in Nodes
      /\ allocs[a].size \in Vector
      /\ d \in [Resources -> Int]
  BY <1>1, InputTypes DEF Allocation
<1>3. /\ Clamp(Plus(used[allocs[a].node], d)) \in Vector
      /\ Clamp(Plus(allocs[a].size, d)) \in Vector
  BY <1>2, VectorArithmetic
<1>4. used' \in [Nodes -> Vector]
  BY <1>2, <1>3 DEF ExpandAllocation
<1>5. [allocs[a] EXCEPT !.size = Clamp(Plus(allocs[a].size, d))] \in Allocation
  BY <1>1, <1>3 DEF Allocation
<1>6. allocs' \in [AllocIds -> Allocation \cup {NoAlloc}]
  BY <1>5 DEF ExpandAllocation
<1> QED BY <1>4, <1>6 DEF ExpandAllocation

\* Every store call leaves two well-formed tables behind.
LEMMA TypeStep == TypeOK /\ [StoreNext]_storeVars => TypeOK'
<1> SUFFICES ASSUME TypeOK, [StoreNext]_storeVars PROVE TypeOK'
  OBVIOUS
<1> USE DEF TypeOK
<1>2. ASSUME NEW n \in Nodes, NEW cap \in Capacities, NEW up \in BOOLEAN,
             NEW charged \in Charges, UpsertNode(n, cap, up, charged)
      PROVE  TypeOK'
  BY <1>2, InputTypes DEF UpsertNode
<1>3. ASSUME NEW n \in Nodes, NEW a \in AllocIds, NEW p \in Projects,
             NEW plan \in Plans, ReserveOnNode(n, a, p, plan)
      PROVE  TypeOK'
  <2>1. plan \in Vector /\ plan \in [Resources -> Int]
    BY InputTypes DEF Vector
  <2>2. used[n] \in Vector
    OBVIOUS
  <2>3. Plus(used[n], plan) \in Vector
    BY <2>1, <2>2, VectorArithmetic
  <2>4. used' \in [Nodes -> Vector]
    BY <1>3, <2>3 DEF ReserveOnNode
  <2>5. [project |-> p, node |-> n, size |-> plan, state |-> "reserved"]
          \in Allocation
    BY <2>1 DEF Allocation, AllocStates
  <2> QED BY <1>3, <2>4, <2>5 DEF ReserveOnNode
<1>4. ASSUME NEW a \in AllocIds, ActivateAllocation(a) PROVE TypeOK'
  <2>1. [allocs[a] EXCEPT !.state = "active"] \in Allocation
    BY <1>4 DEF ActivateAllocation, IsLive, Allocation, AllocStates
  <2> QED BY <1>4, <2>1 DEF ActivateAllocation
<1>5. ASSUME NEW a \in AllocIds, ReleaseAllocation(a) PROVE TypeOK'
  <2>1. allocs[a] \in Allocation
    BY <1>5 DEF ReleaseAllocation, IsLive
  <2>2. /\ allocs[a].node \in Nodes
        /\ allocs[a].size \in [Resources -> Int]
        /\ [allocs[a] EXCEPT !.state = "released"] \in Allocation
    BY <2>1 DEF Allocation, AllocStates, Vector
  <2>3. Clamp(Minus(used[allocs[a].node], allocs[a].size)) \in Vector
    BY <2>2, VectorArithmetic
  <2>4. used' \in [Nodes -> Vector]
    BY <1>5, <2>2, <2>3 DEF ReleaseAllocation
  <2>5. allocs' \in [AllocIds -> Allocation \cup {NoAlloc}]
    BY <1>5, <2>2 DEF ReleaseAllocation
  <2> QED BY <1>5, <2>4, <2>5 DEF ReleaseAllocation
<1>6. ASSUME NEW a \in AllocIds, NEW d \in Deltas, ExpandAllocation(a, d)
      PROVE  TypeOK'
  BY <1>6, ExpandType
<1>7. ASSUME NEW n \in Nodes, DeleteNode(n) PROVE TypeOK'
  BY <1>7 DEF DeleteNode
<1>8. ASSUME NEW p \in Projects, DeleteProject(p) PROVE TypeOK'
  BY <1>8 DEF DeleteProject
<1>9. ASSUME NEW n \in Nodes, PurgeReleased(n) PROVE TypeOK'
  BY <1>9 DEF PurgeReleased
<1>10. CASE UNCHANGED storeVars
  BY <1>10 DEF storeVars
<1> QED
  BY <1>2, <1>3, <1>4, <1>5, <1>6, <1>7, <1>8, <1>9, <1>10
     DEF StoreNext, OtherCalls, ResizeWithinSize

\* The tables keep their shape in every state the store can reach.
THEOREM TypeCorrect == StoreSpec => []TypeOK
<1>1. Init => TypeOK
  BY DEF Init, TypeOK, ZeroVector, Vector
<1>2. TypeOK /\ [StoreNext]_storeVars => TypeOK'
  BY TypeStep
<1> QED BY <1>1, <1>2, PTL DEF StoreSpec

----------------------------------------------------------------------------
(* What each call does to the counters and to the sum of the live rows.    *)

IInv == TypeOK /\ LiveOnRegistered /\ UsedCoversLive

\* The state and its table as the lemmas above want them.
LEMMA ChargedType ==
  ASSUME TypeOK, NEW n \in Nodes, NEW r \in Resources
  PROVE  /\ allocs \in Tables
         /\ Charged(n, r) \in Nat
         /\ used[n][r] \in Nat
         /\ allocatable[n][r] \in Nat
<1>1. allocs \in Tables
  BY DEF TypeOK, Tables
<1>2. Charged(n, r) \in Nat
  BY <1>1, UnitsFinite, FS_CardinalityType DEF Charged
<1> QED BY <1>1, <1>2 DEF TypeOK, Vector

\* Rewriting one row of the table moves the sum of a node's live rows by the
\* difference of the two rows.
LEMMA ChargedUpdate ==
  ASSUME TypeOK, NEW a \in AllocIds, NEW row \in Allocation \cup {NoAlloc},
         allocs' = [allocs EXCEPT ![a] = row],
         NEW n \in Nodes, NEW r \in Resources
  PROVE  /\ Charged(n, r)' = Charged(n, r) - Own(allocs[a], n, r) + Own(row, n, r)
         /\ Own(allocs[a], n, r) \in Nat
         /\ Own(allocs[a], n, r) <= Charged(n, r)
<1>1. allocs \in Tables
  BY ChargedType
<1>2. \A m \in Tables :
        /\ Cardinality(Units([m EXCEPT ![a] = row], n, r)) =
             Cardinality(Units(m, n, r)) - Own(m[a], n, r) + Own(row, n, r)
        /\ Own(m[a], n, r) \in Nat
        /\ Own(m[a], n, r) <= Cardinality(Units(m, n, r))
  BY ChargeOfUpdate
<1>3. Charged(n, r)' = Cardinality(Units([allocs EXCEPT ![a] = row], n, r))
  BY DEF Charged
<1> QED BY <1>1, <1>2, <1>3 DEF Charged

\* A node without a row has nothing live on it, hence no charge.
LEMMA UnregisteredUncharged ==
  ASSUME LiveOnRegistered, NEW n, n \notin nodes, NEW r
  PROVE  Charged(n, r) = 0
<1>1. LiveOn(allocs, n) = {}
  BY DEF LiveOnRegistered, LiveOn
<1>2. Units(allocs, n, r) = {}
  BY <1>1 DEF Units
<1> QED BY <1>2, FS_EmptySet DEF Charged

\* A reservation adds the plan to the node it picked, in both books.
LEMMA ReserveCharge ==
  ASSUME TypeOK, NEW n \in Nodes, NEW a \in AllocIds, NEW p \in Projects,
         NEW plan \in Plans, ReserveOnNode(n, a, p, plan),
         NEW k \in Nodes, NEW r \in Resources
  PROVE  /\ Charged(k, r)' = Charged(k, r) + (IF k = n THEN plan[r] ELSE 0)
         /\ used'[k][r] = used[k][r] + (IF k = n THEN plan[r] ELSE 0)
         /\ plan[r] \in Nat
<1> DEFINE row == [project |-> p, node |-> n, size |-> plan, state |-> "reserved"]
<1>1. plan \in Vector /\ plan \in [Resources -> Int] /\ used[n] \in Vector
  BY InputTypes DEF TypeOK, Vector
<1>2. row \in Allocation
  BY <1>1 DEF Allocation, AllocStates
<1>3. allocs[a] = NoAlloc /\ allocs' = [allocs EXCEPT ![a] = row]
  BY DEF ReserveOnNode
<1>4. Own(allocs[a], k, r) = 0
  BY <1>3 DEF Own, IsLive
<1>5. Own(row, k, r) = IF k = n THEN plan[r] ELSE 0
  BY <1>2, NoAllocIsNoRow DEF Own, IsLive
<1> HIDE DEF row
<1>6. Charged(k, r)' = Charged(k, r) - 0 + Own(row, k, r)
  BY <1>2, <1>3, <1>4, ChargedUpdate
<1>7. Charged(k, r) \in Nat /\ used[k][r] \in Nat /\ plan[r] \in Nat
  BY <1>1, ChargedType DEF Vector
<1>8. Plus(used[n], plan)[r] = used[n][r] + plan[r]
  BY <1>1, VectorArithmetic
<1>9. used'[k][r] = used[k][r] + (IF k = n THEN plan[r] ELSE 0)
  BY <1>7, <1>8 DEF ReserveOnNode, TypeOK
<1> QED BY <1>5, <1>6, <1>7, <1>9

\* Activation moves no units.
LEMMA ActivateCharge ==
  ASSUME TypeOK, NEW a \in AllocIds, ActivateAllocation(a),
         NEW k \in Nodes, NEW r \in Resources
  PROVE  Charged(k, r)' = Charged(k, r) /\ used' = used
<1> DEFINE row == [allocs[a] EXCEPT !.state = "active"]
<1>1. IsLive(allocs[a]) /\ allocs[a] \in Allocation
  BY DEF ActivateAllocation, IsLive, TypeOK
<1>2. row \in Allocation /\ IsLive(row)
      /\ row.node = allocs[a].node /\ row.size = allocs[a].size
  BY <1>1, NoAllocIsNoRow DEF Allocation, AllocStates, IsLive
<1>3. allocs' = [allocs EXCEPT ![a] = row]
  BY DEF ActivateAllocation
<1>4. Own(row, k, r) = Own(allocs[a], k, r)
  BY <1>1, <1>2 DEF Own
<1> HIDE DEF row
<1>5. /\ Charged(k, r)' =
           Charged(k, r) - Own(allocs[a], k, r) + Own(row, k, r)
      /\ Own(allocs[a], k, r) \in Nat
  BY <1>2, <1>3, ChargedUpdate
<1>6. Charged(k, r) \in Nat
  BY ChargedType
<1> QED BY <1>4, <1>5, <1>6 DEF ActivateAllocation

\* A release takes the size of the row off its node, in both books: the
\* clamp at 0 never bites because the counter covers the live rows.
LEMMA ReleaseCharge ==
  ASSUME IInv, NEW a \in AllocIds, ReleaseAllocation(a),
         NEW k \in Nodes, NEW r \in Resources
  PROVE  /\ Charged(k, r)' =
              Charged(k, r) - (IF k = allocs[a].node THEN allocs[a].size[r] ELSE 0)
         /\ used'[k][r] =
              used[k][r] - (IF k = allocs[a].node THEN allocs[a].size[r] ELSE 0)
         /\ allocs[a].size[r] \in Nat
<1> USE DEF IInv
<1> DEFINE row == [allocs[a] EXCEPT !.state = "released"]
           n   == allocs[a].node
<1>1. IsLive(allocs[a]) /\ allocs[a] \in Allocation
  BY DEF ReleaseAllocation, IsLive, TypeOK
<1>2. /\ n \in nodes /\ n \in Nodes
      /\ allocs[a].size \in Vector /\ allocs[a].size \in [Resources -> Int]
      /\ used[n] \in Vector /\ allocs[a].size[r] \in Nat
  BY <1>1 DEF LiveOnRegistered, Allocation, Vector, TypeOK
<1>3. row \in Allocation /\ ~IsLive(row)
  BY <1>1 DEF Allocation, AllocStates, IsLive
<1>4. allocs' = [allocs EXCEPT ![a] = row]
  BY DEF ReleaseAllocation
<1>5. /\ Own(row, k, r) = 0
      /\ Own(allocs[a], k, r) = IF k = n THEN allocs[a].size[r] ELSE 0
  BY <1>1, <1>3 DEF Own
<1> HIDE DEF row
<1>6. /\ Charged(k, r)' = Charged(k, r) - Own(allocs[a], k, r) + 0
      /\ Own(allocs[a], k, r) <= Charged(k, r)
      /\ Charged(k, r) \in Nat /\ used[k][r] \in Nat
  BY <1>3, <1>4, <1>5, ChargedUpdate, ChargedType
<1>7. k = n => used[n][r] - allocs[a].size[r] >= 0
  BY <1>2, <1>5, <1>6 DEF UsedCoversLive
<1>8. k = n => Clamp(Minus(used[n], allocs[a].size))[r] =
                 used[n][r] - allocs[a].size[r]
  BY <1>2, <1>7, VectorArithmetic
<1>9. used'[k][r] = used[k][r] - (IF k = n THEN allocs[a].size[r] ELSE 0)
  BY <1>2, <1>6, <1>8 DEF ReleaseAllocation, TypeOK
<1> QED BY <1>2, <1>5, <1>6, <1>9

\* A resize within the size of the row moves the same amount in both books.
LEMMA ResizeCharge ==
  ASSUME IInv, NEW a \in AllocIds, NEW d \in Deltas, ResizeWithinSize(a, d),
         NEW k \in Nodes, NEW r \in Resources
  PROVE  /\ Charged(k, r)' =
              Charged(k, r) + (IF k = allocs[a].node THEN d[r] ELSE 0)
         /\ used'[k][r] =
              used[k][r] + (IF k = allocs[a].node THEN d[r] ELSE 0)
         /\ d[r] \in Int
<1> USE DEF IInv
<1> DEFINE n   == allocs[a].node
           row == [allocs[a] EXCEPT !.size = Clamp(Plus(allocs[a].size, d))]
<1>1. IsLive(allocs[a]) /\ allocs[a] \in Allocation
      /\ allocs[a].size[r] + d[r] >= 0
  BY DEF ResizeWithinSize, ShrinkWithinSize, ExpandAllocation, IsLive, TypeOK
<1>2. /\ n \in nodes /\ n \in Nodes
      /\ allocs[a].size \in Vector /\ d \in [Resources -> Int]
      /\ used[n] \in Vector /\ allocs[a].size[r] \in Nat /\ d[r] \in Int
  BY <1>1, InputTypes DEF LiveOnRegistered, Allocation, Vector, TypeOK
<1>3. /\ Clamp(Plus(allocs[a].size, d)) \in Vector
      /\ Clamp(Plus(allocs[a].size, d))[r] = allocs[a].size[r] + d[r]
  BY <1>1, <1>2, VectorArithmetic
<1>4. /\ row \in Allocation
      /\ IsLive(row) /\ row.node = n /\ row.size[r] = allocs[a].size[r] + d[r]
  BY <1>1, <1>3, NoAllocIsNoRow DEF Allocation, IsLive
<1>5. allocs' = [allocs EXCEPT ![a] = row]
  BY DEF ResizeWithinSize, ExpandAllocation
<1>6. /\ Own(row, k, r) = IF k = n THEN allocs[a].size[r] + d[r] ELSE 0
      /\ Own(allocs[a], k, r) = IF k = n THEN allocs[a].size[r] ELSE 0
  BY <1>1, <1>4 DEF Own
<1> HIDE DEF row
<1>7. /\ Charged(k, r)' = Charged(k, r) - Own(allocs[a], k, r) + Own(row, k, r)
      /\ Own(allocs[a], k, r) <= Charged(k, r)
      /\ Charged(k, r) \in Nat /\ used[k][r] \in Nat
  BY <1>4, <1>5, ChargedUpdate, ChargedType
<1>8. k = n => used[n][r] + d[r] >= 0
  BY <1>1, <1>2, <1>6, <1>7 DEF UsedCoversLive
<1>9. k = n => Clamp(Plus(used[n], d))[r] = used[n][r] + d[r]
  BY <1>2, <1>8, VectorArithmetic
<1>10. used'[k][r] = used[k][r] + (IF k = n THEN d[r] ELSE 0)
  BY <1>2, <1>7, <1>9 DEF ResizeWithinSize, ExpandAllocation, TypeOK
<1> QED BY <1>2, <1>6, <1>7, <1>10

\* Deleting a node or a project never raises a charge; deleting a node or
\* purging it leaves every charge alone, for only released rows go.
LEMMA DeletionCharge ==
  ASSUME TypeOK,
         \/ \E n \in Nodes : DeleteNode(n) \/ PurgeReleased(n)
         \/ \E p \in Projects : DeleteProject(p),
         NEW k \in Nodes, NEW r \in Resources
  PROVE  /\ Charged(k, r)' <= Charged(k, r)
         /\ used' = used
         /\ (\E n \in Nodes : DeleteNode(n) \/ PurgeReleased(n)) =>
              Charged(k, r)' = Charged(k, r)
<1>1. allocs \in Tables /\ allocs' \in Tables
  BY DEF DeleteNode, PurgeReleased, DeleteProject, TypeOK, Tables
<1>2. \A a \in AllocIds : allocs'[a] \in {allocs[a], NoAlloc}
  BY DEF DeleteNode, PurgeReleased, DeleteProject
<1>3. Cardinality(Units(allocs', k, r)) <= Cardinality(Units(allocs, k, r))
  <2>1. \A m1, m2 \in Tables :
          (\A a \in AllocIds : m2[a] \in {m1[a], NoAlloc}) =>
            Cardinality(Units(m2, k, r)) <= Cardinality(Units(m1, k, r))
    BY ChargeOfDeletion
  <2> QED BY <1>1, <1>2, <2>1
<1>4. ASSUME NEW n \in Nodes, DeleteNode(n) \/ PurgeReleased(n)
      PROVE  Units(allocs', k, r) = Units(allocs, k, r)
  BY <1>4 DEF DeleteNode, PurgeReleased, Units, LiveOn, IsLive
<1> QED BY <1>3, <1>4 DEF Charged, DeleteNode, PurgeReleased, DeleteProject

\* While the invariant holds every call but the deletion of a project moves
\* the two books of a registered node by the same amount.
LEMMA BooksMoveTogether ==
  ASSUME IInv, [StoreNext]_storeVars,
         ~ \E p \in Projects : DeleteProject(p),
         NEW k \in nodes \cap nodes', NEW r \in Resources
  PROVE  used'[k][r] - used[k][r] = Charged(k, r)' - Charged(k, r)
<1> USE DEF IInv
<1>1. k \in Nodes /\ Charged(k, r) \in Nat /\ used[k][r] \in Nat
  BY ChargedType DEF TypeOK
<1>2. ASSUME NEW n \in Nodes, NEW cap \in Capacities, NEW up \in BOOLEAN,
             NEW charged \in Charges, UpsertNode(n, cap, up, charged)
      PROVE  used'[k][r] = used[k][r] /\ Charged(k, r)' = Charged(k, r)
  BY <1>1, <1>2 DEF UpsertNode, Charged, TypeOK
<1>3. ASSUME NEW n \in Nodes, NEW a \in AllocIds, NEW p \in Projects,
             NEW plan \in Plans, ReserveOnNode(n, a, p, plan)
      PROVE  used'[k][r] - used[k][r] = Charged(k, r)' - Charged(k, r)
  BY <1>1, <1>3, ReserveCharge
<1>4. ASSUME NEW a \in AllocIds, ActivateAllocation(a)
      PROVE  used'[k][r] = used[k][r] /\ Charged(k, r)' = Charged(k, r)
  BY <1>1, <1>4, ActivateCharge
<1>5. ASSUME NEW a \in AllocIds, ReleaseAllocation(a)
      PROVE  used'[k][r] - used[k][r] = Charged(k, r)' - Charged(k, r)
  BY <1>1, <1>5, ReleaseCharge
<1>6. ASSUME NEW a \in AllocIds, NEW d \in Deltas, ResizeWithinSize(a, d)
      PROVE  used'[k][r] - used[k][r] = Charged(k, r)' - Charged(k, r)
  BY <1>1, <1>6, ResizeCharge
<1>7. ASSUME NEW n \in Nodes, DeleteNode(n) \/ PurgeReleased(n)
      PROVE  used'[k][r] = used[k][r] /\ Charged(k, r)' = Charged(k, r)
  BY <1>1, <1>7, DeletionCharge
<1>8. ASSUME UNCHANGED storeVars
      PROVE  used'[k][r] = used[k][r] /\ Charged(k, r)' = Charged(k, r)
  BY <1>8 DEF storeVars, Charged
<1> QED
  BY <1>1, <1>2, <1>3, <1>4, <1>5, <1>6, <1>7, <1>8 DEF StoreNext, OtherCalls

----------------------------------------------------------------------------
(* The inductive invariant.                                                *)

\* Live rows keep naming registered nodes.
LEMMA RegisteredStep ==
  ASSUME IInv, [StoreNext]_storeVars
  PROVE  LiveOnRegistered'
<1> USE DEF IInv, LiveOnRegistered, IsLive
<1>1. ASSUME NEW n \in Nodes, NEW cap \in Capacities, NEW up \in BOOLEAN,
             NEW charged \in Charges, UpsertNode(n, cap, up, charged)
      PROVE  LiveOnRegistered'
  BY <1>1 DEF UpsertNode
<1>2. ASSUME NEW n \in Nodes, NEW a \in AllocIds, NEW p \in Projects,
             NEW plan \in Plans, ReserveOnNode(n, a, p, plan)
      PROVE  LiveOnRegistered'
  BY <1>2 DEF ReserveOnNode, TypeOK
<1>3. ASSUME NEW a \in AllocIds, ActivateAllocation(a) PROVE LiveOnRegistered'
  BY <1>3 DEF ActivateAllocation, TypeOK, Allocation
<1>4. ASSUME NEW a \in AllocIds, ReleaseAllocation(a) PROVE LiveOnRegistered'
  BY <1>4 DEF ReleaseAllocation, TypeOK, Allocation
<1>5. ASSUME NEW a \in AllocIds, NEW d \in Deltas, ResizeWithinSize(a, d)
      PROVE  LiveOnRegistered'
  BY <1>5 DEF ResizeWithinSize, ExpandAllocation, TypeOK, Allocation
<1>6. ASSUME NEW n \in Nodes, DeleteNode(n) PROVE LiveOnRegistered'
  BY <1>6 DEF DeleteNode, LiveOn
<1>7. ASSUME NEW p \in Projects, DeleteProject(p) PROVE LiveOnRegistered'
  BY <1>7 DEF DeleteProject
<1>8. ASSUME NEW n \in Nodes, PurgeReleased(n) PROVE LiveOnRegistered'
  BY <1>8 DEF PurgeReleased
<1>9. CASE UNCHANGED storeVars
  BY <1>9 DEF storeVars
<1> QED
  BY <1>1, <1>2, <1>3, <1>4, <1>5, <1>6, <1>7, <1>8, <1>9 DEF StoreNext, OtherCalls

\* A node that gets its row in this step has nothing live on it, whatever
\* counters it is given.
LEMMA NewNodeCovered ==
  ASSUME IInv, [StoreNext]_storeVars,
         NEW k \in nodes', k \notin nodes, NEW r \in Resources
  PROVE  /\ Charged(k, r)' = 0
         /\ used'[k][r] >= 0
         /\ used'[k] \in Charges
<1>1. PICK n \in Nodes, cap \in Capacities, up \in BOOLEAN, charged \in Charges :
        UpsertNode(n, cap, up, charged)
  BY DEF StoreNext, OtherCalls, storeVars, ReserveOnNode, ActivateAllocation,
         ReleaseAllocation, ResizeWithinSize, ExpandAllocation, DeleteNode,
         PurgeReleased, DeleteProject
<1>2. n = k
  BY <1>1 DEF UpsertNode
<1>3. used'[k] = charged /\ charged \in Charges
  BY <1>1, <1>2 DEF UpsertNode, IInv, TypeOK
<1>4. Charged(k, r) = 0
  BY UnregisteredUncharged DEF IInv
<1>5. Charged(k, r)' = Charged(k, r)
  BY <1>1 DEF UpsertNode, Charged
<1>6. used'[k][r] \in Nat
  BY <1>3, InputTypes DEF Vector
<1> QED BY <1>3, <1>4, <1>5, <1>6

\* Counters keep covering the live rows.
LEMMA CoversStep ==
  ASSUME IInv, [StoreNext]_storeVars
  PROVE  UsedCoversLive'
<1> SUFFICES ASSUME NEW k \in nodes', NEW r \in Resources
             PROVE  used'[k][r] >= Charged(k, r)'
  BY DEF UsedCoversLive, Charged
<1>1. TypeOK' /\ k \in Nodes
  BY TypeStep DEF IInv, TypeOK
<1>2. Charged(k, r)' \in Nat /\ used'[k][r] \in Nat
  <2>1. allocs' \in Tables /\ used' \in [Nodes -> Vector]
    BY <1>1 DEF TypeOK, Tables
  <2>2. Cardinality(Units(allocs', k, r)) \in Nat
    BY <2>1, UnitsFinite, FS_CardinalityType
  <2> QED BY <1>1, <2>1, <2>2 DEF Charged, Vector
<1>3. Charged(k, r) \in Nat /\ used[k][r] \in Nat
  BY <1>1, ChargedType DEF IInv
<1>4. CASE k \notin nodes
  BY <1>4, NewNodeCovered
<1>5. CASE k \in nodes /\ \E p \in Projects : DeleteProject(p)
  <2>1. Charged(k, r)' <= Charged(k, r) /\ used' = used
    BY <1>1, <1>5, DeletionCharge DEF IInv
  <2>2. used[k][r] >= Charged(k, r)
    BY <1>5 DEF IInv, UsedCoversLive
  <2> QED BY <1>2, <1>3, <2>1, <2>2
<1>6. CASE k \in nodes /\ ~ \E p \in Projects : DeleteProject(p)
  <2>1. used'[k][r] - used[k][r] = Charged(k, r)' - Charged(k, r)
    BY <1>6, BooksMoveTogether
  <2>2. used[k][r] >= Charged(k, r)
    BY <1>6 DEF IInv, UsedCoversLive
  <2> QED BY <1>2, <1>3, <2>1, <2>2
<1> QED BY <1>4, <1>5, <1>6

\* The invariant is inductive.
LEMMA IInvStep == IInv /\ [StoreNext]_storeVars => IInv'
BY TypeStep, RegisteredStep, CoversStep DEF IInv

\* The invariant holds in every state the store can reach.
THEOREM Invariance == StoreSpec => []IInv
<1>1. Init => IInv
  BY DEF Init, IInv, TypeOK, LiveOnRegistered, UsedCoversLive, ZeroVector,
         Vector, IsLive
<1>2. IInv /\ [StoreNext]_storeVars => IInv'
  BY IInvStep
<1> QED BY <1>1, <1>2, PTL DEF StoreSpec

\* No deletion of a node leaves a live allocation without its node.
THEOREM LiveAlwaysOnRegistered == StoreSpec => []LiveOnRegistered
<1>1. IInv => LiveOnRegistered
  BY DEF IInv
<1> QED BY <1>1, Invariance, PTL

\* The free capacity a reservation is checked against is never more than
\* what the live allocations leave: used covers their sum, always.
THEOREM UsedAlwaysCoversLive == StoreSpec => []UsedCoversLive
<1>1. IInv => UsedCoversLive
  BY DEF IInv
<1> QED BY <1>1, Invariance, PTL

----------------------------------------------------------------------------
(* Action properties.                                                      *)

\* One step of the store under the invariant: whatever raises the charge of a
\* node leaves it within the node's offer.
LEMMA NoOversellStep ==
  ASSUME IInv, [StoreNext]_storeVars, NEW k \in Nodes, NEW r \in Resources,
         Charged(k, r)' > Charged(k, r)
  PROVE  Charged(k, r)' <= allocatable'[k][r]
<1> USE DEF IInv
<1>1. /\ Charged(k, r) \in Nat /\ used[k][r] \in Nat
      /\ allocatable[k][r] \in Nat
  BY ChargedType
<1>2. k \in nodes => used[k][r] >= Charged(k, r)
  BY DEF UsedCoversLive
<1>3. ASSUME NEW n \in Nodes, NEW a \in AllocIds, NEW p \in Projects,
             NEW plan \in Plans, ReserveOnNode(n, a, p, plan)
      PROVE  Charged(k, r)' <= allocatable'[k][r]
  <2>1. /\ Charged(k, r)' = Charged(k, r) + (IF k = n THEN plan[r] ELSE 0)
        /\ plan[r] \in Nat
    BY <1>3, ReserveCharge
  <2>2. /\ n \in nodes /\ allocatable' = allocatable
        /\ allocatable[n][r] - used[n][r] >= plan[r]
    BY <1>3 DEF ReserveOnNode, Fits
  <2> QED BY <1>1, <1>2, <2>1, <2>2
<1>4. ASSUME NEW a \in AllocIds, NEW d \in Deltas, ResizeWithinSize(a, d)
      PROVE  Charged(k, r)' <= allocatable'[k][r]
  <2>1. /\ Charged(k, r)' =
             Charged(k, r) + (IF k = allocs[a].node THEN d[r] ELSE 0)
        /\ d[r] \in Int
    BY <1>4, ResizeCharge
  <2>2. k = allocs[a].node /\ d[r] > 0
    BY <1>1, <2>1
  <2>3. /\ allocs[a].node \in nodes /\ allocatable' = allocatable
        /\ allocatable[k][r] - used[k][r] >= d[r]
    BY <1>4, <2>2 DEF ResizeWithinSize, ExpandAllocation
  <2> QED BY <1>1, <1>2, <2>1, <2>2, <2>3
<1>5. ASSUME NEW a \in AllocIds, ActivateAllocation(a) PROVE FALSE
  BY <1>1, <1>5, ActivateCharge
<1>6. ASSUME NEW a \in AllocIds, ReleaseAllocation(a) PROVE FALSE
  BY <1>1, <1>6, ReleaseCharge
<1>7. ASSUME \/ \E n \in Nodes : DeleteNode(n) \/ PurgeReleased(n)
             \/ \E p \in Projects : DeleteProject(p)
      PROVE  FALSE
  <2>1. Charged(k, r)' \in Nat
    <3>1. allocs' \in Tables
      BY <1>7 DEF DeleteNode, PurgeReleased, DeleteProject, TypeOK, Tables
    <3>2. Cardinality(Units(allocs', k, r)) \in Nat
      BY <3>1, UnitsFinite, FS_CardinalityType
    <3> QED BY <3>2 DEF Charged
  <2> QED BY <1>1, <1>7, <2>1, DeletionCharge
<1>8. ASSUME \/ \E n \in Nodes, cap \in Capacities, up \in BOOLEAN, charged \in Charges :
                  UpsertNode(n, cap, up, charged)
             \/ UNCHANGED storeVars
      PROVE  FALSE
  <2>1. Charged(k, r)' = Charged(k, r)
    BY <1>8 DEF UpsertNode, storeVars, Charged
  <2> QED BY <1>1, <2>1
<1> QED
  BY <1>3, <1>4, <1>5, <1>6, <1>7, <1>8 DEF StoreNext, OtherCalls

\* However calls interleave, no reservation and no resize binds more of a
\* node than it offers at that moment.
THEOREM NeverOversells == StoreSpec => NoOversell
<1>1. IInv /\ [StoreNext]_storeVars =>
        [\A n \in Nodes, r \in Resources :
           Charged(n, r)' > Charged(n, r) =>
             Charged(n, r)' <= allocatable'[n][r]]_storeVars
  BY NoOversellStep
<1> QED BY <1>1, Invariance, PTL DEF StoreSpec, NoOversell

\* The counters follow the rows in every step, whether it moves the rows of a
\* node or gives a node its row, but in the deletion of a project and where a
\* deleted node comes back with counters read before.
THEOREM CountersFollowRows == StoreSpec => DriftHasTwoSources
<1>1. ASSUME IInv, [StoreNext]_storeVars, ~ \E p \in Projects : DeleteProject(p),
             NEW k \in nodes', NEW r \in Resources
      PROVE  \/ Excess(k, r)' = Excess(k, r)
             \/ k \notin nodes /\ used'[k] \in Charges \ {ZeroVector}
  <2>1. IInv' /\ k \in Nodes
    BY <1>1, IInvStep DEF IInv, TypeOK
  <2>2. CASE k \in nodes
    <3>1. used'[k][r] - used[k][r] = Charged(k, r)' - Charged(k, r)
      BY <1>1, <2>2, BooksMoveTogether
    <3>2. Charged(k, r) \in Nat /\ used[k][r] \in Nat
      BY <1>1, <2>1, ChargedType DEF IInv
    <3>3. Charged(k, r)' \in Nat /\ used'[k][r] \in Nat
      <4>1. allocs' \in Tables /\ used' \in [Nodes -> Vector]
        BY <2>1 DEF IInv, TypeOK, Tables
      <4>2. Cardinality(Units(allocs', k, r)) \in Nat
        BY <4>1, UnitsFinite, FS_CardinalityType
      <4> QED BY <2>1, <4>1, <4>2 DEF Charged, Vector
    <3> QED BY <1>1, <2>2, <3>1, <3>2, <3>3 DEF Excess
  <2>3. CASE k \notin nodes
    <3>1. Charged(k, r)' = 0 /\ used'[k] \in Charges
      BY <1>1, <2>3, NewNodeCovered
    <3>2. CASE used'[k] = ZeroVector
      <4>1. used'[k][r] = 0
        BY <3>2 DEF ZeroVector
      <4>2. Excess(k, r)' = used'[k][r] - Charged(k, r)'
        BY <1>1 DEF Excess
      <4> QED BY <2>3, <3>1, <4>1, <4>2 DEF Excess
    <3> QED BY <2>3, <3>1, <3>2
  <2> QED BY <2>2, <2>3
<1>2. IInv /\ [StoreNext]_storeVars =>
        [\/ \E p \in Projects : DeleteProject(p)
         \/ \A n \in nodes', r \in Resources :
              \/ Excess(n, r)' = Excess(n, r)
              \/ n \notin nodes /\ used'[n] \in Charges \ {ZeroVector}]_storeVars
  BY <1>1
<1> QED BY <1>2, Invariance, PTL DEF StoreSpec, DriftHasTwoSources

\* A released allocation never comes back to life and keeps its size.
THEOREM ReleasedStaysReleased == StoreSpec => ReleasedIsFinal
<1>1. TypeOK /\ [StoreNext]_storeVars =>
        [\A a \in AllocIds :
           allocs[a] # NoAlloc /\ allocs[a].state = "released" =>
             allocs'[a] \in {allocs[a], NoAlloc}]_storeVars
  BY DEF TypeOK, StoreNext, OtherCalls, UpsertNode, ReserveOnNode, ActivateAllocation,
         ReleaseAllocation, ResizeWithinSize, ExpandAllocation, DeleteNode,
         PurgeReleased, DeleteProject, IsLive
<1> QED BY <1>1, TypeCorrect, PTL DEF StoreSpec, ReleasedIsFinal

----------------------------------------------------------------------------
(* The store implements the resource pool.                                 *)

\* What a holder holds is what its live row says.
LEMMA HeldRows ==
  \A m, b : /\ b \in DOMAIN Held(m) <=> b \in AllocIds /\ IsLive(m[b])
            /\ b \in DOMAIN Held(m) => /\ Held(m)[b] = [node |-> m[b].node, size |-> m[b].size]
                                       /\ Held(m)[b].node = m[b].node
                                       /\ Held(m)[b].size = m[b].size
<1> TAKE m, b
<1>1. b \in DOMAIN Held(m) <=> b \in AllocIds /\ IsLive(m[b])
  BY DEF Held
<1>2. b \in DOMAIN Held(m) => Held(m)[b] = [node |-> m[b].node, size |-> m[b].size]
  BY DEF Held
<1> QED BY <1>1, <1>2

\* The pool counts units the way the ledger does.
LEMMA SameCount == \A S : Pool!Cardinality(S) = Cardinality(S)
BY Zenon DEF Pool!Cardinality, Cardinality

\* What the pool says is bound is what the rows are charged.
LEMMA BoundIsCharge ==
  \A m, n, r : Pool!Bound(Held(m), n, r) = Cardinality(Units(m, n, r))
<1> TAKE m, n, r
<1> DEFINE H == Held(m)
<1>1. \A b : /\ b \in DOMAIN H <=> b \in AllocIds /\ IsLive(m[b])
             /\ b \in DOMAIN H => H[b].node = m[b].node /\ H[b].size = m[b].size
  BY HeldRows
<1> HIDE DEF H
<1>2. {b \in DOMAIN H : H[b].node = n} = LiveOn(m, n)
  BY <1>1 DEF LiveOn
<1>3. \A a \in LiveOn(m, n) : H[a].size = m[a].size
  BY <1>1 DEF LiveOn
<1>4. Pool!Units(H, n, r) = Units(m, n, r)
  BY <1>2, <1>3 DEF Pool!Units, Units
<1> QED BY <1>4, SameCount DEF Pool!Bound, H

\* A step of the store gives a node's holders more only where it fits.
LEMMA StepCovered ==
  ASSUME IInv, [StoreNext]_storeVars, allocatable' = allocatable, NEW n \in Nodes
  PROVE  Pool!Covered(n)
<1> SUFFICES ASSUME NEW r \in Resources,
                    Pool!Bound(Held(allocs'), n, r) > Pool!Bound(Held(allocs), n, r)
             PROVE  Pool!Bound(Held(allocs'), n, r) <= allocatable[n][r]
  BY DEF Pool!Covered
<1>1. /\ Pool!Bound(Held(allocs), n, r) = Charged(n, r)
      /\ Pool!Bound(Held(allocs'), n, r) = Charged(n, r)'
  BY BoundIsCharge DEF Charged
<1>2. Charged(n, r)' <= allocatable'[n][r]
  BY <1>1, NoOversellStep
<1> QED BY <1>1, <1>2

\* Every step of the store is a step of the pool, or changes nothing of it.
LEMMA PoolStep ==
  ASSUME IInv, [StoreNext]_storeVars
  PROVE  [Pool!Next]_(Pool!poolVars)
<1> USE DEF IInv
<1> DEFINE Kept == allocatable' = allocatable /\ Held(allocs') = Held(allocs)
<1>0. \A b : /\ b \in DOMAIN Held(allocs) <=> b \in AllocIds /\ IsLive(allocs[b])
             /\ b \in DOMAIN Held(allocs') <=> b \in AllocIds /\ IsLive(allocs'[b])
             /\ b \in DOMAIN Held(allocs) =>
                  /\ Held(allocs)[b] = [node |-> allocs[b].node, size |-> allocs[b].size]
                  /\ Held(allocs)[b].node = allocs[b].node
             /\ b \in DOMAIN Held(allocs') =>
                  /\ Held(allocs')[b] = [node |-> allocs'[b].node, size |-> allocs'[b].size]
                  /\ Held(allocs')[b].node = allocs'[b].node
  BY HeldRows
<1>1. ASSUME NEW n \in Nodes, NEW cap \in Capacities, NEW up \in BOOLEAN,
             NEW charged \in Charges, UpsertNode(n, cap, up, charged)
      PROVE  Pool!Reoffer(n)
  BY <1>1 DEF UpsertNode, Pool!Reoffer, TypeOK
<1>2. ASSUME NEW n \in Nodes, NEW a \in AllocIds, NEW p \in Projects,
             NEW plan \in Plans, ReserveOnNode(n, a, p, plan)
      PROVE  Pool!Take(a)
  <2> DEFINE row == [project |-> p, node |-> n, size |-> plan, state |-> "reserved"]
  <2>1. /\ allocs[a] = NoAlloc /\ allocs' = [allocs EXCEPT ![a] = row]
        /\ allocatable' = allocatable
    BY <1>2 DEF ReserveOnNode
  <2>2. IsLive(row)
    <3>1. row \in Allocation
      BY InputTypes DEF Allocation, AllocStates
    <3> QED BY <3>1, NoAllocIsNoRow DEF IsLive
  <2>3. /\ allocs'[a] = row
        /\ \A b \in AllocIds \ {a} : allocs'[b] = allocs[b]
    BY <2>1 DEF TypeOK
  <2>4. a \notin DOMAIN Held(allocs)
    BY <2>1, <1>0 DEF IsLive
  <2>5. DOMAIN Held(allocs') = DOMAIN Held(allocs) \cup {a}
    BY <2>2, <2>3, <1>0
  <2>6. \A b \in DOMAIN Held(allocs) \ {a} : Held(allocs')[b] = Held(allocs)[b]
    BY <2>3, <2>5, <1>0
  <2>7. Held(allocs')[a].node = n
    <3>1. a \in DOMAIN Held(allocs') /\ allocs'[a].node = n
      BY <2>3, <2>5
    <3> QED BY <3>1, <1>0
  <2>8. Pool!Covered(n)
    BY <2>1, StepCovered
  <2> QED BY <2>1, <2>4, <2>5, <2>6, <2>7, <2>8 DEF Pool!Take, Pool!OthersKeep
<1>3. ASSUME NEW a \in AllocIds, ActivateAllocation(a) PROVE Kept
  <2>1. /\ allocs[a] \in Allocation /\ IsLive(allocs[a])
        /\ allocs' = [allocs EXCEPT ![a] = [@ EXCEPT !.state = "active"]]
        /\ allocatable' = allocatable
    BY <1>3 DEF ActivateAllocation, IsLive, TypeOK
  <2>2. /\ allocs'[a] \in Allocation /\ allocs'[a].state = "active"
        /\ allocs'[a].node = allocs[a].node /\ allocs'[a].size = allocs[a].size
        /\ \A b \in AllocIds \ {a} : allocs'[b] = allocs[b]
    BY <2>1 DEF TypeOK, Allocation, AllocStates
  <2>3. IsLive(allocs'[a])
    BY <2>2, NoAllocIsNoRow DEF IsLive
  <2>4. Held(allocs') = Held(allocs)
    BY <2>1, <2>2, <2>3 DEF Held
  <2> QED BY <2>1, <2>4
<1>4. ASSUME NEW a \in AllocIds, NEW d \in Deltas, ResizeWithinSize(a, d)
      PROVE  Pool!Resize(a)
  <2> DEFINE row == [allocs[a] EXCEPT !.size = Clamp(Plus(allocs[a].size, d))]
  <2>1. /\ allocs[a] \in Allocation /\ IsLive(allocs[a])
        /\ allocs' = [allocs EXCEPT ![a] = row]
        /\ allocatable' = allocatable
    BY <1>4 DEF ResizeWithinSize, ExpandAllocation, IsLive, TypeOK
  <2>2. /\ allocs[a].node \in Nodes /\ allocs[a].size \in Vector
        /\ d \in [Resources -> Int]
    BY <2>1, InputTypes DEF Allocation
  <2>3. Clamp(Plus(allocs[a].size, d)) \in Vector
    BY <2>2, VectorArithmetic
  <2>4. row \in Allocation /\ IsLive(row) /\ row.node = allocs[a].node
    BY <2>1, <2>3, NoAllocIsNoRow DEF Allocation, IsLive
  <2>5. /\ allocs'[a] = row
        /\ \A b \in AllocIds \ {a} : allocs'[b] = allocs[b]
    BY <2>1 DEF TypeOK
  <2> HIDE DEF row
  <2>6. a \in DOMAIN Held(allocs) /\ DOMAIN Held(allocs') = DOMAIN Held(allocs)
    BY <2>1, <2>4, <2>5, <1>0
  <2>7. \A b \in DOMAIN Held(allocs) \ {a} : Held(allocs')[b] = Held(allocs)[b]
    BY <2>5, <2>6, <1>0
  <2>8. Held(allocs')[a].node = allocs[a].node /\ Held(allocs)[a].node = allocs[a].node
    BY <2>4, <2>5, <2>6, <1>0
  <2>9. Pool!Covered(allocs[a].node)
    BY <2>1, <2>2, StepCovered
  <2> QED BY <2>1, <2>6, <2>7, <2>8, <2>9 DEF Pool!Resize, Pool!OthersKeep
<1>5. ASSUME \/ \E a \in AllocIds : ReleaseAllocation(a)
             \/ \E n \in Nodes : DeleteNode(n) \/ PurgeReleased(n)
             \/ \E p \in Projects : DeleteProject(p)
      PROVE  Pool!GiveBack
  <2>1. /\ allocatable' = allocatable
        /\ \A b \in AllocIds : IsLive(allocs'[b]) => allocs'[b] = allocs[b]
    <3>1. ASSUME NEW a \in AllocIds, ReleaseAllocation(a)
          PROVE  /\ allocatable' = allocatable
                 /\ \A b \in AllocIds : IsLive(allocs'[b]) => allocs'[b] = allocs[b]
      <4>1. allocs[a] \in Allocation
        BY <3>1 DEF ReleaseAllocation, IsLive, TypeOK
      <4>2. allocs'[a].state = "released" /\ \A b \in AllocIds \ {a} : allocs'[b] = allocs[b]
        BY <3>1, <4>1 DEF ReleaseAllocation, TypeOK, Allocation
      <4> QED BY <3>1, <4>2 DEF ReleaseAllocation, IsLive
    <3>2. ASSUME \/ \E n \in Nodes : DeleteNode(n) \/ PurgeReleased(n)
                 \/ \E p \in Projects : DeleteProject(p)
          PROVE  /\ allocatable' = allocatable
                 /\ \A b \in AllocIds : IsLive(allocs'[b]) => allocs'[b] = allocs[b]
      BY <3>2 DEF DeleteNode, PurgeReleased, DeleteProject, IsLive
    <3> QED BY <1>5, <3>1, <3>2
  <2>2. DOMAIN Held(allocs') \subseteq DOMAIN Held(allocs)
    BY <2>1, <1>0
  <2>3. \A b \in DOMAIN Held(allocs') : Held(allocs')[b] = Held(allocs)[b]
    BY <2>1, <2>2, <1>0
  <2> QED BY <2>1, <2>2, <2>3 DEF Pool!GiveBack
<1>6. CASE UNCHANGED storeVars
  BY <1>6 DEF storeVars, Pool!poolVars
<1>7. Kept => UNCHANGED Pool!poolVars
  BY DEF Pool!poolVars
<1> QED
  BY <1>1, <1>2, <1>3, <1>4, <1>5, <1>6, <1>7 DEF StoreNext, OtherCalls, Pool!Next

\* The store, for every number of nodes, allocations, plans and resizes,
\* behaves as a resource pool: what one caller gets was really there, and what
\* others hold stays as it is.
THEOREM StoreImplementsPool == StoreSpec => ImplementsPool
<1>1. Init => Pool!Init
  <2>1. Init => allocatable \in [Nodes -> [Resources -> Nat]]
    BY DEF Init, ZeroVector
  <2>2. Init => DOMAIN Held(allocs) = {}
    BY HeldRows DEF Init, IsLive
  <2> QED BY <2>1, <2>2 DEF Pool!Init
<1>2. IInv /\ [StoreNext]_storeVars => [Pool!Next]_(Pool!poolVars)
  BY PoolStep
<1> QED BY <1>1, <1>2, Invariance, PTL DEF StoreSpec, ImplementsPool, Pool!Spec
=============================================================================
