--------------------------- MODULE Resize_proofs ---------------------------
(***************************************************************************)
(* Proofs about Resize, for any number of workspaces, nodes and people.    *)
(* The tables keep their shape whoever takes part.  Where people ask for   *)
(* upgrades only they may race each other, approve twice, write stale rows *)
(* back and fail at any call: still every step is a call the ledger        *)
(* allows, no node is oversold and every allocation covers its row and its *)
(* instance.                                                               *)
(***************************************************************************)
EXTENDS Resize, LedgerStore_proofs

Kinds == {"request", "decide", "approve", "reject", "touch"}

\* Steps of an approval, and those at which what its ledger call added is
\* neither promised to anybody nor taken back yet.
Approving == {"ledger", "runtime", "compensate", "write"}
Waiting   == {"runtime", "compensate"}

Places == {"ask", "read", "reject", "touch"} \cup Approving

WsRow == [spec : Specs, pending : Specs \cup {NoSpec}]

OpRecord == {Idle} \cup [kind : Kinds, pc : Places, w : Workspaces, row : WsRow]

ResizeTypeOK ==
  /\ ws \in [Workspaces -> WsRow]
  /\ guest \in [Workspaces -> Vector]
  /\ op \in [Handlers -> OpRecord]
  /\ cast \in Casts

\* An approval has read a row with something to approve.
ApprovalsPend ==
  \A h \in Handlers : op[h].pc \in Approving => HasPendingResize(op[h].row)

TInv == TypeOK /\ ResizeTypeOK /\ ApprovalsPend

----------------------------------------------------------------------------
(* Sizes and their differences.                                            *)

\* A size may be given away as a row of the ledger's tables.
LEMMA SpecsAreVectors ==
  ASSUME NEW s \in Specs
  PROVE  s \in Vector /\ s \in [Resources -> Int] /\ s # NoSpec
BY ResizeTypes, InputTypes DEF Vector

\* An upgrade takes nothing away.
LEMMA UpgradesGrow ==
  ASSUME NEW row \in WsRow, HasPendingResize(row), Kind(row) = "upgrade"
  PROVE  \A r \in Resources : row.pending[r] >= row.spec[r]
<1>1. row.pending \in [Resources -> Int] /\ row.spec \in [Resources -> Int]
  BY SpecsAreVectors DEF WsRow, HasPendingResize
<1> QED BY <1>1 DEF Kind, ClassifyResize

\* The difference of a row leads from its size to the pending one, and the
\* ledger may be called with it and with its opposite.
LEMMA DeltaOfRow ==
  ASSUME NEW row \in WsRow, HasPendingResize(row)
  PROVE  /\ Delta(row) \in Deltas /\ Negated(Delta(row)) \in Deltas
         /\ \A r \in Resources : /\ row.spec[r] \in Nat /\ row.pending[r] \in Nat
                                 /\ Delta(row)[r] \in Int
                                 /\ Delta(row)[r] = row.pending[r] - row.spec[r]
                                 /\ Negated(Delta(row))[r] = row.spec[r] - row.pending[r]
<1>1. row.spec \in Specs /\ row.pending \in Specs
  BY DEF WsRow, HasPendingResize
<1>2. row.spec \in Vector /\ row.pending \in Vector
  BY <1>1, SpecsAreVectors
<1>3. Delta(row) = Minus(row.pending, row.spec) /\ Negated(Delta(row)) = Minus(row.spec, row.pending)
  BY <1>2 DEF Delta, Negated, Minus, Vector
<1> QED BY <1>1, <1>2, <1>3, DifferencesAreDeltas DEF Minus, Vector

----------------------------------------------------------------------------
(* Type correctness, for every cast.                                       *)

\* A handler at a place has a request, with its workspace and row.
LEMMA AtWork ==
  ASSUME ResizeTypeOK, NEW h \in Handlers, op[h].pc \in Places
  PROVE  /\ op[h] \in [kind : Kinds, pc : Places, w : Workspaces, row : WsRow]
         /\ op[h].w \in Workspaces /\ op[h].row \in WsRow
         /\ ws[op[h].w] \in WsRow /\ guest[op[h].w] \in Vector
<1>1. Idle.pc = "idle" /\ "idle" \notin Places
  BY DEF Idle, Places, Approving
<1> QED BY <1>1 DEF ResizeTypeOK, OpRecord

\* The ledger calls of an approval keep the tables of the ledger well formed.
LEMMA TablesKeepShape ==
  ASSUME TInv, NEW h \in Handlers, ApproveLedger(h) \/ ApproveCompensate(h)
  PROVE  TypeOK'
<1>1. op[h].pc \in Approving /\ op[h].pc \in Places
  BY DEF ApproveLedger, ApproveCompensate, Approving, Places
<1>2. op[h].w \in Workspaces /\ op[h].row \in WsRow /\ HasPendingResize(op[h].row)
  BY <1>1, AtWork DEF TInv, ApprovalsPend
<1>3. AllocOf[op[h].w] \in AllocIds
  BY <1>2, ResizeTypes
<1>4. Delta(op[h].row) \in Deltas /\ Negated(Delta(op[h].row)) \in Deltas
  BY <1>2, DeltaOfRow
<1>5. ASSUME NEW d \in Deltas, ExpandAllocation(AllocOf[op[h].w], d) PROVE TypeOK'
  BY <1>3, <1>5, ExpandType DEF TInv
<1>6. CASE UNCHANGED storeVars
  BY <1>6 DEF TInv, storeVars, TypeOK
<1> QED BY <1>4, <1>5, <1>6 DEF ApproveLedger, ApproveCompensate

\* A request that begins has read a row of the table.
LEMMA BeginType ==
  ASSUME TInv, NEW h \in Handlers, NEW w \in Workspaces, NEW kind, NEW pc,
         Begin(h, kind, pc, w), kind \in Kinds, pc \in Places,
         pc \in Approving => HasPendingResize(ws[w])
  PROVE  TInv'
<1>1. [kind |-> kind, pc |-> pc, w |-> w, row |-> ws[w]] \in OpRecord
  BY DEF TInv, ResizeTypeOK, OpRecord
<1>2. TypeOK'
  BY DEF Begin, TInv, storeVars, TypeOK
<1> QED BY <1>1, <1>2 DEF Begin, TInv, ResizeTypeOK, ApprovalsPend

\* A request that moves on keeps its row.
LEMMA MoveType ==
  ASSUME TInv, NEW h \in Handlers, op[h].pc \in Approving, NEW pc \in Places, Goto(h, pc)
  PROVE  op' \in [Handlers -> OpRecord] /\ ApprovalsPend'
<1>1. op[h].pc \in Places
  BY DEF Places
<1>2. [op[h] EXCEPT !.pc = pc] \in OpRecord
  BY <1>1, AtWork DEF TInv, OpRecord
<1>3. op' = [op EXCEPT ![h] = [op[h] EXCEPT !.pc = pc]]
  BY DEF Goto
<1>4. HasPendingResize(op[h].row)
  BY DEF TInv, ApprovalsPend
<1>5. op'[h].row = op[h].row /\ \A g \in Handlers : g # h => op'[g] = op[g]
  BY <1>1, <1>3, AtWork DEF TInv, ResizeTypeOK
<1> QED BY <1>2, <1>3, <1>4, <1>5 DEF TInv, ResizeTypeOK, ApprovalsPend

\* A request that ends leaves nothing behind.
LEMMA DoneType ==
  ASSUME TInv, NEW h \in Handlers, Done(h)
  PROVE  op' \in [Handlers -> OpRecord] /\ ApprovalsPend'
<1>1. Idle \in OpRecord /\ Idle.pc \notin Approving
  BY DEF OpRecord, Idle, Approving
<1> QED BY <1>1 DEF Done, TInv, ResizeTypeOK, ApprovalsPend

\* The shapes survive every step.
LEMMA TypesStep ==
  ASSUME TInv, [ResizeNext]_vars
  PROVE  TInv'
<1>1. ASSUME NEW h \in Handlers, NEW w \in Workspaces,
             RequestRead(h, w) \/ ApproveRead(h, w) \/ RejectRead(h, w) \/ TouchRead(h, w)
      PROVE  TInv'
  <2>1. \E kind \in Kinds, pc \in Places :
          Begin(h, kind, pc, w) /\ (pc \in Approving => HasPendingResize(ws[w]))
    BY <1>1 DEF RequestRead, ApproveRead, RejectRead, TouchRead, Kinds, Places, Approving
  <2> QED BY <2>1, BeginType
<1>2. ASSUME NEW h \in Handlers, ApproveLedger(h) \/ ApproveCompensate(h) PROVE TInv'
  <2>1. op[h].pc \in Approving
    BY <1>2 DEF ApproveLedger, ApproveCompensate, Approving
  <2>2. op' \in [Handlers -> OpRecord] /\ ApprovalsPend'
    BY <1>2, <2>1, MoveType, DoneType DEF ApproveLedger, ApproveCompensate, Places, Approving
  <2>3. ResizeTypeOK'
    BY <1>2, <2>2 DEF TInv, ResizeTypeOK, ApproveLedger, ApproveCompensate
  <2> QED BY <1>2, <2>2, <2>3, TablesKeepShape DEF TInv
<1>3. ASSUME NEW h \in Handlers,
             \/ RequestWrite(h) \/ ApproveReread(h) \/ ApproveRuntime(h) \/ ApproveWrite(h)
             \/ RejectWrite(h) \/ TouchWrite(h) \/ CallFails(h)
      PROVE  TInv'
  <2>1. TypeOK'
    BY <1>3 DEF TInv, TypeOK, storeVars, RequestWrite, ApproveReread, ApproveRuntime, ApproveWrite,
                RejectWrite, TouchWrite, CallFails
  <2>2. op[h].pc \in Places
    BY <1>3 DEF RequestWrite, ApproveReread, ApproveRuntime, ApproveWrite,
                RejectWrite, TouchWrite, CallFails, Places, Approving
  <2>3. /\ op[h] \in [kind : Kinds, pc : Places, w : Workspaces, row : WsRow]
        /\ ws[op[h].w] \in WsRow /\ guest[op[h].w] \in Vector
    BY <2>2, AtWork DEF TInv
  <2>4. ASSUME RequestWrite(h) PROVE TInv'
    <3>1. PICK target \in Specs :
            /\ ws' = [ws EXCEPT ![op[h].w] = [op[h].row EXCEPT !.pending = target]]
            /\ Goto(h, "read") \/ Done(h)
            /\ op[h].pc = "ask"
            /\ guest' = guest /\ cast' = cast
      BY <2>4 DEF RequestWrite
    <3>2. ws' \in [Workspaces -> WsRow]
      BY <2>3, <3>1 DEF TInv, ResizeTypeOK, WsRow
    <3>3. CASE Goto(h, "read")
      <4>1. op' = [op EXCEPT ![h] = [op[h] EXCEPT !.pc = "read"]]
        BY <3>3 DEF Goto
      <4>2. "read" \in Places /\ "read" \notin Approving
        BY DEF Places, Approving
      <4>3. [op[h] EXCEPT !.pc = "read"] \in OpRecord
        BY <2>3, <4>2 DEF OpRecord
      <4>4. op' \in [Handlers -> OpRecord] /\ ApprovalsPend'
        BY <2>3, <4>1, <4>2, <4>3 DEF TInv, ResizeTypeOK, ApprovalsPend
      <4> QED BY <2>1, <3>1, <3>2, <4>4 DEF TInv, ResizeTypeOK
    <3>4. CASE Done(h)
      BY <2>1, <3>1, <3>2, <3>4, DoneType DEF TInv, ResizeTypeOK
    <3> QED BY <3>1, <3>3, <3>4
  <2>5. ASSUME ApproveReread(h) PROVE TInv'
    <3>1. ASSUME HasPendingResize(ws[op[h].w]),
                 op' = [op EXCEPT ![h].pc = "ledger", ![h].row = ws[op[h].w]]
          PROVE  op' \in [Handlers -> OpRecord] /\ ApprovalsPend'
      <4>1. "ledger" \in Places
        BY DEF Places, Approving
      <4>2. [op[h] EXCEPT !.pc = "ledger", !.row = ws[op[h].w]] \in OpRecord
        BY <2>3, <4>1 DEF OpRecord
      <4>3. op' = [op EXCEPT ![h] = [op[h] EXCEPT !.pc = "ledger", !.row = ws[op[h].w]]]
        BY <2>3, <3>1 DEF TInv, ResizeTypeOK
      <4> QED BY <2>3, <3>1, <4>2, <4>3 DEF TInv, ResizeTypeOK, ApprovalsPend
    <3> QED BY <2>1, <2>5, <3>1, DoneType DEF ApproveReread, TInv, ResizeTypeOK
  <2>6. ASSUME ApproveRuntime(h) PROVE TInv'
    <3>1. op[h].pc \in Approving
      BY <2>6 DEF ApproveRuntime, Approving
    <3>2. op' \in [Handlers -> OpRecord] /\ ApprovalsPend'
      BY <2>6, <3>1, MoveType DEF ApproveRuntime, Places, Approving
    <3>3. op[h].row.pending \in Vector
      BY <2>3, <3>1, SpecsAreVectors DEF TInv, ApprovalsPend, HasPendingResize, WsRow
    <3>4. [op[h].row.pending EXCEPT !["disk"] = guest[op[h].w]["disk"]] \in Vector
      BY <2>3, <3>3 DEF Vector, Resources
    <3>5. guest' \in [Workspaces -> Vector]
      BY <2>3, <2>6, <3>3, <3>4 DEF ApproveRuntime, TInv, ResizeTypeOK
    <3> QED BY <2>1, <2>6, <3>2, <3>5 DEF ApproveRuntime, TInv, ResizeTypeOK
  <2>7. ASSUME ApproveWrite(h) \/ RejectWrite(h) \/ TouchWrite(h) \/ CallFails(h) PROVE TInv'
    <3>1. op[h].pc = "write" => HasPendingResize(op[h].row)
      BY DEF TInv, ApprovalsPend, Approving
    <3>2. ws' \in [Workspaces -> WsRow]
      BY <2>3, <2>7, <3>1 DEF ApproveWrite, RejectWrite, TouchWrite, CallFails, TInv, ResizeTypeOK,
                              WsRow, HasPendingResize
    <3>3. Done(h) /\ guest' = guest /\ cast' = cast
      BY <2>7 DEF ApproveWrite, RejectWrite, TouchWrite, CallFails
    <3> QED BY <2>1, <3>2, <3>3, DoneType DEF TInv, ResizeTypeOK
  <2> QED BY <1>3, <2>4, <2>5, <2>6, <2>7
<1>4. CASE UNCHANGED vars
  BY <1>4 DEF vars, storeVars, resizeVars, TInv, TypeOK, ResizeTypeOK, ApprovalsPend
<1> QED BY <1>1, <1>2, <1>3, <1>4 DEF ResizeNext

----------------------------------------------------------------------------
(* What approvals in flight hold.  Shares has one element per unit of r    *)
(* that the ledger has added to the allocation of w for an approval that   *)
(* has not reached the instance.                                           *)

IsWaiting(o, w) == o.pc \in Waiting /\ o.w = w

Share(h, o, w, r) == IF IsWaiting(o, w) THEN {h} \X (1 .. Delta(o.row)[r]) ELSE {}

Weight(o, w, r) == IF IsWaiting(o, w) THEN Delta(o.row)[r] ELSE 0

Shares(m, w, r) ==
  UNION {{h} \X (1 .. Delta(m[h].row)[r]) : h \in {g \in Handlers : IsWaiting(m[g], w)}}

Out(w, r) == Cardinality(Shares(op, w, r))

\* Requests whose approvals are all of upgrades.
Growing(o) == o.pc \in Waiting => \A r \in Resources : Delta(o.row)[r] \in Nat

Requests == {m \in [Handlers -> OpRecord] : \A h \in Handlers : Growing(m[h])}

\* One request holds as many units as its difference says.
LEMMA ShareCardinality ==
  ASSUME NEW h, NEW o, Growing(o), NEW w, NEW r \in Resources
  PROVE  /\ Weight(o, w, r) \in Nat
         /\ IsFiniteSet(Share(h, o, w, r))
         /\ Cardinality(Share(h, o, w, r)) = Weight(o, w, r)
<1>1. CASE IsWaiting(o, w)
  <2> DEFINE k == Delta(o.row)[r]
  <2>1. k \in Nat
    BY <1>1 DEF Growing, IsWaiting
  <2> HIDE DEF k
  <2>2. IsFiniteSet(1 .. k) /\ Cardinality(1 .. k) = k
    BY <2>1, UnitsOfSize
  <2>3. IsFiniteSet({h}) /\ Cardinality({h}) = 1
    BY FS_Singleton
  <2>4. IsFiniteSet({h} \X (1 .. k)) /\ Cardinality({h} \X (1 .. k)) = 1 * k
    BY <2>2, <2>3, FS_Product
  <2>5. Cardinality({h} \X (1 .. k)) = k
    BY <2>1, <2>4
  <2>6. Share(h, o, w, r) = {h} \X (1 .. k) /\ Weight(o, w, r) = k
    BY <1>1 DEF Share, Weight, k
  <2> QED BY <2>1, <2>4, <2>5, <2>6
<1>2. CASE ~IsWaiting(o, w)
  BY <1>2, FS_EmptySet DEF Share, Weight
<1> QED BY <1>1, <1>2

\* All of them together hold finitely many.
LEMMA SharesFinite ==
  ASSUME NEW m \in Requests, NEW w, NEW r \in Resources
  PROVE  IsFiniteSet(Shares(m, w, r))
<1> DEFINE A == {g \in Handlers : IsWaiting(m[g], w)}
           f == [h \in A |-> {h} \X (1 .. Delta(m[h].row)[r])]
           T == {{h} \X (1 .. Delta(m[h].row)[r]) : h \in A}
<1>1. IsFiniteSet(A)
  BY FS_Subset, HandlersFinite
<1>2. f \in Surjection(A, T)
  BY DEF Surjection
<1>3. IsFiniteSet(T)
  BY <1>1, <1>2, FS_Surjection
<1>4. ASSUME NEW h \in A PROVE IsFiniteSet({h} \X (1 .. Delta(m[h].row)[r]))
  <2>1. Growing(m[h]) /\ IsWaiting(m[h], w)
    BY DEF Requests
  <2>2. IsFiniteSet(Share(h, m[h], w, r))
    BY <2>1, ShareCardinality
  <2> QED BY <2>1, <2>2 DEF Share
<1>5. \A t \in T : IsFiniteSet(t)
  BY <1>4
<1>6. IsFiniteSet(UNION T)
  BY <1>3, <1>5, FS_UNION
<1> QED BY <1>6 DEF Shares

\* Without the request of h the units of h are gone and no others.
LEMMA SharesWithout ==
  ASSUME NEW m \in Requests, NEW h \in Handlers, NEW w, NEW r \in Resources
  PROVE  /\ [m EXCEPT ![h] = Idle] \in Requests
         /\ Cardinality(Shares(m, w, r)) =
              Cardinality(Shares([m EXCEPT ![h] = Idle], w, r)) + Weight(m[h], w, r)
<1> DEFINE m0 == [m EXCEPT ![h] = Idle]
           U  == Shares(m, w, r)
           U0 == Shares(m0, w, r)
           O  == Share(h, m[h], w, r)
<1>1. ~IsWaiting(Idle, w) /\ Growing(Idle) /\ Idle \in OpRecord
  BY DEF IsWaiting, Waiting, Growing, Idle, OpRecord
<1>2. m0 \in Requests
  BY <1>1 DEF Requests
<1>3. U = U0 \cup O
  BY <1>1 DEF Shares, Share, Requests
<1>4. U0 \cap O = {}
  BY <1>1 DEF Shares, Share, Requests
<1>5. IsFiniteSet(U0)
  BY <1>2, SharesFinite
<1>6. Growing(m[h])
  BY DEF Requests
<1>7. IsFiniteSet(O) /\ Cardinality(O) = Weight(m[h], w, r)
  BY <1>6, ShareCardinality
<1> HIDE DEF U, U0, O
<1>8. Cardinality(U) = Cardinality(U0) + Weight(m[h], w, r)
  BY <1>3, <1>4, <1>5, <1>7, DisjointUnion
<1> QED BY <1>2, <1>8 DEF U, U0

\* A step of one request moves what is held by the difference of its weights.
LEMMA SharesMove ==
  ASSUME NEW m \in Requests, NEW h \in Handlers, NEW o \in OpRecord, Growing(o),
         NEW w, NEW r \in Resources
  PROVE  /\ [m EXCEPT ![h] = o] \in Requests
         /\ Cardinality(Shares(m, w, r)) \in Nat
         /\ Weight(m[h], w, r) \in Nat /\ Weight(o, w, r) \in Nat
         /\ Weight(m[h], w, r) <= Cardinality(Shares(m, w, r))
         /\ Cardinality(Shares([m EXCEPT ![h] = o], w, r)) =
              Cardinality(Shares(m, w, r)) - Weight(m[h], w, r) + Weight(o, w, r)
<1> DEFINE m1 == [m EXCEPT ![h] = o]
           m0 == [m EXCEPT ![h] = Idle]
<1>1. m1 \in Requests /\ m1[h] = o
  BY DEF Requests
<1>2. [m1 EXCEPT ![h] = Idle] = m0
  BY DEF Requests
<1> HIDE DEF m1, m0
<1>3. \A t \in Requests :
        /\ [t EXCEPT ![h] = Idle] \in Requests
        /\ Cardinality(Shares(t, w, r)) =
             Cardinality(Shares([t EXCEPT ![h] = Idle], w, r)) + Weight(t[h], w, r)
  BY SharesWithout
<1>4. /\ m0 \in Requests
      /\ Cardinality(Shares(m, w, r)) = Cardinality(Shares(m0, w, r)) + Weight(m[h], w, r)
      /\ Cardinality(Shares(m1, w, r)) = Cardinality(Shares(m0, w, r)) + Weight(o, w, r)
  BY <1>1, <1>2, <1>3 DEF m0
<1>5. Cardinality(Shares(m, w, r)) \in Nat /\ Cardinality(Shares(m0, w, r)) \in Nat
  BY <1>4, SharesFinite, FS_CardinalityType
<1>6. Growing(m[h])
  BY DEF Requests
<1>7. Weight(m[h], w, r) \in Nat /\ Weight(o, w, r) \in Nat
  BY <1>6, ShareCardinality
<1> QED BY <1>1, <1>4, <1>5, <1>7 DEF m1

----------------------------------------------------------------------------
(* The invariant where people ask for upgrades only.                       *)

\* The running workspaces keep their allocations and nodes.
Backed ==
  /\ nodes = Nodes
  /\ \A w \in Workspaces : IsLive(allocs[AllocOf[w]])

OnlyGrows(row) == HasPendingResize(row) => Kind(row) = "upgrade"

\* Every row, stored or read by somebody, asks for an upgrade if for anything.
RowsGrow ==
  /\ \A w \in Workspaces : OnlyGrows(ws[w])
  /\ \A h \in Handlers : op[h].pc \in Places => OnlyGrows(op[h].row)

\* Beside what approvals in flight hold, the allocation of w covers v.
Spares(w, v) == \A r \in Resources : SizeOf(w)[r] >= Out(w, r) + v[r]

\* It covers the row, whatever row of w anybody may yet write back, what an
\* approval is about to promise, and the instance.
SparesAll ==
  /\ \A w \in Workspaces : Spares(w, ws[w].spec)
  /\ ~cast.disk_fails => \A w \in Workspaces : Spares(w, guest[w])
  /\ \A h \in Handlers :
       /\ op[h].pc \in Places => Spares(op[h].w, op[h].row.spec)
       /\ op[h].pc = "write" => Spares(op[h].w, op[h].row.pending)

UInv == TInv /\ Backed /\ RowsGrow /\ SparesAll

\* What is known of an approval: an upgrade with its difference.
LEMMA ApprovalGrows ==
  ASSUME TInv, RowsGrow, NEW h \in Handlers, op[h].pc \in Approving
  PROVE  /\ op[h].w \in Workspaces /\ op[h].row \in WsRow /\ op[h].pc \in Places
         /\ HasPendingResize(op[h].row)
         /\ \A r \in Resources :
              LET d == Delta(op[h].row)[r] IN
              /\ d \in Nat /\ Negated(Delta(op[h].row))[r] = -d
              /\ op[h].row.spec[r] \in Nat
              /\ op[h].row.pending[r] = op[h].row.spec[r] + d
<1>1. op[h].pc \in Places
  BY DEF Places
<1>2. op[h].w \in Workspaces /\ op[h].row \in WsRow /\ HasPendingResize(op[h].row)
  BY <1>1, AtWork DEF TInv, ApprovalsPend
<1>3. Kind(op[h].row) = "upgrade"
  BY <1>1, <1>2 DEF RowsGrow, OnlyGrows
<1>4. \A r \in Resources : op[h].row.pending[r] >= op[h].row.spec[r]
  BY <1>2, <1>3, UpgradesGrow
<1> HIDE DEF Delta, Negated
<1> QED BY <1>1, <1>2, <1>4, DeltaOfRow

\* Where rows only grow, approvals hold natural numbers of units.
LEMMA OnlyUpgradesWait ==
  ASSUME TInv, RowsGrow
  PROVE  op \in Requests
<1> SUFFICES ASSUME NEW h \in Handlers PROVE Growing(op[h])
  BY DEF Requests, TInv, ResizeTypeOK
<1>1. op[h].pc \in Waiting => op[h].pc \in Approving
  BY DEF Waiting, Approving
<1> QED BY <1>1, ApprovalGrows DEF Growing

\* The sizes the invariant compares are numbers.
LEMMA Numbers ==
  ASSUME UInv, NEW w \in Workspaces
  PROVE  /\ AllocOf[w] \in AllocIds /\ allocs[AllocOf[w]] \in Allocation
         /\ SizeOf(w) \in Vector /\ ws[w].spec \in Vector /\ guest[w] \in Vector
         /\ \A r \in Resources : SizeOf(w)[r] \in Nat /\ Out(w, r) \in Nat
<1>1. AllocOf[w] \in AllocIds /\ allocs[AllocOf[w]] \in Allocation
  BY ResizeTypes DEF UInv, TInv, TypeOK, Backed, IsLive
<1>2. SizeOf(w) \in Vector
  BY <1>1 DEF SizeOf, Allocation
<1>3. ws[w].spec \in Vector /\ guest[w] \in Vector
  BY SpecsAreVectors DEF UInv, TInv, ResizeTypeOK, WsRow
<1>4. \A r \in Resources : Out(w, r) \in Nat
  BY OnlyUpgradesWait, SharesFinite, FS_CardinalityType DEF UInv, Out
<1> QED BY <1>1, <1>2, <1>3, <1>4 DEF Vector

\* A step of one request, in numbers.
LEMMA OutMoves ==
  ASSUME UInv, NEW h \in Handlers, NEW o \in OpRecord, Growing(o),
         op' = [op EXCEPT ![h] = o], NEW w \in Workspaces, NEW r \in Resources
  PROVE  /\ Out(w, r) \in Nat /\ Out(w, r)' \in Nat
         /\ Weight(op[h], w, r) \in Nat /\ Weight(op[h], w, r) <= Out(w, r)
         /\ Weight(o, w, r) \in Nat
         /\ Out(w, r)' = Out(w, r) - Weight(op[h], w, r) + Weight(o, w, r)
<1>1. op \in Requests
  BY OnlyUpgradesWait DEF UInv
<1>2. Out(w, r)' = Cardinality(Shares([op EXCEPT ![h] = o], w, r))
  BY DEF Out
<1>3. \A m \in Requests :
        /\ Cardinality(Shares(m, w, r)) \in Nat
        /\ Weight(m[h], w, r) \in Nat /\ Weight(o, w, r) \in Nat
        /\ Weight(m[h], w, r) <= Cardinality(Shares(m, w, r))
        /\ Cardinality(Shares([m EXCEPT ![h] = o], w, r)) =
             Cardinality(Shares(m, w, r)) - Weight(m[h], w, r) + Weight(o, w, r)
  BY SharesMove
<1>4. /\ Out(w, r) \in Nat
      /\ Weight(op[h], w, r) \in Nat /\ Weight(op[h], w, r) <= Out(w, r)
      /\ Weight(o, w, r) \in Nat
      /\ Out(w, r)' = Out(w, r) - Weight(op[h], w, r) + Weight(o, w, r)
  BY <1>1, <1>2, <1>3 DEF Out
<1> QED BY <1>4

\* The row a request works on is covered, and a number.
LEMMA RowInFlight ==
  ASSUME UInv, NEW h \in Handlers, op[h].pc \in Places
  PROVE  /\ op[h].w \in Workspaces /\ op[h].row \in WsRow /\ OnlyGrows(op[h].row)
         /\ op[h].row.spec \in Vector /\ Spares(op[h].w, op[h].row.spec)
<1>1. op[h].w \in Workspaces /\ op[h].row \in WsRow
  BY AtWork DEF UInv, TInv
<1> QED BY <1>1, SpecsAreVectors DEF UInv, RowsGrow, SparesAll, WsRow

\* A step that leaves the ledger alone, holds no more than before and writes
\* and reads rows that are covered leaves everything covered.
LEMMA OneMoves ==
  ASSUME UInv, NEW h \in Handlers, NEW o \in OpRecord, op' = [op EXCEPT ![h] = o],
         Growing(o), allocs' = allocs, cast' = cast,
         \A w \in Workspaces, r \in Resources : Weight(o, w, r) <= Weight(op[h], w, r),
         \A w \in Workspaces : ws'[w].spec \in Vector /\ Spares(w, ws'[w].spec),
         ~cast.disk_fails => guest' = guest,
         o.pc \in Places => /\ o.pc # "write" /\ o.w \in Workspaces
                            /\ o.row.spec \in Vector /\ Spares(o.w, o.row.spec)
  PROVE  SparesAll'
<1>1. \A w \in Workspaces : SizeOf(w)' = SizeOf(w)
  BY DEF SizeOf
<1>2. \A w \in Workspaces, r \in Resources :
        /\ SizeOf(w)[r] \in Nat /\ Out(w, r) \in Nat /\ Out(w, r)' \in Nat
        /\ Out(w, r)' <= Out(w, r)
  <2> SUFFICES ASSUME NEW w \in Workspaces, NEW r \in Resources
               PROVE  /\ SizeOf(w)[r] \in Nat /\ Out(w, r) \in Nat /\ Out(w, r)' \in Nat
                      /\ Out(w, r)' <= Out(w, r)
    OBVIOUS
  <2>1. SizeOf(w)[r] \in Nat
    BY Numbers
  <2>2. /\ Out(w, r) \in Nat /\ Out(w, r)' \in Nat
        /\ Weight(op[h], w, r) \in Nat /\ Weight(o, w, r) \in Nat
        /\ Out(w, r)' = Out(w, r) - Weight(op[h], w, r) + Weight(o, w, r)
    BY OutMoves
  <2>3. Weight(o, w, r) <= Weight(op[h], w, r)
    OBVIOUS
  <2> QED BY <2>1, <2>2, <2>3
<1>3. ASSUME NEW w \in Workspaces, NEW v \in Vector, Spares(w, v)
      PROVE  \A r \in Resources : SizeOf(w)'[r] >= Out(w, r)' + v[r]
  BY <1>1, <1>2, <1>3 DEF Spares, Vector
<1>4. (\A w \in Workspaces : Spares(w, ws[w].spec))'
  BY <1>3 DEF Spares
<1>5. (~cast.disk_fails => \A w \in Workspaces : Spares(w, guest[w]))'
  BY <1>3, Numbers DEF Spares, UInv, SparesAll
<1>6. ASSUME NEW g \in Handlers, (op[g].pc \in Places)'
      PROVE  /\ Spares(op[g].w, op[g].row.spec)'
             /\ (op[g].pc = "write")' => Spares(op[g].w, op[g].row.pending)'
  <2>1. CASE g = h
    <3>1. op'[g] = o
      BY <2>1 DEF UInv, TInv, ResizeTypeOK
    <3> QED BY <1>3, <1>6, <3>1 DEF Spares
  <2>2. CASE g # h
    <3>1. op'[g] = op[g]
      BY <2>2 DEF UInv, TInv, ResizeTypeOK
    <3>2. op[g].w \in Workspaces /\ op[g].row.spec \in Vector /\ Spares(op[g].w, op[g].row.spec)
      BY <1>6, <3>1, RowInFlight
    <3>3. op[g].pc = "write" =>
            op[g].row.pending \in Vector /\ Spares(op[g].w, op[g].row.pending)
      <4> SUFFICES ASSUME op[g].pc = "write"
                   PROVE  op[g].row.pending \in Vector /\ Spares(op[g].w, op[g].row.pending)
        OBVIOUS
      <4>1. op[g].row \in WsRow /\ HasPendingResize(op[g].row)
        BY RowInFlight, <1>6, <3>1 DEF UInv, TInv, ApprovalsPend, Approving
      <4> QED BY <4>1, SpecsAreVectors DEF WsRow, HasPendingResize, UInv, SparesAll
    <3> QED BY <1>3, <3>1, <3>2, <3>3 DEF Spares
  <2> QED BY <2>1, <2>2
<1>7. \A g \in Handlers : (op[g].pc = "write")' => (op[g].pc \in Places)'
  BY DEF Places, Approving
<1> QED BY <1>4, <1>5, <1>6, <1>7 DEF SparesAll

\* So does a step that reads and writes such rows only leave rows that grow.
LEMMA RowsKeepGrowing ==
  ASSUME UInv, NEW h \in Handlers, NEW o \in OpRecord, op' = [op EXCEPT ![h] = o],
         \A w \in Workspaces : OnlyGrows(ws'[w]),
         o.pc \in Places => OnlyGrows(o.row)
  PROVE  RowsGrow'
<1>1. \A g \in Handlers : op'[g] = IF g = h THEN o ELSE op[g]
  BY DEF UInv, TInv, ResizeTypeOK
<1> QED BY <1>1 DEF UInv, RowsGrow

\* What each step has to show.
Kept == RowsGrow' /\ SparesAll' /\ Backed' /\ [StoreNext]_storeVars

----------------------------------------------------------------------------
(* The steps that leave the ledger alone.                                  *)

\* Requests begin with a row that is covered.
LEMMA BeginKeeps ==
  ASSUME UInv, NEW h \in Handlers, NEW w \in Workspaces, NEW kind \in Kinds, NEW pc \in Places,
         pc \notin Waiting, pc # "write", Begin(h, kind, pc, w)
  PROVE  Kept
<1> DEFINE o == [kind |-> kind, pc |-> pc, w |-> w, row |-> ws[w]]
<1>1. o \in OpRecord /\ Growing(o) /\ \A v, r : Weight(o, v, r) = 0
  BY DEF UInv, TInv, ResizeTypeOK, OpRecord, Growing, Weight, IsWaiting
<1>2. op' = [op EXCEPT ![h] = o] /\ UNCHANGED <<storeVars, ws, guest, cast>>
  BY DEF Begin
<1>3. o.pc = pc /\ o.w = w /\ o.row = ws[w]
  OBVIOUS
<1> HIDE DEF o
<1>4. \A v \in Workspaces, r \in Resources : Weight(op[h], v, r) = 0
  BY DEF Begin, Weight, IsWaiting, Waiting, Idle
<1>5. \A v \in Workspaces : ws[v].spec \in Vector /\ Spares(v, ws[v].spec) /\ OnlyGrows(ws[v])
  BY Numbers DEF UInv, SparesAll, RowsGrow
<1>6. SparesAll'
  <2>1. \A v \in Workspaces, r \in Resources : Weight(o, v, r) <= Weight(op[h], v, r)
    BY <1>1, <1>4
  <2>2. /\ allocs' = allocs /\ cast' = cast /\ guest' = guest
        /\ \A v \in Workspaces : ws'[v].spec \in Vector /\ Spares(v, ws'[v].spec)
    BY <1>2, <1>5 DEF storeVars
  <2>3. o.pc # "write" /\ o.w \in Workspaces /\ o.row.spec \in Vector /\ Spares(o.w, o.row.spec)
    BY <1>3, <1>5
  <2> QED BY <1>1, <1>2, <2>1, <2>2, <2>3, OneMoves
<1>7. RowsGrow'
  BY <1>1, <1>2, <1>3, <1>5, RowsKeepGrowing
<1>8. Backed'
  BY <1>2 DEF UInv, Backed, storeVars
<1> QED BY <1>2, <1>6, <1>7, <1>8 DEF Kept

\* A request that ends, whatever it leaves in the row: a row it has read, with
\* or without a question, or the size its approval has moved everything to.
LEMMA EndKeeps ==
  ASSUME UInv, NEW h \in Handlers, Done(h), UNCHANGED <<storeVars, guest, cast>>,
         \/ ws' = ws
         \/ \E row \in WsRow :
              /\ ws' = [ws EXCEPT ![op[h].w] = row]
              /\ op[h].w \in Workspaces /\ OnlyGrows(row) /\ Spares(op[h].w, row.spec)
  PROVE  Kept
<1>1. /\ Idle \in OpRecord /\ Growing(Idle) /\ Idle.pc \notin Places
      /\ \A v, r : Weight(Idle, v, r) = 0
  BY DEF OpRecord, Growing, Weight, IsWaiting, Waiting, Idle, Places, Approving
<1>2. op' = [op EXCEPT ![h] = Idle]
  BY DEF Done
<1>3. \A v \in Workspaces : ws[v].spec \in Vector /\ Spares(v, ws[v].spec) /\ OnlyGrows(ws[v])
  BY Numbers DEF UInv, SparesAll, RowsGrow
<1>4. \A row \in WsRow : row.spec \in Vector
  BY SpecsAreVectors DEF WsRow
<1>5. \A v \in Workspaces : ws'[v].spec \in Vector /\ Spares(v, ws'[v].spec) /\ OnlyGrows(ws'[v])
  BY <1>3, <1>4 DEF UInv, TInv, ResizeTypeOK
<1>6. \A v \in Workspaces, r \in Resources : Weight(op[h], v, r) \in Nat
  BY <1>1, <1>2, OutMoves
<1>7. \A v \in Workspaces, r \in Resources : Weight(Idle, v, r) <= Weight(op[h], v, r)
  BY <1>1, <1>6
<1>8. SparesAll'
  BY <1>1, <1>2, <1>5, <1>7, OneMoves DEF storeVars
<1>9. RowsGrow'
  BY <1>1, <1>2, <1>5, RowsKeepGrowing
<1>10. Backed'
  BY DEF UInv, Backed, storeVars
<1> QED BY <1>8, <1>9, <1>10 DEF Kept

\* Rejections, other handlers' writes and failed calls.
LEMMA AnswersKeep ==
  ASSUME UInv, NEW h \in Handlers, RejectWrite(h) \/ TouchWrite(h) \/ CallFails(h)
  PROVE  Kept
<1>1. op[h].pc \in {"reject", "touch"} => op[h].pc \in Places
  BY DEF Places
<1>2. CASE RejectWrite(h)
  <2> DEFINE row == [op[h].row EXCEPT !.pending = NoSpec]
  <2>1. /\ op[h].w \in Workspaces /\ op[h].row \in WsRow
        /\ Spares(op[h].w, op[h].row.spec)
    BY <1>1, <1>2, RowInFlight DEF RejectWrite
  <2>2. row \in WsRow /\ OnlyGrows(row) /\ row.spec = op[h].row.spec
    BY <2>1 DEF WsRow, OnlyGrows, HasPendingResize
  <2>3. ws' = [ws EXCEPT ![op[h].w] = row] /\ Done(h) /\ UNCHANGED <<storeVars, guest, cast>>
    BY <1>2 DEF RejectWrite
  <2> HIDE DEF row
  <2> QED BY <2>1, <2>2, <2>3, EndKeeps
<1>3. CASE TouchWrite(h)
  BY <1>1, <1>3, RowInFlight, EndKeeps DEF TouchWrite
<1>4. CASE CallFails(h)
  BY <1>4, EndKeeps DEF CallFails
<1> QED BY <1>2, <1>3, <1>4

\* An approval writes the size its ledger call has paid for.
LEMMA WriteKeeps ==
  ASSUME UInv, NEW h \in Handlers, ApproveWrite(h)
  PROVE  Kept
<1> DEFINE row == [spec |-> op[h].row.pending, pending |-> NoSpec]
<1>1. op[h].pc = "write" /\ op[h].pc \in Approving
  BY DEF ApproveWrite, Approving
<1>2. op[h].w \in Workspaces /\ op[h].row \in WsRow /\ HasPendingResize(op[h].row)
  BY <1>1, ApprovalGrows DEF UInv
<1>3. Spares(op[h].w, op[h].row.pending)
  BY <1>1 DEF UInv, SparesAll
<1>4. row \in WsRow /\ OnlyGrows(row) /\ row.spec = op[h].row.pending
  BY <1>2 DEF WsRow, OnlyGrows, HasPendingResize
<1>5. ws' = [ws EXCEPT ![op[h].w] = row] /\ Done(h) /\ UNCHANGED <<storeVars, guest, cast>>
  BY DEF ApproveWrite
<1> HIDE DEF row
<1> QED BY <1>2, <1>3, <1>4, <1>5, EndKeeps

\* A request adds an upgrade to the row it has read.
LEMMA RequestKeeps ==
  ASSUME UInv, "downgrade" \notin cast.asks, NEW h \in Handlers, RequestWrite(h)
  PROVE  Kept
<1>1. op[h].pc = "ask" /\ op[h].pc \in Places
  BY DEF RequestWrite, Places
<1>2. /\ op[h].w \in Workspaces /\ op[h].row \in WsRow
      /\ op[h].row.spec \in Vector /\ Spares(op[h].w, op[h].row.spec)
      /\ op[h] \in [kind : Kinds, pc : Places, w : Workspaces, row : WsRow]
  BY <1>1, AtWork, RowInFlight DEF UInv, TInv
<1>3. PICK target \in Specs :
        /\ Kind([op[h].row EXCEPT !.pending = target]) \in cast.asks
        /\ ws' = [ws EXCEPT ![op[h].w] = [op[h].row EXCEPT !.pending = target]]
        /\ Goto(h, "read") \/ Done(h)
        /\ UNCHANGED <<storeVars, guest, cast>>
  BY DEF RequestWrite
<1> DEFINE row == [op[h].row EXCEPT !.pending = target]
<1>4. cast.asks \subseteq {"upgrade", "downgrade"}
  BY ResizeTypes DEF UInv, TInv, ResizeTypeOK, Cast
<1>5. row \in WsRow /\ OnlyGrows(row) /\ row.spec = op[h].row.spec
  BY <1>2, <1>3, <1>4 DEF WsRow, OnlyGrows
<1>6. ws' = [ws EXCEPT ![op[h].w] = row]
  BY <1>3
<1> HIDE DEF row
<1>7. CASE Done(h)
  BY <1>2, <1>3, <1>5, <1>6, <1>7, EndKeeps
<1>8. CASE Goto(h, "read")
  <2> DEFINE o == [op[h] EXCEPT !.pc = "read"]
  <2>1. "read" \in Places /\ "read" \notin Waiting
    BY DEF Places, Waiting
  <2>2. o \in OpRecord /\ o.pc = "read" /\ o.w = op[h].w /\ o.row = op[h].row
    BY <1>2, <2>1 DEF OpRecord
  <2>3. op' = [op EXCEPT ![h] = o]
    BY <1>8 DEF Goto
  <2> HIDE DEF o
  <2>4. Growing(o) /\ \A v, r : Weight(o, v, r) = 0 /\ Weight(op[h], v, r) = 0
    BY <1>1, <2>1, <2>2 DEF Growing, Weight, IsWaiting, Waiting
  <2>5. \A v \in Workspaces : ws[v].spec \in Vector /\ Spares(v, ws[v].spec) /\ OnlyGrows(ws[v])
    BY Numbers DEF UInv, SparesAll, RowsGrow
  <2>6. \A v \in Workspaces : ws'[v].spec \in Vector /\ Spares(v, ws'[v].spec) /\ OnlyGrows(ws'[v])
    BY <1>2, <1>5, <1>6, <2>5 DEF UInv, TInv, ResizeTypeOK
  <2>7. \A v \in Workspaces, r \in Resources : Weight(o, v, r) <= Weight(op[h], v, r)
    BY <2>4
  <2>8. SparesAll'
    BY <1>2, <1>3, <2>1, <2>2, <2>3, <2>4, <2>6, <2>7, OneMoves DEF storeVars
  <2>9. OnlyGrows(op[h].row)
    BY <1>1, RowInFlight
  <2>10. RowsGrow'
    BY <2>2, <2>3, <2>6, <2>9, RowsKeepGrowing
  <2> QED BY <1>3, <2>8, <2>10 DEF Kept, UInv, Backed, storeVars
<1> QED BY <1>3, <1>7, <1>8

\* An approval reads the row again.
LEMMA RereadKeeps ==
  ASSUME UInv, NEW h \in Handlers, ApproveReread(h)
  PROVE  Kept
<1>1. op[h].pc = "read" /\ op[h].pc \in Places
  BY DEF ApproveReread, Places
<1>2. /\ op[h].w \in Workspaces /\ ws[op[h].w] \in WsRow
      /\ op[h] \in [kind : Kinds, pc : Places, w : Workspaces, row : WsRow]
  BY <1>1, AtWork DEF UInv, TInv
<1>3. CASE Done(h)
  BY <1>3, EndKeeps DEF ApproveReread
<1>4. CASE op' = [op EXCEPT ![h].pc = "ledger", ![h].row = ws[op[h].w]]
  <2> DEFINE o == [op[h] EXCEPT !.pc = "ledger", !.row = ws[op[h].w]]
  <2>1. "ledger" \in Places /\ "ledger" \notin Waiting
    BY DEF Places, Approving, Waiting
  <2>2. o \in OpRecord /\ o.pc = "ledger" /\ o.w = op[h].w /\ o.row = ws[op[h].w]
    BY <1>2, <2>1 DEF OpRecord
  <2>3. op' = [op EXCEPT ![h] = o]
    BY <1>4 DEF UInv, TInv, ResizeTypeOK
  <2> HIDE DEF o
  <2>4. Growing(o) /\ \A v, r : Weight(o, v, r) = 0 /\ Weight(op[h], v, r) = 0
    BY <1>1, <2>1, <2>2 DEF Growing, Weight, IsWaiting, Waiting
  <2>5. \A v \in Workspaces : ws[v].spec \in Vector /\ Spares(v, ws[v].spec) /\ OnlyGrows(ws[v])
    BY Numbers DEF UInv, SparesAll, RowsGrow
  <2>6. UNCHANGED <<storeVars, ws, guest, cast>>
    BY DEF ApproveReread
  <2>7. \A v \in Workspaces, r \in Resources : Weight(o, v, r) <= Weight(op[h], v, r)
    BY <2>4
  <2>8. SparesAll'
    BY <1>2, <2>2, <2>3, <2>4, <2>5, <2>6, <2>7, OneMoves DEF storeVars
  <2>9. RowsGrow'
    BY <1>2, <2>2, <2>3, <2>5, <2>6, RowsKeepGrowing
  <2> QED BY <2>6, <2>8, <2>9 DEF Kept, UInv, Backed, storeVars
<1> QED BY <1>3, <1>4 DEF ApproveReread

----------------------------------------------------------------------------
(* The steps that move the allocation or the instance.                     *)

\* A resize that takes no more than there is moves the size of its workspace
\* by the difference and is a call the ledger allows.
LEMMA ExpandSizes ==
  ASSUME UInv, NEW w \in Workspaces, NEW d \in Deltas, ExpandAllocation(AllocOf[w], d),
         \A r \in Resources : SizeOf(w)[r] + d[r] >= 0
  PROVE  /\ \A v \in Workspaces, r \in Resources :
              SizeOf(v)'[r] = SizeOf(v)[r] + (IF v = w THEN d[r] ELSE 0)
         /\ Backed' /\ StoreNext
<1> DEFINE a == AllocOf[w]
<1>1. d \in [Resources -> Int]
  BY InputTypes
<1>2. a \in AllocIds /\ allocs[a] \in Allocation /\ allocs[a].size \in Vector
  BY Numbers DEF SizeOf
<1>3. \A v \in Workspaces : /\ AllocOf[v] \in AllocIds
                            /\ v # w => AllocOf[v] # a
                            /\ SizeOf(v) \in Vector
  BY ResizeTypes, Numbers
<1>4. allocs' = [allocs EXCEPT ![a] = [allocs[a] EXCEPT !.size = Clamp(Plus(allocs[a].size, d))]]
  BY DEF ExpandAllocation
<1>5. allocs \in [AllocIds -> Allocation \cup {NoAlloc}]
  BY DEF UInv, TInv, TypeOK
<1>6. /\ allocs'[a].size = Clamp(Plus(allocs[a].size, d))
      /\ allocs'[a] \in Allocation /\ allocs'[a].state = allocs[a].state
      /\ \A b \in AllocIds : b # a => allocs'[b] = allocs[b]
  <2>1. Clamp(Plus(allocs[a].size, d)) \in Vector
    BY <1>1, <1>2, VectorArithmetic
  <2> QED BY <1>2, <1>4, <1>5, <2>1 DEF Allocation
<1>7. ASSUME NEW v \in Workspaces, NEW r \in Resources
      PROVE  SizeOf(v)'[r] = SizeOf(v)[r] + (IF v = w THEN d[r] ELSE 0)
  <2>1. CASE v = w
    <3>1. allocs[a].size[r] + d[r] >= 0
      BY DEF SizeOf
    <3>2. Clamp(Plus(allocs[a].size, d))[r] = allocs[a].size[r] + d[r]
      BY <1>1, <1>2, <3>1, VectorArithmetic
    <3> QED BY <1>6, <2>1, <3>2 DEF SizeOf
  <2>2. CASE v # w
    BY <1>3, <1>6, <2>2 DEF SizeOf, Vector
  <2> QED BY <2>1, <2>2
<1>8. Backed'
  <2>1. nodes' = nodes
    BY DEF ExpandAllocation
  <2>2. \A v \in Workspaces : IsLive(allocs'[AllocOf[v]])
    BY <1>2, <1>3, <1>6, NoAllocIsNoRow DEF UInv, Backed, IsLive
  <2> QED BY <2>1, <2>2 DEF UInv, Backed
<1>9. ResizeWithinSize(a, d)
  BY DEF ResizeWithinSize, ShrinkWithinSize, SizeOf
<1> QED BY <1>2, <1>7, <1>8, <1>9 DEF StoreNext, OtherCalls

\* An approval that moves on, with no less room than before for what has been
\* promised and for the instance.
LEMMA ApprovalMoves ==
  ASSUME UInv, NEW h \in Handlers, NEW o \in OpRecord, op' = [op EXCEPT ![h] = o],
         ws' = ws, cast' = cast,
         \A v \in Workspaces, r \in Resources :
           /\ SizeOf(v)'[r] \in Int /\ Out(v, r)' \in Int
           /\ SizeOf(v)'[r] - Out(v, r)' >= SizeOf(v)[r] - Out(v, r),
         ~cast.disk_fails => \A v \in Workspaces, r \in Resources :
                               SizeOf(v)'[r] >= Out(v, r)' + guest'[v][r],
         o.pc \in Places => op[h].pc \in Places /\ o.w = op[h].w /\ o.row = op[h].row,
         o.pc = "write" => \A v \in Workspaces, r \in Resources :
                             v = o.w => SizeOf(v)'[r] >= Out(v, r)' + o.row.pending[r]
  PROVE  RowsGrow' /\ SparesAll'
<1>1. ASSUME NEW v \in Workspaces, NEW x \in Vector, Spares(v, x)
      PROVE  \A r \in Resources : SizeOf(v)'[r] >= Out(v, r)' + x[r]
  <2> SUFFICES ASSUME NEW r \in Resources PROVE SizeOf(v)'[r] >= Out(v, r)' + x[r]
    OBVIOUS
  <2>1. SizeOf(v)[r] \in Nat /\ Out(v, r) \in Nat /\ x[r] \in Nat
    BY Numbers DEF Vector
  <2>2. SizeOf(v)[r] >= Out(v, r) + x[r]
    BY <1>1 DEF Spares
  <2> QED BY <2>1, <2>2
<1>2. \A g \in Handlers : op'[g] = IF g = h THEN o ELSE op[g]
  BY DEF UInv, TInv, ResizeTypeOK
<1>3. (\A w \in Workspaces : Spares(w, ws[w].spec))'
  BY <1>1, Numbers DEF Spares, UInv, SparesAll
<1>4. (~cast.disk_fails => \A w \in Workspaces : Spares(w, guest[w]))'
  BY DEF Spares
<1>5. ASSUME NEW g \in Handlers, (op[g].pc \in Places)' PROVE Spares(op[g].w, op[g].row.spec)'
  <2>1. op[g].pc \in Places /\ op'[g].w = op[g].w /\ op'[g].row = op[g].row
    BY <1>2, <1>5
  <2>2. op[g].w \in Workspaces /\ op[g].row.spec \in Vector /\ Spares(op[g].w, op[g].row.spec)
    BY <2>1, RowInFlight
  <2> QED BY <1>1, <2>1, <2>2 DEF Spares
<1>6. ASSUME NEW g \in Handlers, (op[g].pc = "write")' PROVE Spares(op[g].w, op[g].row.pending)'
  <2>1. CASE g = h
    <3>1. op'[g] = o /\ o.pc = "write" /\ op[h].pc \in Places /\ o.w = op[h].w
      BY <1>2, <1>6, <2>1 DEF Places, Approving
    <3>2. o.w \in Workspaces
      BY <3>1, RowInFlight
    <3> QED BY <3>1, <3>2 DEF Spares
  <2>2. CASE g # h
    <3>1. op'[g] = op[g] /\ op[g].pc = "write" /\ op[g].pc \in Approving
      BY <1>2, <1>6, <2>2 DEF Approving
    <3>2. op[g].w \in Workspaces /\ op[g].row \in WsRow /\ HasPendingResize(op[g].row)
      BY <3>1, ApprovalGrows DEF UInv
    <3>3. op[g].row.pending \in Vector /\ Spares(op[g].w, op[g].row.pending)
      BY <3>1, <3>2, SpecsAreVectors DEF WsRow, HasPendingResize, UInv, SparesAll
    <3> QED BY <1>1, <3>1, <3>2, <3>3 DEF Spares
  <2> QED BY <2>1, <2>2
<1>7. RowsGrow'
  <2>1. o.pc \in Places => OnlyGrows(o.row)
    BY DEF UInv, RowsGrow
  <2>2. \A w \in Workspaces : OnlyGrows(ws'[w])
    BY DEF UInv, RowsGrow
  <2> QED BY <2>1, <2>2, RowsKeepGrowing
<1> QED BY <1>3, <1>4, <1>5, <1>6, <1>7 DEF SparesAll

\* What an approval becomes when it goes to another place.
LEMMA ApprovalGoes ==
  ASSUME UInv, NEW h \in Handlers, op[h].pc \in Approving, NEW pc \in Approving, Goto(h, pc)
  PROVE  LET o == [op[h] EXCEPT !.pc = pc] IN
         /\ o \in OpRecord /\ o.pc = pc /\ o.w = op[h].w /\ o.row = op[h].row
         /\ op' = [op EXCEPT ![h] = o]
         /\ Growing(o)
<1> DEFINE o == [op[h] EXCEPT !.pc = pc]
<1>1. op[h].pc \in Places /\ pc \in Places
  BY DEF Places
<1>2. op[h] \in [kind : Kinds, pc : Places, w : Workspaces, row : WsRow]
  BY <1>1, AtWork DEF UInv, TInv
<1>3. o \in OpRecord /\ o.pc = pc /\ o.w = op[h].w /\ o.row = op[h].row
  BY <1>1, <1>2 DEF OpRecord
<1>4. \A r \in Resources : Delta(op[h].row)[r] \in Nat
  BY ApprovalGrows DEF UInv
<1>5. Growing(o)
  <2> HIDE DEF o
  <2> QED BY <1>3, <1>4 DEF Growing
<1> QED BY <1>3, <1>5 DEF Goto

\* The ledger call of an approval: what it adds to the allocation the
\* approval holds.
LEMMA LedgerKeeps ==
  ASSUME UInv, NEW h \in Handlers, ApproveLedger(h)
  PROVE  Kept
<1> DEFINE w == op[h].w
           d == Delta(op[h].row)
           o == [op[h] EXCEPT !.pc = "runtime"]
<1>1. op[h].pc = "ledger" /\ op[h].pc \in Approving /\ "ledger" \notin Waiting /\ "runtime" \in Approving
  BY DEF ApproveLedger, Approving, Waiting
<1>2. /\ w \in Workspaces /\ op[h].row \in WsRow /\ op[h].pc \in Places
      /\ HasPendingResize(op[h].row)
      /\ \A r \in Resources : d[r] \in Nat
  BY <1>1, ApprovalGrows DEF UInv
<1>3. CASE ~CanExpand(AllocOf[w], d) /\ Done(h) /\ UNCHANGED <<storeVars, ws, guest, cast>>
  BY <1>3, EndKeeps
<1>4. CASE ExpandAllocation(AllocOf[w], d) /\ Goto(h, "runtime") /\ UNCHANGED <<ws, guest, cast>>
  <2>1. /\ o \in OpRecord /\ o.pc = "runtime" /\ o.w = w /\ o.row = op[h].row
        /\ op' = [op EXCEPT ![h] = o] /\ Growing(o)
    BY <1>1, <1>4, ApprovalGoes
  <2> HIDE DEF o
  <2>2. d \in Deltas /\ \A r \in Resources : SizeOf(w)[r] + d[r] >= 0
    <3>1. \A r \in Resources : SizeOf(w)[r] \in Nat
      BY <1>2, Numbers
    <3> QED BY <1>2, <3>1, DeltaOfRow
  <2>3. /\ \A v \in Workspaces, r \in Resources :
             SizeOf(v)'[r] = SizeOf(v)[r] + (IF v = w THEN d[r] ELSE 0)
        /\ Backed' /\ StoreNext
    <3> HIDE DEF w, d
    <3> QED BY <1>2, <1>4, <2>2, ExpandSizes
  <2>4. ASSUME NEW v \in Workspaces, NEW r \in Resources
        PROVE  /\ SizeOf(v)'[r] \in Int /\ Out(v, r)' \in Int
               /\ SizeOf(v)'[r] - Out(v, r)' = SizeOf(v)[r] - Out(v, r)
               /\ ~cast.disk_fails => SizeOf(v)'[r] >= Out(v, r)' + guest[v][r]
    <3>1. Weight(op[h], v, r) = 0
      BY <1>1 DEF Weight, IsWaiting
    <3>2. Weight(o, v, r) = IF v = w THEN d[r] ELSE 0
      BY <2>1 DEF Weight, IsWaiting, Waiting
    <3>3. /\ Out(v, r) \in Nat /\ Out(v, r)' \in Nat
          /\ Out(v, r)' = Out(v, r) - Weight(op[h], v, r) + Weight(o, v, r)
      BY <2>1, OutMoves
    <3>4. SizeOf(v)[r] \in Nat /\ guest[v][r] \in Nat
      BY Numbers DEF Vector
    <3>5. ~cast.disk_fails => SizeOf(v)[r] >= Out(v, r) + guest[v][r]
      BY DEF UInv, SparesAll, Spares
    <3>6. SizeOf(v)'[r] = SizeOf(v)[r] + (IF v = w THEN d[r] ELSE 0) /\ d[r] \in Nat
      BY <1>2, <2>3
    <3> HIDE DEF w, d
    <3> QED BY <3>1, <3>2, <3>3, <3>4, <3>5, <3>6
  <2>5. RowsGrow' /\ SparesAll'
    <3>1. \A v \in Workspaces, r \in Resources :
            /\ SizeOf(v)'[r] \in Int /\ Out(v, r)' \in Int
            /\ SizeOf(v)'[r] - Out(v, r)' >= SizeOf(v)[r] - Out(v, r)
      BY <2>4, Numbers
    <3>2. ~cast.disk_fails => \A v \in Workspaces, r \in Resources :
                                SizeOf(v)'[r] >= Out(v, r)' + guest'[v][r]
      BY <1>4, <2>4
    <3>3. ws' = ws /\ cast' = cast /\ o.pc # "write"
      BY <1>4, <2>1
    <3> QED BY <1>2, <2>1, <3>1, <3>2, <3>3, ApprovalMoves
  <2> QED BY <2>3, <2>5 DEF Kept
<1> QED BY <1>3, <1>4 DEF ApproveLedger

\* The call of the runtime: the instance takes what the approval held, or the
\* approval goes to give it back.
LEMMA RuntimeKeeps ==
  ASSUME UInv, NEW h \in Handlers, ApproveRuntime(h)
  PROVE  Kept
<1> DEFINE w == op[h].w
           d == Delta(op[h].row)
<1>1. op[h].pc = "runtime" /\ op[h].pc \in Approving /\ op[h].pc \in Waiting
  BY DEF ApproveRuntime, Approving, Waiting
<1>2. /\ w \in Workspaces /\ op[h].row \in WsRow /\ op[h].pc \in Places
      /\ \A r \in Resources : /\ d[r] \in Nat /\ op[h].row.spec[r] \in Nat
                              /\ op[h].row.pending[r] = op[h].row.spec[r] + d[r]
  BY <1>1, ApprovalGrows DEF UInv
<1>3. UNCHANGED <<storeVars, ws, cast>> /\ \A v \in Workspaces : SizeOf(v)' = SizeOf(v)
  BY DEF ApproveRuntime, storeVars, SizeOf
<1>4. Backed'
  BY <1>3 DEF UInv, Backed, storeVars
<1>5. CASE /\ guest' = [guest EXCEPT ![w] = op[h].row.pending]
           /\ Goto(h, "write")
  <2> DEFINE o == [op[h] EXCEPT !.pc = "write"]
  <2>1. /\ o \in OpRecord /\ o.pc = "write" /\ o.w = w /\ o.row = op[h].row
        /\ op' = [op EXCEPT ![h] = o] /\ Growing(o)
    BY <1>1, <1>5, ApprovalGoes DEF Approving
  <2> HIDE DEF o
  <2>2. ASSUME NEW v \in Workspaces, NEW r \in Resources
        PROVE  /\ SizeOf(v)'[r] \in Int /\ Out(v, r)' \in Int
               /\ SizeOf(v)'[r] - Out(v, r)' >= SizeOf(v)[r] - Out(v, r)
               /\ v = w => SizeOf(v)'[r] >= Out(v, r)' + op[h].row.pending[r]
               /\ ~cast.disk_fails /\ v # w => SizeOf(v)'[r] >= Out(v, r)' + guest[v][r]
    <3>1. Weight(op[h], v, r) = IF v = w THEN d[r] ELSE 0
      BY <1>1 DEF Weight, IsWaiting
    <3>2. Weight(o, v, r) = 0
      BY <2>1 DEF Weight, IsWaiting, Waiting
    <3>3. /\ Out(v, r) \in Nat /\ Out(v, r)' \in Nat
          /\ Out(v, r)' = Out(v, r) - Weight(op[h], v, r) + Weight(o, v, r)
      BY <2>1, OutMoves
    <3>4. SizeOf(v)[r] \in Nat /\ guest[v][r] \in Nat
      BY Numbers DEF Vector
    <3>5. ~cast.disk_fails => SizeOf(v)[r] >= Out(v, r) + guest[v][r]
      BY DEF UInv, SparesAll, Spares
    <3>6. SizeOf(w)[r] >= Out(w, r) + op[h].row.spec[r]
      BY <1>2, RowInFlight DEF Spares
    <3>7. /\ d[r] \in Nat /\ op[h].row.spec[r] \in Nat
          /\ op[h].row.pending[r] = op[h].row.spec[r] + d[r]
      BY <1>2
    <3> HIDE DEF w, d
    <3> QED BY <1>3, <3>1, <3>2, <3>3, <3>4, <3>5, <3>6, <3>7
  <2>3. ~cast.disk_fails => \A v \in Workspaces, r \in Resources :
                              SizeOf(v)'[r] >= Out(v, r)' + guest'[v][r]
    <3>1. \A v \in Workspaces : guest'[v] = IF v = w THEN op[h].row.pending ELSE guest[v]
      BY <1>5 DEF UInv, TInv, ResizeTypeOK
    <3> QED BY <2>2, <3>1
  <2>4. RowsGrow' /\ SparesAll'
    <3>1. \A v \in Workspaces, r \in Resources :
            v = o.w => SizeOf(v)'[r] >= Out(v, r)' + o.row.pending[r]
      BY <2>1, <2>2
    <3>2. \A v \in Workspaces, r \in Resources :
            /\ SizeOf(v)'[r] \in Int /\ Out(v, r)' \in Int
            /\ SizeOf(v)'[r] - Out(v, r)' >= SizeOf(v)[r] - Out(v, r)
      BY <2>2
    <3>3. o.pc \in Places => op[h].pc \in Places /\ o.w = op[h].w /\ o.row = op[h].row
      BY <1>2, <2>1
    <3> QED BY <1>3, <2>1, <2>3, <3>1, <3>2, <3>3, ApprovalMoves
  <2> QED BY <1>3, <1>4, <2>4 DEF Kept
<1>6. CASE Goto(h, "compensate") /\ (~cast.disk_fails => guest' = guest)
  <2> DEFINE o == [op[h] EXCEPT !.pc = "compensate"]
  <2>1. /\ o \in OpRecord /\ o.pc = "compensate" /\ o.w = w /\ o.row = op[h].row
        /\ op' = [op EXCEPT ![h] = o] /\ Growing(o)
    BY <1>1, <1>6, ApprovalGoes DEF Approving
  <2> HIDE DEF o
  <2>2. \A v \in Workspaces, r \in Resources : Weight(o, v, r) = Weight(op[h], v, r)
    BY <1>1, <2>1 DEF Weight, IsWaiting, Waiting
  <2>3. ASSUME NEW v \in Workspaces, NEW r \in Resources
        PROVE  /\ SizeOf(v)'[r] \in Int /\ Out(v, r)' \in Int
               /\ SizeOf(v)'[r] - Out(v, r)' >= SizeOf(v)[r] - Out(v, r)
               /\ ~cast.disk_fails => SizeOf(v)'[r] >= Out(v, r)' + guest'[v][r]
    <3>1. /\ Out(v, r) \in Nat /\ Out(v, r)' \in Nat /\ Weight(o, v, r) \in Nat
          /\ Out(v, r)' = Out(v, r) - Weight(op[h], v, r) + Weight(o, v, r)
      BY <2>1, OutMoves
    <3>2. Out(v, r)' = Out(v, r)
      BY <2>2, <3>1
    <3>3. SizeOf(v)[r] \in Nat
      BY Numbers
    <3>4. ~cast.disk_fails => SizeOf(v)[r] >= Out(v, r) + guest'[v][r]
      BY <1>6 DEF UInv, SparesAll, Spares
    <3> QED BY <1>3, <3>1, <3>2, <3>3, <3>4
  <2>4. RowsGrow' /\ SparesAll'
    <3>1. /\ o.pc # "write"
          /\ o.pc \in Places => op[h].pc \in Places /\ o.w = op[h].w /\ o.row = op[h].row
      BY <1>2, <2>1
    <3> QED BY <1>3, <2>1, <2>3, <3>1, ApprovalMoves
  <2> QED BY <1>3, <1>4, <2>4 DEF Kept
<1> QED BY <1>5, <1>6 DEF ApproveRuntime

\* Taking back what an approval held: the ledger cannot refuse, and never cuts
\* off at 0, for the allocation has what the approval holds.
LEMMA CompensateKeeps ==
  ASSUME UInv, NEW h \in Handlers, ApproveCompensate(h)
  PROVE  Kept
<1> DEFINE w == op[h].w
           d == Delta(op[h].row)
           back == Negated(Delta(op[h].row))
<1>1. op[h].pc = "compensate" /\ op[h].pc \in Approving /\ op[h].pc \in Waiting
  BY DEF ApproveCompensate, Approving, Waiting
<1>2. /\ w \in Workspaces /\ op[h].row \in WsRow /\ op[h].pc \in Places
      /\ HasPendingResize(op[h].row) /\ Kind(op[h].row) = "upgrade"
      /\ \A r \in Resources : d[r] \in Nat /\ back[r] = -d[r]
  BY <1>1, ApprovalGrows DEF UInv, RowsGrow, OnlyGrows
<1>3. /\ ExpandAllocation(AllocOf[w], back) \/ UNCHANGED storeVars
      /\ Done(h) /\ UNCHANGED <<ws, guest, cast>>
  BY <1>2 DEF ApproveCompensate
<1>4. CASE UNCHANGED storeVars
  BY <1>3, <1>4, EndKeeps
<1>5. CASE ExpandAllocation(AllocOf[w], back)
  <2>1. /\ Idle \in OpRecord /\ Growing(Idle) /\ Idle.pc \notin Places /\ Idle.pc # "write"
        /\ op' = [op EXCEPT ![h] = Idle]
        /\ \A v, r : Weight(Idle, v, r) = 0
    BY <1>3 DEF Done, OpRecord, Growing, Weight, IsWaiting, Waiting, Idle, Places, Approving
  <2>2. ASSUME NEW v \in Workspaces, NEW r \in Resources
        PROVE  /\ Weight(op[h], v, r) = IF v = w THEN d[r] ELSE 0
               /\ Out(v, r) \in Nat /\ Out(v, r)' \in Nat
               /\ Out(v, r)' = Out(v, r) - Weight(op[h], v, r)
               /\ Weight(op[h], v, r) <= Out(v, r)
    <3>1. Weight(op[h], v, r) = IF v = w THEN d[r] ELSE 0
      BY <1>1 DEF Weight, IsWaiting
    <3>2. /\ Out(v, r) \in Nat /\ Out(v, r)' \in Nat
          /\ Weight(op[h], v, r) \in Nat /\ Weight(op[h], v, r) <= Out(v, r)
          /\ Out(v, r)' = Out(v, r) - Weight(op[h], v, r) + Weight(Idle, v, r)
      BY <2>1, OutMoves
    <3>3. Weight(Idle, v, r) = 0
      BY <2>1
    <3> HIDE DEF w, d, back
    <3> QED BY <3>1, <3>2, <3>3
  <2>3. back \in Deltas /\ \A r \in Resources : SizeOf(w)[r] + back[r] >= 0
    <3>1. back \in Deltas
      BY <1>2, DeltaOfRow
    <3>2. \A r \in Resources : /\ SizeOf(w)[r] >= Out(w, r) + op[h].row.spec[r]
                               /\ op[h].row.spec[r] \in Nat
      BY <1>2, RowInFlight DEF Spares, Vector
    <3>3. \A r \in Resources : SizeOf(w)[r] \in Nat /\ d[r] <= Out(w, r) /\ Out(w, r) \in Nat
      BY <1>2, <2>2, Numbers
    <3> HIDE DEF w, d, back
    <3> QED BY <1>2, <3>1, <3>2, <3>3
  <2>4. /\ \A v \in Workspaces, r \in Resources :
             SizeOf(v)'[r] = SizeOf(v)[r] + (IF v = w THEN back[r] ELSE 0)
        /\ Backed' /\ StoreNext
    <3> HIDE DEF w, back
    <3> QED BY <1>2, <1>5, <2>3, ExpandSizes
  <2>5. ASSUME NEW v \in Workspaces, NEW r \in Resources
        PROVE  /\ SizeOf(v)'[r] \in Int /\ Out(v, r)' \in Int
               /\ SizeOf(v)'[r] - Out(v, r)' >= SizeOf(v)[r] - Out(v, r)
               /\ ~cast.disk_fails => SizeOf(v)'[r] >= Out(v, r)' + guest'[v][r]
    <3>1. SizeOf(v)[r] \in Nat /\ guest[v][r] \in Nat /\ guest'[v][r] = guest[v][r]
      BY <1>3, Numbers DEF Vector
    <3>2. ~cast.disk_fails => SizeOf(v)[r] >= Out(v, r) + guest[v][r]
      BY DEF UInv, SparesAll, Spares
    <3>3. d[r] \in Nat /\ back[r] = -d[r]
      BY <1>2
    <3>4. SizeOf(v)'[r] = SizeOf(v)[r] + (IF v = w THEN back[r] ELSE 0)
      BY <2>4
    <3> HIDE DEF w, d, back
    <3> QED BY <2>2, <3>1, <3>2, <3>3, <3>4
  <2>6. RowsGrow' /\ SparesAll'
    BY <1>3, <2>1, <2>5, ApprovalMoves
  <2> QED BY <2>4, <2>6 DEF Kept
<1> QED BY <1>3, <1>4, <1>5

----------------------------------------------------------------------------
(* The invariant and the theorems.                                         *)

\* It holds at the beginning, and so does the invariant of the ledger.
LEMMA ResizeInitially == ResizeInit => UInv /\ IInv
<1> SUFFICES ASSUME ResizeInit PROVE UInv /\ IInv
  OBVIOUS
<1> DEFINE rowOf(a) == CHOOSE w \in Workspaces : AllocOf[w] = a
           taken    == {AllocOf[w] : w \in Workspaces}
           row(a)   == [project |-> ProjectOf[rowOf(a)], node |-> HostOf[rowOf(a)],
                        size |-> FirstSpec, state |-> "active"]
<1>1. FirstSpec \in Specs /\ FirstSpec \in Vector
  BY ResizeTypes, SpecsAreVectors
<1>2. \A a \in taken : rowOf(a) \in Workspaces
  OBVIOUS
<1>3. \A a \in taken : row(a) \in Allocation
  BY <1>1, <1>2, ResizeTypes DEF Allocation, AllocStates
<1>4. allocs = [a \in AllocIds |-> IF a \in taken THEN row(a) ELSE NoAlloc]
  BY DEF ResizeInit
<1>5. allocs \in [AllocIds -> Allocation \cup {NoAlloc}]
  BY <1>3, <1>4
<1>6. \A n \in Nodes, r \in Resources : Charged(n, r) \in Nat
  <2>1. allocs \in Tables
    BY <1>5 DEF Tables
  <2> QED BY <2>1, UnitsFinite, FS_CardinalityType DEF Charged
<1>7. used = [n \in Nodes |-> [r \in Resources |-> Charged(n, r)]] /\ used \in [Nodes -> Vector]
  BY <1>6 DEF ResizeInit, Vector
<1>8. TypeOK
  BY <1>5, <1>7, InputTypes DEF ResizeInit, TypeOK
<1>9. \A w \in Workspaces : allocs[AllocOf[w]] = row(AllocOf[w]) /\ IsLive(allocs[AllocOf[w]])
  <2> SUFFICES ASSUME NEW w \in Workspaces
               PROVE  allocs[AllocOf[w]] = row(AllocOf[w]) /\ IsLive(allocs[AllocOf[w]])
    OBVIOUS
  <2>1. AllocOf[w] \in AllocIds /\ AllocOf[w] \in taken
    BY ResizeTypes
  <2>2. allocs[AllocOf[w]] = row(AllocOf[w])
    BY <1>4, <2>1
  <2>3. row(AllocOf[w]) \in Allocation /\ row(AllocOf[w]).state = "active"
    BY <1>3, <2>1
  <2> QED BY <2>2, <2>3, NoAllocIsNoRow DEF IsLive
<1>10. Backed
  BY <1>9 DEF Backed, ResizeInit
<1>11. \A h \in Handlers : op[h] = Idle /\ Idle.pc \notin Places /\ Idle.pc \notin Approving
                           /\ Idle.pc \notin Waiting /\ Idle.pc # "write"
  BY DEF ResizeInit, Idle, Places, Approving, Waiting
<1>12. TInv
  BY <1>1, <1>8, <1>11 DEF ResizeInit, TInv, ResizeTypeOK, ApprovalsPend, WsRow, OpRecord
<1>13. RowsGrow
  BY <1>11 DEF ResizeInit, RowsGrow, OnlyGrows, HasPendingResize
<1>14. SparesAll
  <2>1. \A a \in AllocIds : row(a).size = FirstSpec
    OBVIOUS
  <2>2. \A w \in Workspaces : SizeOf(w) = FirstSpec
    <3> HIDE DEF row
    <3> QED BY <1>9, <2>1, ResizeTypes DEF SizeOf
  <2>3. \A w, r : Shares(op, w, r) = {}
    BY <1>11 DEF Shares, IsWaiting
  <2>4. \A w, r : Out(w, r) = 0
    BY <2>3, FS_EmptySet DEF Out
  <2>5. \A w \in Workspaces : Spares(w, FirstSpec)
    BY <1>1, <2>2, <2>4 DEF Spares, Vector
  <2> QED BY <1>11, <2>5 DEF ResizeInit, SparesAll
<1>15. LiveOnRegistered
  BY <1>8 DEF TypeOK, LiveOnRegistered, IsLive, Allocation, ResizeInit
<1>16. UsedCoversLive
  BY <1>6, <1>7 DEF UsedCoversLive, ResizeInit
<1> QED BY <1>8, <1>10, <1>12, <1>13, <1>14, <1>15, <1>16 DEF UInv, IInv

\* One step of anybody.
LEMMA ResizeStep ==
  ASSUME UInv, "downgrade" \notin cast.asks, [ResizeNext]_vars
  PROVE  UInv' /\ [StoreNext]_storeVars
<1>1. ASSUME NEW h \in Handlers, NEW w \in Workspaces,
             RequestRead(h, w) \/ ApproveRead(h, w) \/ RejectRead(h, w) \/ TouchRead(h, w)
      PROVE  Kept
  <2>1. \E kind \in Kinds, pc \in Places :
          Begin(h, kind, pc, w) /\ pc \notin Waiting /\ pc # "write"
    BY <1>1 DEF RequestRead, ApproveRead, RejectRead, TouchRead, Kinds, Places, Approving, Waiting
  <2> QED BY <2>1, BeginKeeps
<1>2. ASSUME NEW h \in Handlers,
             \/ RequestWrite(h) \/ ApproveReread(h) \/ ApproveLedger(h)
             \/ ApproveRuntime(h) \/ ApproveCompensate(h) \/ ApproveWrite(h)
             \/ RejectWrite(h) \/ TouchWrite(h) \/ CallFails(h)
      PROVE  Kept
  BY <1>2, RequestKeeps, RereadKeeps, LedgerKeeps, RuntimeKeeps, CompensateKeeps, WriteKeeps,
     AnswersKeep
<1>3. ASSUME UNCHANGED vars PROVE Kept
  <2>1. Backed' /\ RowsGrow'
    BY <1>3 DEF UInv, vars, storeVars, resizeVars, Backed, RowsGrow
  <2>2. SparesAll'
    BY <1>3 DEF UInv, vars, storeVars, resizeVars, SparesAll, Spares, SizeOf, Out
  <2> QED BY <1>3, <2>1, <2>2 DEF Kept, vars
<1>4. Kept
  BY <1>1, <1>2, <1>3 DEF ResizeNext
<1> QED BY <1>4, TypesStep DEF UInv, Kept

\* Tables, rows and requests keep their shape, whoever takes part and whatever
\* fails: a downgrade applied twice stops at 0.
THEOREM ResizeTypeCorrect == ResizeSafety => [](TypeOK /\ ResizeTypeOK)
<1>1. ResizeInit => TInv
  BY ResizeInitially DEF UInv
<1>2. TInv /\ [ResizeNext]_vars => TInv'
  BY TypesStep
<1>3. TInv => TypeOK /\ ResizeTypeOK
  BY DEF TInv
<1> QED BY <1>1, <1>2, <1>3, PTL DEF ResizeSafety

\* The invariant and the calls, where people ask for upgrades only.
LEMMA UpgradesInvariant ==
  ASSUME \A c \in Casts : "downgrade" \notin c.asks
  PROVE  ResizeSafety => [](UInv /\ IInv) /\ StoreSteps
<1>1. ResizeInit => UInv /\ IInv
  BY ResizeInitially
<1>2. UInv => "downgrade" \notin cast.asks
  BY DEF UInv, TInv, ResizeTypeOK
<1>3. UInv /\ IInv /\ [ResizeNext]_vars => (UInv /\ IInv)' /\ [StoreNext]_storeVars
  BY <1>2, ResizeStep, IInvStep
<1> QED BY <1>1, <1>3, PTL DEF ResizeSafety, StoreSteps

\* Every ledger call of an upgrade, its compensation included, is one the ledger
\* allows, however many people approve it, reject it or write old rows back.
THEOREM UpgradesStayWithinStore ==
  ASSUME \A c \in Casts : "downgrade" \notin c.asks
  PROVE  ResizeSafety => StoreSteps
BY UpgradesInvariant, PTL

\* No upgrade binds more of a node than it offers, in any race.
THEOREM UpgradesNeverOversell ==
  ASSUME \A c \in Casts : "downgrade" \notin c.asks
  PROVE  ResizeSafety => NoOversell
<1>1. IInv /\ [StoreNext]_storeVars =>
        [\A n \in Nodes, r \in Resources :
           Charged(n, r)' > Charged(n, r) =>
             Charged(n, r)' <= allocatable'[n][r]]_storeVars
  BY NoOversellStep
<1> QED BY <1>1, UpgradesInvariant, PTL DEF StoreSteps, NoOversell

\* What a row promises and what its instance has is paid for at every moment of
\* every race: nobody is handed capacity that is not charged.
THEOREM UpgradesArePaidFor ==
  ASSUME \A c \in Casts : "downgrade" \notin c.asks
  PROVE  ResizeSafety => []((\A w \in Workspaces : Covered(w)) /\ UncoveredOnlyWhileShrinking)
<1>1. UInv => (\A w \in Workspaces : Covered(w)) /\ UncoveredOnlyWhileShrinking
  <2> SUFFICES ASSUME UInv, NEW w \in Workspaces, NEW r \in Resources
               PROVE  /\ SizeOf(w)[r] >= ws[w].spec[r]
                      /\ ~cast.disk_fails => /\ SizeOf(w)[r] >= guest[w][r]
                                             /\ ~(guest[w][r] > SizeOf(w)[r])
    BY DEF Covered, Covers, UncoveredOnlyWhileShrinking
  <2>1. /\ SizeOf(w)[r] >= Out(w, r) + ws[w].spec[r]
        /\ ~cast.disk_fails => SizeOf(w)[r] >= Out(w, r) + guest[w][r]
    BY DEF UInv, SparesAll, Spares
  <2>2. /\ SizeOf(w)[r] \in Nat /\ Out(w, r) \in Nat
        /\ ws[w].spec[r] \in Nat /\ guest[w][r] \in Nat
    BY Numbers DEF Vector
  <2> QED BY <2>1, <2>2
<1> QED BY <1>1, UpgradesInvariant, PTL
=============================================================================
