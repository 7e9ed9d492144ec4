--------------------------- MODULE Ledger_proofs ---------------------------
(***************************************************************************)
(* Proofs about Ledger: every step of concurrent Reserve calls is a call   *)
(* of the store or leaves its tables alone, so what LedgerStore_proofs     *)
(* shows of the store holds under any number of them; and a request is     *)
(* refused only when no node could serve it throughout.                    *)
(***************************************************************************)
EXTENDS Ledger, LedgerStore_proofs

CallStates ==
  {"idle", "best", "list", "try", "check", "granted", "refused", "failed"}

Calls ==
  [pc : CallStates, req : Requests \cup {NoRequest}, cands : Seq(Nodes),
   node : Nodes \cup {NoAlloc}, alloc : AllocIds \cup {NoAlloc}]

\* The state of one client's call makes sense.
Sound(k) ==
  /\ k.pc # "idle" => k.req \in Requests
  /\ k.pc = "try" => k.cands # <<>>

\* What is left to try covers every node that could serve all along.
Covered(k, S) ==
  /\ k.pc = "try" => \A n \in S : \E i \in 1 .. Len(k.cands) : k.cands[i] = n
  /\ k.pc = "refused" => S = {}

CallOK == call \in [Clients -> Calls] /\ \A c \in Clients : Sound(call[c])

WalkOK == \A c \in Clients : Covered(call[c], steady[c])

LInv == TypeOK /\ CallOK /\ WalkOK

----------------------------------------------------------------------------
(* The calls of one client.                                                *)

\* A non-empty sequence is its head and its rest: trying the head leaves
\* every other candidate in the rest.
LEMMA HeadAndRest ==
  ASSUME NEW s \in Seq(Nodes), s # <<>>
  PROVE  /\ Head(s) \in Nodes /\ Tail(s) \in Seq(Nodes)
         /\ \A n : (\E i \in 1 .. Len(s) : s[i] = n) =>
                     n = Head(s) \/ \E i \in 1 .. Len(Tail(s)) : Tail(s)[i] = n
<1>1. /\ Head(s) \in Nodes /\ Tail(s) \in Seq(Nodes) /\ Len(s) \in Nat \ {0}
      /\ Head(s) = s[1] /\ Len(Tail(s)) = Len(s) - 1
      /\ \A i \in 1 .. Len(Tail(s)) : Tail(s)[i] = s[i + 1]
  OBVIOUS
<1>2. ASSUME NEW i \in 1 .. Len(s), i # 1
      PROVE  i - 1 \in 1 .. Len(Tail(s)) /\ Tail(s)[i - 1] = s[i]
  <2>1. i - 1 \in 1 .. Len(Tail(s))
    BY <1>1, <1>2
  <2>2. Tail(s)[i - 1] = s[(i - 1) + 1]
    BY <1>1, <2>1
  <2> QED BY <1>1, <2>1, <2>2
<1> QED BY <1>1, <1>2

\* A ranking of the eligible nodes is a non-empty sequence that holds them all.
LEMMA RankingCovers ==
  ASSUME NEW S \in SUBSET Nodes, S # {}, NEW s \in Rankings(S)
  PROVE  /\ s \in Seq(Nodes) /\ s # <<>>
         /\ \A n \in S : \E i \in 1 .. Len(s) : s[i] = n
<1>1. IsFiniteSet(S) /\ Cardinality(S) \in Nat
  BY NodesFinite, FS_Subset, FS_CardinalityType
<1>2. s \in [1 .. Cardinality(S) -> S]
      /\ \A n \in S : \E i \in 1 .. Cardinality(S) : s[i] = n
  BY DEF Rankings
<1>3. s \in Seq(S) /\ Len(s) = Cardinality(S)
  BY <1>1, <1>2
<1>4. Cardinality(S) # 0
  BY <1>1, FS_EmptySet
<1> QED BY <1>1, <1>2, <1>3, <1>4

\* Eligible nodes are registered nodes that are ready and fit.
LEMMA EligibleFits ==
  ASSUME TypeOK, NEW req
  PROVE  /\ Eligible(req) \subseteq nodes /\ Eligible(req) \subseteq Nodes
         /\ \A n \in Eligible(req) : ready[n] /\ Fits(n, req.plan)
BY DEF Eligible, TypeOK

----------------------------------------------------------------------------
(* Every step is a call of the store.                                      *)

\* What one client does is one reservation, or touches no row.
LEMMA ReserveIsStoreCall ==
  ASSUME TypeOK, CallOK, NEW c \in Clients, Reserve(c)
  PROVE  [StoreNext]_storeVars
<1> USE DEF CallOK, Sound, Calls
<1>1. ASSUME call[c].pc \in {"best", "try"}
      PROVE  call[c].req.project \in Projects /\ call[c].req.plan \in Plans
  BY <1>1, RequestTypes
<1>2. ASSUME ReserveBestNode(c) PROVE [StoreNext]_storeVars
  <2>1. ASSUME NEW locked, NEW n \in BestOf(Eligible(call[c].req) \ locked),
               NEW a \in FreshIds,
               ReserveOnNode(n, a, call[c].req.project, call[c].req.plan)
        PROVE  StoreNext
    <3>1. n \in Nodes /\ a \in AllocIds
      BY <2>1, EligibleFits DEF BestOf, FreshIds
    <3>2. call[c].pc = "best"
      BY <1>2 DEF ReserveBestNode
    <3> QED BY <1>1, <2>1, <3>1, <3>2 DEF StoreNext
  <2> QED BY <1>2, <2>1 DEF ReserveBestNode
<1>3. ASSUME TryCandidate(c) PROVE [StoreNext]_storeVars
  <2>1. call[c].pc = "try" /\ Head(call[c].cands) \in Nodes
    BY <1>3, HeadAndRest DEF TryCandidate
  <2>2. ASSUME NEW a \in FreshIds,
               ReserveOnNode(Head(call[c].cands), a,
                             call[c].req.project, call[c].req.plan)
        PROVE  StoreNext
    BY <1>1, <2>1, <2>2 DEF StoreNext, FreshIds
  <2> QED BY <1>3, <2>2 DEF TryCandidate
<1>4. ASSUME PickCandidates(c) \/ CheckNode(c) \/ Return(c)
      PROVE  UNCHANGED storeVars
  BY <1>4 DEF PickCandidates, CheckNode, Return
<1> QED BY <1>2, <1>3, <1>4 DEF Reserve

\* One step of the whole, clients and other callers, is a call of the store
\* or touches no row.
LEMMA NextIsStoreCall ==
  TypeOK /\ CallOK /\ [Next]_vars => [StoreNext]_storeVars
<1> SUFFICES ASSUME TypeOK, CallOK, [Next]_vars PROVE [StoreNext]_storeVars
  OBVIOUS
<1>1. ASSUME NEW c \in Clients, NEW req \in Requests, Begin(c, req)
      PROVE  UNCHANGED storeVars
  BY <1>1 DEF Begin
<1>2. ASSUME NEW c \in Clients, Reserve(c) \/ CallFails(c) PROVE [StoreNext]_storeVars
  BY <1>2, ReserveIsStoreCall DEF CallFails
<1>3. CASE OtherCalls
  BY <1>3 DEF StoreNext
<1>4. CASE UNCHANGED vars
  BY <1>4 DEF vars
<1> QED BY <1>1, <1>2, <1>3, <1>4 DEF Next

----------------------------------------------------------------------------
(* The invariant of the candidate walk.                                    *)

\* One step changes one client's call; the calls stay well-formed and that
\* client's walk still covers every node that could serve it throughout.
LEMMA ReserveStep ==
  ASSUME TypeOK, CallOK, WalkOK, NEW c \in Clients, Reserve(c), Remember
  PROVE  /\ \E k \in Calls : call' = [call EXCEPT ![c] = k] /\ Sound(k)
         /\ Covered(call'[c], steady'[c])
<1> USE DEF CallOK
<1> DEFINE k0 == call[c]
<1>1. k0 \in Calls /\ Sound(k0) /\ Covered(k0, steady[c])
  BY DEF WalkOK
<1>2. CASE PickCandidates(c)
  <2> DEFINE S == Eligible(k0.req)
  <2>1. k0.pc = "list" /\ k0.req \in Requests /\ UNCHANGED storeVars
    BY <1>1, <1>2 DEF PickCandidates, Sound
  <2>2. S \subseteq Nodes
    BY EligibleFits
  <2>3. CASE S = {} /\ call' = [call EXCEPT ![c].pc = "refused"]
    <3>1. call'[c] = [k0 EXCEPT !.pc = "refused"] /\ call'[c].req = k0.req
          /\ call'[c].pc = "refused"
      BY <1>1, <2>3 DEF Calls
    <3>2. steady'[c] = steady[c] \cap CanServe(c)'
      BY <2>1, <3>1 DEF Remember
    <3>3. CanServe(c)' \subseteq S
      BY <2>1, <3>1 DEF CanServe, Eligible, Fits, storeVars
    <3>4. [k0 EXCEPT !.pc = "refused"] \in Calls
      BY <1>1 DEF Calls, CallStates
    <3> QED BY <1>1, <2>1, <2>3, <3>1, <3>2, <3>3, <3>4 DEF Sound, Covered
  <2>4. ASSUME S # {}, NEW s \in Rankings(S),
               call' = [call EXCEPT ![c].pc = "try", ![c].cands = s]
        PROVE  /\ \E k \in Calls : call' = [call EXCEPT ![c] = k] /\ Sound(k)
               /\ Covered(call'[c], steady'[c])
    <3> DEFINE k == [k0 EXCEPT !.pc = "try", !.cands = s]
    <3>1. /\ s \in Seq(Nodes) /\ s # <<>>
          /\ \A n \in S : \E i \in 1 .. Len(s) : s[i] = n
      BY <2>2, <2>4, RankingCovers
    <3>2. k \in Calls /\ k.pc = "try" /\ k.cands = s /\ k.req = k0.req
      BY <1>1, <3>1 DEF Calls, CallStates
    <3>3. call' = [call EXCEPT ![c] = k] /\ call'[c] = k
      BY <2>4
    <3> HIDE DEF k
    <3>4. steady'[c] = steady[c] \cap CanServe(c)'
      BY <2>1, <3>2, <3>3 DEF Remember
    <3>5. CanServe(c)' \subseteq S
      BY <2>1, <3>2, <3>3 DEF CanServe, Eligible, Fits, storeVars
    <3>6. Sound(k)
      BY <2>1, <3>1, <3>2 DEF Sound
    <3>7. Covered(call'[c], steady'[c])
      BY <3>1, <3>2, <3>3, <3>4, <3>5 DEF Covered
    <3> QED BY <3>2, <3>3, <3>6, <3>7
  <2> QED BY <1>2, <2>3, <2>4 DEF PickCandidates
<1>3. ASSUME NEW pc \in CallStates \ {"try", "refused"},
             NEW n \in Nodes \cup {NoAlloc}, NEW a \in AllocIds \cup {NoAlloc},
             call' = [call EXCEPT ![c].pc = pc, ![c].node = n, ![c].alloc = a],
             k0.pc # "idle"
      PROVE  /\ \E k \in Calls : call' = [call EXCEPT ![c] = k] /\ Sound(k)
             /\ Covered(call'[c], steady'[c])
  <2> DEFINE k == [k0 EXCEPT !.pc = pc, !.node = n, !.alloc = a]
  <2>1. k \in Calls /\ k.pc = pc /\ k.req = k0.req
    BY <1>1, <1>3 DEF Calls
  <2>2. call' = [call EXCEPT ![c] = k] /\ call'[c] = k
    BY <1>3
  <2> HIDE DEF k
  <2> QED BY <1>1, <1>3, <2>1, <2>2 DEF Sound, Covered
<1>4. ASSUME NEW pc \in CallStates \ {"try", "refused"},
             call' = [call EXCEPT ![c].pc = pc], k0.pc # "idle"
      PROVE  /\ \E k \in Calls : call' = [call EXCEPT ![c] = k] /\ Sound(k)
             /\ Covered(call'[c], steady'[c])
  <2> DEFINE k == [k0 EXCEPT !.pc = pc]
  <2>1. k \in Calls /\ k.pc = pc /\ k.req = k0.req
    BY <1>1, <1>4 DEF Calls
  <2>2. call' = [call EXCEPT ![c] = k] /\ call'[c] = k
    BY <1>4
  <2> HIDE DEF k
  <2> QED BY <1>1, <1>4, <2>1, <2>2 DEF Sound, Covered
<1>5. CASE ReserveBestNode(c)
  <2>1. k0.pc = "best"
    BY <1>5 DEF ReserveBestNode
  <2>2. CASE call' = [call EXCEPT ![c].pc = "list"]
    BY <1>4, <2>1, <2>2 DEF CallStates
  <2>3. ASSUME NEW locked, NEW n \in BestOf(Eligible(k0.req) \ locked),
               NEW a \in FreshIds,
               call' = [call EXCEPT ![c].pc = "check", ![c].node = n,
                                    ![c].alloc = a]
        PROVE  /\ \E k \in Calls : call' = [call EXCEPT ![c] = k] /\ Sound(k)
               /\ Covered(call'[c], steady'[c])
    <3>1. n \in Nodes /\ a \in AllocIds
      BY EligibleFits DEF BestOf, FreshIds
    <3> QED BY <1>3, <2>1, <2>3, <3>1 DEF CallStates
  <2> QED BY <1>5, <2>2, <2>3 DEF ReserveBestNode
<1>6. CASE TryCandidate(c)
  <2> DEFINE h    == Head(k0.cands)
             rest == Tail(k0.cands)
  <2>1. k0.pc = "try" /\ k0.cands \in Seq(Nodes) /\ k0.cands # <<>>
        /\ k0.req \in Requests
    BY <1>1, <1>6 DEF TryCandidate, Sound, Calls
  <2>2. /\ h \in Nodes /\ rest \in Seq(Nodes)
        /\ \A n : (\E i \in 1 .. Len(k0.cands) : k0.cands[i] = n) =>
                    n = h \/ \E i \in 1 .. Len(rest) : rest[i] = n
    BY <2>1, HeadAndRest
  <2>3. CASE call' = [call EXCEPT ![c].pc = "failed"]
    BY <1>4, <2>1, <2>3 DEF CallStates
  <2>4. ASSUME NEW a \in FreshIds,
               call' = [call EXCEPT ![c].pc = "check", ![c].node = h,
                                    ![c].alloc = a]
        PROVE  /\ \E k \in Calls : call' = [call EXCEPT ![c] = k] /\ Sound(k)
               /\ Covered(call'[c], steady'[c])
    BY <1>3, <2>1, <2>2, <2>4 DEF CallStates, FreshIds
  <2>5. ASSUME h \in nodes, ~(ready[h] /\ Fits(h, k0.req.plan)),
               UNCHANGED storeVars,
               call' = [call EXCEPT ![c].cands = rest,
                                    ![c].pc = IF rest = <<>> THEN "refused" ELSE @]
        PROVE  /\ \E k \in Calls : call' = [call EXCEPT ![c] = k] /\ Sound(k)
               /\ Covered(call'[c], steady'[c])
    <3> DEFINE pc == IF rest = <<>> THEN "refused" ELSE "try"
               k  == [k0 EXCEPT !.cands = rest, !.pc = pc]
    <3>1. k \in Calls /\ k.pc = pc /\ k.cands = rest /\ k.req = k0.req
      BY <1>1, <2>2 DEF Calls, CallStates
    <3>2. call' = [call EXCEPT ![c] = k] /\ call'[c] = k
      BY <1>1, <2>1, <2>5 DEF Calls
    <3> HIDE DEF k
    <3>3. Sound(k)
      BY <2>1, <3>1 DEF Sound
    <3>4. steady'[c] = steady[c] \cap CanServe(c)'
      BY <2>1, <3>1, <3>2 DEF Remember
    <3>5. h \notin CanServe(c)'
      BY <2>1, <2>5, <3>1, <3>2 DEF CanServe, Eligible, Fits, storeVars
    <3>6. \A n \in steady[c] : \E i \in 1 .. Len(k0.cands) : k0.cands[i] = n
      BY <1>1, <2>1 DEF Covered
    <3>7. \A n \in steady'[c] : \E i \in 1 .. Len(rest) : rest[i] = n
      BY <2>2, <3>4, <3>5, <3>6
    <3>8. rest = <<>> => steady'[c] = {}
      <4> HIDE DEF rest
      <4>1. Len(<<>>) = 0
        OBVIOUS
      <4> QED BY <3>7, <4>1
    <3>9. Covered(k, steady'[c])
      BY <3>1, <3>7, <3>8 DEF Covered
    <3> QED BY <3>1, <3>2, <3>3, <3>9
  <2> QED BY <1>6, <2>3, <2>4, <2>5 DEF TryCandidate
<1>7. CASE CheckNode(c)
  <2>1. k0.pc # "idle" /\ \/ call' = [call EXCEPT ![c].pc = "granted"]
                          \/ call' = [call EXCEPT ![c].pc = "failed"]
    BY <1>7 DEF CheckNode
  <2> QED BY <1>4, <2>1 DEF CallStates
<1>8. CASE Return(c)
  <2>1. call' = [call EXCEPT ![c] = Idle] /\ call'[c] = Idle
    BY <1>8 DEF Return
  <2>2. Idle \in Calls /\ Sound(Idle)
    BY DEF Idle, Calls, CallStates, Sound
  <2>3. Covered(Idle, steady'[c])
    BY DEF Idle, Covered
  <2> QED BY <2>1, <2>2, <2>3
<1> QED BY <1>2, <1>5, <1>6, <1>7, <1>8 DEF Reserve

\* A client whose call does not move keeps covering what could serve it.
LEMMA BystanderStep ==
  ASSUME CallOK, WalkOK, NEW d \in Clients, call'[d] = call[d], Remember
  PROVE  Covered(call'[d], steady'[d])
<1>1. Covered(call[d], steady[d])
  BY DEF WalkOK
<1>2. CASE call[d].pc \in {"try", "refused"}
  <2>1. steady'[d] = steady[d] \cap CanServe(d)'
    BY <1>2 DEF Remember
  <2> QED BY <1>1, <2>1 DEF Covered
<1>3. CASE call[d].pc \notin {"try", "refused"}
  BY <1>3 DEF Covered
<1> QED BY <1>2, <1>3

\* The invariant survives every step.
LEMMA LInvStep == LInv /\ [Next]_vars => LInv'
<1> SUFFICES ASSUME LInv, [Next]_vars PROVE LInv'
  OBVIOUS
<1> USE DEF LInv
<1>1. TypeOK'
  BY NextIsStoreCall, TypeStep
<1>2. ASSUME NEW c \in Clients, NEW k \in Calls, Sound(k), Remember,
             call' = [call EXCEPT ![c] = k], Covered(call'[c], steady'[c])
      PROVE  CallOK' /\ WalkOK'
  <2>1. call' \in [Clients -> Calls] /\ call'[c] = k
        /\ \A d \in Clients \ {c} : call'[d] = call[d]
    BY <1>2 DEF CallOK
  <2>2. CallOK'
    BY <1>2, <2>1 DEF CallOK
  <2>3. \A d \in Clients \ {c} : Covered(call'[d], steady'[d])
    BY <1>2, <2>1, BystanderStep
  <2>4. WalkOK'
    BY <1>2, <2>3 DEF WalkOK
  <2> QED BY <2>2, <2>4
<1>3. ASSUME NEW c \in Clients, NEW req \in Requests, Begin(c, req), Remember
      PROVE  CallOK' /\ WalkOK'
  <2> DEFINE k == [call[c] EXCEPT !.pc = IF req.k8s THEN "list" ELSE "best",
                                  !.req = req]
  <2>1. k \in Calls /\ k.pc \in {"list", "best"} /\ k.req = req
    BY DEF CallOK, Calls, CallStates
  <2>2. call' = [call EXCEPT ![c] = k] /\ call'[c] = k
    BY <1>3 DEF Begin, CallOK
  <2> HIDE DEF k
  <2>3. Sound(k) /\ Covered(call'[c], steady'[c])
    BY <2>1, <2>2 DEF Sound, Covered
  <2> QED BY <1>2, <1>3, <2>1, <2>2, <2>3
<1>4. ASSUME NEW c \in Clients, Reserve(c), Remember
      PROVE  CallOK' /\ WalkOK'
  <2>1. /\ \E k \in Calls : call' = [call EXCEPT ![c] = k] /\ Sound(k)
        /\ Covered(call'[c], steady'[c])
    BY <1>4, ReserveStep
  <2> QED BY <1>2, <1>4, <2>1
<1>7. ASSUME NEW c \in Clients, CallFails(c), Remember
      PROVE  CallOK' /\ WalkOK'
  <2> DEFINE k == [call[c] EXCEPT !.pc = "failed"]
  <2>1. k \in Calls /\ k.pc = "failed" /\ k.req = call[c].req
    BY DEF CallOK, Calls, CallStates
  <2>2. call' = [call EXCEPT ![c] = k] /\ call'[c] = k
    BY <1>7 DEF CallFails, CallOK
  <2> HIDE DEF k
  <2>3. Sound(k) /\ Covered(call'[c], steady'[c])
    BY <1>7, <2>1, <2>2 DEF Sound, Covered, CallOK, CallFails
  <2> QED BY <1>2, <1>7, <2>1, <2>2, <2>3
<1>5. ASSUME UNCHANGED call, Remember PROVE CallOK' /\ WalkOK'
  BY <1>5, BystanderStep DEF CallOK, WalkOK
<1>6. ASSUME UNCHANGED vars PROVE CallOK' /\ WalkOK'
  BY <1>6 DEF vars, CallOK, WalkOK
<1> QED BY <1>1, <1>3, <1>4, <1>5, <1>6, <1>7 DEF Next

\* The invariant holds in every state the requests can reach.
LEMMA LedgerInvariant == LedgerSafety => []LInv
<1>1. Init_L => LInv
  <2> SUFFICES ASSUME Init_L PROVE LInv
    OBVIOUS
  <2>1. TypeOK
    BY DEF Init_L, Init, TypeOK, ZeroVector, Vector
  <2>2. Idle \in Calls /\ Sound(Idle) /\ \A S : Covered(Idle, S)
    BY DEF Idle, Calls, CallStates, Sound, Covered
  <2> QED BY <2>1, <2>2 DEF Init_L, LInv, CallOK, WalkOK
<1> QED BY <1>1, LInvStep, PTL DEF LedgerSafety

----------------------------------------------------------------------------
(* What follows for every number of concurrent requests.                   *)

\* Whatever Reserve does to the tables it does by calls of the store.
LEMMA LedgerCallsStore == LedgerSafety => StoreSpec
<1>1. Init_L => Init
  BY DEF Init_L
<1>2. LInv /\ [Next]_vars => [StoreNext]_storeVars
  BY NextIsStoreCall DEF LInv
<1> QED BY <1>1, <1>2, LedgerInvariant, PTL DEF LedgerSafety, StoreSpec

\* No interleaving of reservations oversells a node.
THEOREM ReserveNeverOversells == LedgerSafety => NoOversell
BY LedgerCallsStore, NeverOversells, PTL

\* "No capacity" is said only when no node could serve throughout the call.
THEOREM RefusalsAreJustified == LedgerSafety => []NoSpuriousRefusal
<1>1. LInv => NoSpuriousRefusal
  BY DEF LInv, WalkOK, Covered, NoSpuriousRefusal
<1> QED BY <1>1, LedgerInvariant, PTL

----------------------------------------------------------------------------
(* The first choice of the memory store: power before free memory.         *)

\* Every registered node offers what a heartbeat reported.
Offers == \A n \in nodes : allocatable[n] \in Capacities

\* Only a heartbeat writes what a node offers, and only it registers one.
LEMMA OffersStep == TypeOK /\ Offers /\ [StoreNext]_storeVars => Offers'
<1> SUFFICES ASSUME TypeOK, Offers, [StoreNext]_storeVars PROVE Offers'
  OBVIOUS
<1>1. ASSUME nodes' \subseteq nodes, UNCHANGED allocatable PROVE Offers'
  BY <1>1 DEF Offers
<1>2. ASSUME NEW n \in Nodes, NEW cap \in Capacities, NEW up \in BOOLEAN,
             NEW charged \in Charges, UpsertNode(n, cap, up, charged)
      PROVE  Offers'
  BY <1>2 DEF UpsertNode, Offers, TypeOK
<1>3. ASSUME NEW n \in Nodes, NEW a \in AllocIds, NEW p \in Projects, NEW plan \in Plans,
             ReserveOnNode(n, a, p, plan)
      PROVE  Offers'
  BY <1>1, <1>3 DEF ReserveOnNode
<1>4. ASSUME NEW a \in AllocIds, ActivateAllocation(a) \/ ReleaseAllocation(a)
      PROVE  Offers'
  BY <1>1, <1>4 DEF ActivateAllocation, ReleaseAllocation
<1>5. ASSUME NEW a \in AllocIds, NEW d \in Deltas, ResizeWithinSize(a, d)
      PROVE  Offers'
  BY <1>1, <1>5 DEF ResizeWithinSize, ExpandAllocation
<1>6. ASSUME NEW n \in Nodes, PurgeReleased(n) \/ DeleteNode(n)
      PROVE  Offers'
  BY <1>1, <1>6 DEF PurgeReleased, DeleteNode
<1>7. ASSUME NEW p \in Projects, DeleteProject(p)
      PROVE  Offers'
  BY <1>1, <1>7 DEF DeleteProject
<1>8. CASE UNCHANGED storeVars
  BY <1>1, <1>8 DEF storeVars
<1> QED BY <1>2, <1>3, <1>4, <1>5, <1>6, <1>7, <1>8 DEF StoreNext, OtherCalls

\* Where every offer of memory stays below the bonus for mains power, whatever
\* bonus the fabric path adds, a node on mains outranks every one that is not.
LEMMA MainsOutranks ==
  ASSUME TypeOK, Offers, \A cap \in Capacities : cap["mem"] + P2PBonus < MainsBonus,
         NEW req, req.plan \in Plans,
         NEW m \in Eligible(req), m \in Mains,
         NEW n \in Eligible(req), n \notin Mains
  PROVE  Score(m) > Score(n)
<1>1. /\ m \in nodes /\ n \in nodes /\ m \in Nodes /\ n \in Nodes
      /\ Fits(m, req.plan)
  BY EligibleFits
<1>2. /\ allocatable[m]["mem"] \in Nat /\ used[m]["mem"] \in Nat
      /\ allocatable[n]["mem"] \in Nat /\ used[n]["mem"] \in Nat
      /\ req.plan["mem"] \in Nat
  BY <1>1, InputTypes DEF TypeOK, Vector, Resources
<1>3. FreeMem(m) >= 0
  BY <1>1, <1>2 DEF Fits, FreeMem, Resources
<1>4. FreeMem(n) + P2PBonus < MainsBonus
  BY <1>1, <1>2, RequestTypes DEF Offers, FreeMem
<1>5. Score(m) >= MainsBonus
  BY <1>2, <1>3, RequestTypes DEF Score, FreeMem
<1>6. Score(n) <= FreeMem(n) + P2PBonus
  BY <1>2, RequestTypes DEF Score, FreeMem
<1>7. FreeMem(n) \in Int /\ FreeMem(m) \in Int /\ Score(n) \in Int /\ Score(m) \in Int
  BY <1>2, RequestTypes DEF Score, FreeMem
<1> QED BY <1>4, <1>5, <1>6, <1>7, RequestTypes

\* A first choice comes from ReserveBestNode alone, and in the memory store
\* from all the nodes that could serve the request.
LEMMA ChoiceIsBest ==
  ASSUME Backend = "memory", CallOK, [Next]_vars,
         NEW c \in Clients, call[c].pc = "best", call'[c].pc = "check"
  PROVE  call'[c].node \in BestOf(Eligible(call[c].req))
<1> USE DEF CallOK
<1>1. ASSUME NEW d \in Clients, NEW req \in Requests, Begin(d, req) PROVE FALSE
  BY <1>1 DEF Begin
<1>2. ASSUME NEW d \in Clients, PickCandidates(d) \/ TryCandidate(d) \/ CheckNode(d) \/ Return(d)
      PROVE  FALSE
  BY <1>2 DEF PickCandidates, TryCandidate, CheckNode, Return
<1>5. ASSUME NEW d \in Clients, CallFails(d) PROVE FALSE
  <2>1. call[c] \in Calls /\ call' = [call EXCEPT ![d].pc = "failed"]
    BY <1>5 DEF CallFails
  <2>2. call'[c].pc \in {"failed", "best"}
    BY <2>1 DEF Calls
  <2> QED BY <2>2
<1>3. ASSUME NEW d \in Clients, ReserveBestNode(d)
      PROVE  call'[c].node \in BestOf(Eligible(call[c].req))
  <2>1. d = c
    BY <1>3 DEF ReserveBestNode
  <2>2. MaybeLocked(c) = {{}} /\ Eligible(call[c].req) \ {} = Eligible(call[c].req)
    BY DEF MaybeLocked
  <2>3. call[c] \in Calls
    OBVIOUS
  <2> DEFINE open == Eligible(call[c].req)
  <2>4. ASSUME call' = [call EXCEPT ![c].pc = "list"] PROVE FALSE
    BY <2>3, <2>4 DEF Calls
  <2>5. ASSUME NEW n \in BestOf(open), NEW a,
               call' = [call EXCEPT ![c].pc = "check", ![c].node = n, ![c].alloc = a]
        PROVE  call'[c].node = n
    BY <2>3, <2>5 DEF Calls
  <2>6. \/ call' = [call EXCEPT ![c].pc = "list"]
        \/ \E n \in BestOf(open), a \in FreshIds :
             call' = [call EXCEPT ![c].pc = "check", ![c].node = n, ![c].alloc = a]
    <3>1. PICK locked \in MaybeLocked(c) :
            \/ call' = [call EXCEPT ![c].pc = "list"]
            \/ \E n \in BestOf(open \ locked), a \in FreshIds :
                 call' = [call EXCEPT ![c].pc = "check", ![c].node = n, ![c].alloc = a]
      <4>1. ReserveBestNode(c)
        BY <1>3, <2>1
      <4> QED BY <4>1 DEF ReserveBestNode
    <3>2. open \ locked = open
      BY <2>2
    <3> QED BY <3>1, <3>2
  <2> HIDE DEF open
  <2>7. ASSUME NEW n \in BestOf(open), NEW a \in FreshIds,
               call' = [call EXCEPT ![c].pc = "check", ![c].node = n, ![c].alloc = a]
        PROVE  call'[c].node \in BestOf(open)
    BY <2>5, <2>7
  <2>8. call'[c].node \in BestOf(open)
    BY <2>4, <2>6, <2>7
  <2> QED BY <2>8 DEF open
<1>4. CASE UNCHANGED call
  BY <1>4
<1> QED BY <1>1, <1>2, <1>3, <1>4, <1>5 DEF Next, Reserve, vars

\* The memory store takes a battery node at first choice only when no mains node
\* could serve the request, if every node's memory is below the bonus.
THEOREM MainsComeFirst ==
  ASSUME Backend = "memory",
         \A cap \in Capacities : cap["mem"] + P2PBonus < MainsBonus
  PROVE  LedgerSafety => MainsPreferred
<1> DEFINE Rule ==
      \A c \in Clients :
        call[c].pc = "best" /\ call'[c].pc = "check" =>
          \/ call'[c].node \in Mains
          \/ Eligible(call[c].req) \cap Mains = {}
<1>1. Init_L => Offers
  BY DEF Init_L, Init, Offers
<1>2. LInv /\ Offers /\ [Next]_vars => Offers'
  BY OffersStep, NextIsStoreCall DEF LInv
<1>3. LInv /\ Offers /\ [Next]_vars => Rule
  <2> SUFFICES ASSUME TypeOK, CallOK, Offers, [Next]_vars,
                      NEW c \in Clients, call[c].pc = "best", call'[c].pc = "check",
                      call'[c].node \notin Mains,
                      NEW m \in Eligible(call[c].req) \cap Mains
               PROVE  FALSE
    BY DEF LInv
  <2> DEFINE n == call'[c].node  req == call[c].req
  <2>1. n \in BestOf(Eligible(req))
    BY ChoiceIsBest
  <2>2. n \in Eligible(req) /\ Score(n) >= Score(m)
    BY <2>1 DEF BestOf
  <2>3. req.plan \in Plans
    BY RequestTypes DEF CallOK, Sound
  <2>4. Score(m) > Score(n)
    BY <2>2, <2>3, MainsOutranks
  <2>5. Score(m) \in Int /\ Score(n) \in Int
    BY <2>2, EligibleFits, RequestTypes DEF Score, FreeMem, TypeOK, Vector, Resources
  <2> QED BY <2>2, <2>4, <2>5
<1>4. LInv /\ Offers /\ [Next]_vars => [Rule]_vars
  BY <1>3
<1> QED BY <1>1, <1>2, <1>4, LedgerInvariant, PTL DEF LedgerSafety, MainsPreferred
=============================================================================
