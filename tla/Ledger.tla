------------------------------- MODULE Ledger -------------------------------
(***************************************************************************)
(* ledger.Service.Reserve on top of the store: concurrent requests that    *)
(* first let the store pick the best node and charge it in one call, then  *)
(* fall back to a list of candidates read earlier and tried one by one.    *)
(* Between two calls of the store anything may happen to the tables.       *)
(***************************************************************************)
EXTENDS LedgerStore, Sequences

CONSTANTS
  Clients,      \* goroutines that call Reserve
  Requests,     \* what they ask for
  AnyArch,      \* arch "any"
  ArchOf,       \* node -> architecture
  ControlPlane, \* nodes with role control-plane
  K8sNodes,     \* nodes tagged for Kubernetes
  Mains,        \* nodes on mains power
  P2P,          \* nodes with a direct fabric path
  MainsBonus,   \* 1 << 40, in the unit of memory
  P2PBonus,     \* 1 << 30, in the unit of memory
  Backend,      \* which store serves ReserveBestNode
  NoRequest

Archs == {ArchOf[n] : n \in Nodes} \cup {AnyArch}

ASSUME NodesFinite == IsFiniteSet(Nodes)
ASSUME RequestTypes ==
  /\ Requests \subseteq
       [project : Projects, plan : Plans, arch : Archs, k8s : BOOLEAN]
  /\ NoRequest \notin Requests
  /\ MainsBonus \in Nat /\ P2PBonus \in Nat
  /\ Backend \in {"memory", "postgres"}

VARIABLES
  call,         \* client -> where its Reserve stands
  steady        \* client -> nodes that could serve it ever since it asked

vars == <<storeVars, call, steady>>

Idle == [pc |-> "idle", req |-> NoRequest, cands |-> <<>>,
         node |-> NoAlloc, alloc |-> NoAlloc]

----------------------------------------------------------------------------
(* Choosing a node.                                                        *)

FreeMem(n) == allocatable[n]["mem"] - used[n]["mem"]

\* Nodes the request may be served by, as the tables stand.
Eligible(req) ==
  {n \in nodes \ ControlPlane :
     /\ req.arch \in {AnyArch, ArchOf[n]}
     /\ req.k8s => n \in K8sNodes
     /\ ready[n]
     /\ Fits(n, req.plan)}

Score_NoMains(n) == FreeMem(n) + (IF n \in P2P THEN P2PBonus ELSE 0)

Score(n) == FreeMem(n) + (IF n \in Mains THEN MainsBonus ELSE 0)
                       + (IF n \in P2P THEN P2PBonus ELSE 0)

\* ORDER BY free memory DESC, mains DESC, p2p DESC.
RanksBefore(m, n) ==
  \/ FreeMem(m) > FreeMem(n)
  \/ FreeMem(m) = FreeMem(n) /\ m \in Mains /\ n \notin Mains
  \/ /\ FreeMem(m) = FreeMem(n) /\ (m \in Mains <=> n \in Mains)
     /\ m \in P2P /\ n \notin P2P

\* The nodes the store may settle on: ties are broken by map or row order.
BestOf(S) ==
  IF Backend = "memory"
  THEN {n \in S : \A m \in S : Score(n) >= Score(m)}
  ELSE {n \in S : \A m \in S : ~ RanksBefore(m, n)}

\* Rows another transaction holds: FOR UPDATE SKIP LOCKED passes them over.
MaybeLocked(c) ==
  IF Backend = "postgres" /\ \E d \in Clients \ {c} : call[d].pc # "idle"
  THEN SUBSET nodes
  ELSE {{}}

\* sort.Slice is not stable: any order of S by descending score.
Rankings(S) ==
  {s \in [1 .. Cardinality(S) -> S] :
     /\ \A n \in S : \E i \in 1 .. Cardinality(S) : s[i] = n
     /\ \A i, j \in 1 .. Cardinality(S) : i < j => Score(s[i]) >= Score(s[j])}

\* Uuids nobody holds.
FreshIds ==
  {a \in AllocIds : allocs[a] = NoAlloc /\ \A c \in Clients : call[c].alloc # a}

InFlight == {c \in Clients : call[c].pc \in {"best", "list", "try"}}

----------------------------------------------------------------------------
Init_L ==
  /\ Init
  /\ call = [c \in Clients |-> Idle]
  /\ steady = [c \in Clients |-> {}]

\* Bound of the model: one id of AllocIds is set aside for each open call.
IdsLeft == Cardinality(FreshIds) > Cardinality(InFlight)

Begin(c, req) ==
  /\ call[c].pc = "idle"
  /\ IdsLeft
  /\ call' = [call EXCEPT ![c].pc = IF req.k8s THEN "list" ELSE "best",
                          ![c].req = req]
  /\ UNCHANGED storeVars

\* ReserveBestNode: choose and charge in one call of the store.
ReserveBestNode(c) ==
  /\ call[c].pc = "best"
  /\ \E locked \in MaybeLocked(c) :
       LET req  == call[c].req
           open == Eligible(req) \ locked IN
       \/ /\ open = {}
          /\ call' = [call EXCEPT ![c].pc = "list"]
          /\ UNCHANGED storeVars
       \/ \E n \in BestOf(open), a \in FreshIds :
            /\ ReserveOnNode(n, a, req.project, req.plan)
            /\ call' = [call EXCEPT ![c].pc = "check", ![c].node = n,
                                    ![c].alloc = a]

\* pickCandidates: one read of the nodes, filtered and sorted.
PickCandidates(c) ==
  /\ call[c].pc = "list"
  /\ LET S == Eligible(call[c].req) IN
       \/ S = {} /\ call' = [call EXCEPT ![c].pc = "refused"]
       \/ /\ S # {}
          /\ \E s \in Rankings(S) :
               call' = [call EXCEPT ![c].pc = "try", ![c].cands = s]
  /\ UNCHANGED storeVars

TryCandidate_GivesUpEarly(c) ==
  /\ call[c].pc = "try"
  /\ LET req == call[c].req
         n   == Head(call[c].cands) IN
       \/ /\ n \notin nodes
          /\ call' = [call EXCEPT ![c].pc = "failed"]
          /\ UNCHANGED storeVars
       \/ /\ n \in nodes /\ ~(ready[n] /\ Fits(n, req.plan))
          /\ call' = [call EXCEPT ![c].pc = "refused"]
          /\ UNCHANGED storeVars
       \/ \E a \in FreshIds :
            /\ ReserveOnNode(n, a, req.project, req.plan)
            /\ call' = [call EXCEPT ![c].pc = "check", ![c].node = n,
                                    ![c].alloc = a]

TryCandidate_NeverAdvances(c) ==
  /\ call[c].pc = "try"
  /\ LET req  == call[c].req
         n    == Head(call[c].cands) IN
       \/ /\ n \notin nodes
          /\ call' = [call EXCEPT ![c].pc = "failed"]
          /\ UNCHANGED storeVars
       \/ \E a \in FreshIds :
            /\ ReserveOnNode(n, a, req.project, req.plan)
            /\ call' = [call EXCEPT ![c].pc = "check", ![c].node = n,
                                    ![c].alloc = a]

\* One round of the candidate loop: a candidate that no longer fits is
\* skipped, one that no longer exists ends the request with an error.
TryCandidate(c) ==
  /\ call[c].pc = "try"
  /\ LET req  == call[c].req
         n    == Head(call[c].cands)
         rest == Tail(call[c].cands) IN
       \/ /\ n \notin nodes
          /\ call' = [call EXCEPT ![c].pc = "failed"]
          /\ UNCHANGED storeVars
       \/ /\ n \in nodes /\ ~(ready[n] /\ Fits(n, req.plan))
          /\ call' = [call EXCEPT ![c].cands = rest,
                                  ![c].pc = IF rest = <<>> THEN "refused" ELSE @]
          /\ UNCHANGED storeVars
       \/ \E a \in FreshIds :
            /\ ReserveOnNode(n, a, req.project, req.plan)
            /\ call' = [call EXCEPT ![c].pc = "check", ![c].node = n,
                                    ![c].alloc = a]

\* GetNode after the reservation: an error if the node has gone meanwhile.
CheckNode(c) ==
  /\ call[c].pc = "check"
  /\ call' = [call EXCEPT ![c].pc =
                IF call[c].node \in nodes THEN "granted" ELSE "failed"]
  /\ UNCHANGED storeVars

\* Any call of the store may fail for reasons of its own (the context is
\* cancelled, the database is away) and ends the request.  Where it is the
\* look-up after the reservation, the row stays and nobody learns its id:
\* module Workspace shows who finds such rows.
CallFails(c) ==
  /\ call[c].pc \in {"best", "list", "try", "check"}
  /\ call' = [call EXCEPT ![c].pc = "failed"]
  /\ UNCHANGED storeVars

Return(c) ==
  /\ call[c].pc \in {"granted", "refused", "failed"}
  /\ call' = [call EXCEPT ![c] = Idle]
  /\ UNCHANGED storeVars

Reserve(c) ==
  ReserveBestNode(c) \/ PickCandidates(c) \/ TryCandidate(c) \/ CheckNode(c)
    \/ Return(c)

CanServe(c) == IF call[c].req = NoRequest THEN {} ELSE Eligible(call[c].req)

\* History: the nodes that have been eligible in every state since Begin.
Remember ==
  steady' = [c \in Clients |->
    IF call'[c].pc \notin {"best", "list", "try", "refused"} THEN {}
    ELSE IF call[c].pc = "idle" THEN CanServe(c)'
    ELSE steady[c] \cap CanServe(c)']

Next ==
  /\ \/ \E c \in Clients, req \in Requests : Begin(c, req)
     \/ \E c \in Clients : Reserve(c) \/ CallFails(c)
     \/ OtherCalls /\ UNCHANGED call
  /\ Remember

LedgerSafety == Init_L /\ [][Next]_vars

\* A goroutine that has entered Reserve is scheduled until it returns; nothing
\* says that a call of it fails.
LedgerSpec ==
  LedgerSafety /\ \A c \in Clients : WF_vars(Reserve(c) /\ Remember)

----------------------------------------------------------------------------
(* Properties.                                                             *)

\* A request is told "no capacity" only if no node could serve it throughout:
\* neither a stale candidate list nor rows locked by other reservations make
\* Reserve overlook a node that was there and free all along.
NoSpuriousRefusal ==
  \A c \in Clients : call[c].pc = "refused" => steady[c] = {}

\* The scheduling rule of the architecture document: a battery node is taken
\* at first choice only when no mains node could serve the request.
MainsPreferred ==
  [][\A c \in Clients :
       call[c].pc = "best" /\ call'[c].pc = "check" =>
         \/ call'[c].node \in Mains
         \/ Eligible(call[c].req) \cap Mains = {}]_vars

\* Every Reserve returns, whatever the other actors do to the nodes it
\* is walking over.
ReserveReturns ==
  \A c \in Clients : call[c].pc # "idle" ~> call[c].pc = "idle"
=============================================================================
