------------------------------- MODULE Resize -------------------------------
(***************************************************************************)
(* Changing the size of a workspace: a request puts the target next to the *)
(* current spec in the workspace row, an approval moves the allocation,    *)
(* resizes the instance and writes the row it read at its beginning back   *)
(* with the new spec.  Four stores have to agree in the end: the row, the  *)
(* allocation, the node's counters and the instance.                       *)
(***************************************************************************)
EXTENDS LedgerStore

CONSTANTS
  Workspaces,    \* workspaces that run already
  AllocOf,       \* workspace -> its allocation
  HostOf,        \* workspace -> its node
  ProjectOf,     \* workspace -> its project
  Specs,         \* sizes that may be asked for
  FirstSpec,     \* size every workspace has at first
  Handlers,      \* people with a request in flight, one at a time each
  Casts,         \* who takes part, one of these in each behaviour
  NoSpec, NoWs   \* "nothing pending", "no request"

\* The requests each handler sends, the kinds of resize asked for and those the
\* runtime may refuse, whether it may fail after cpu and memory have been
\* changed, and whether calls of the store may fail.
Cast ==
  [does : [Handlers -> SUBSET {"request", "decide", "approve", "reject", "touch"}],
   asks : SUBSET {"upgrade", "downgrade"},
   refuses : SUBSET {"upgrade", "downgrade"},
   disk_fails : BOOLEAN,
   store_fails : BOOLEAN]

ASSUME ResizeTypes ==
  /\ AllocOf \in [Workspaces -> AllocIds]
  /\ \A v, w \in Workspaces : AllocOf[v] = AllocOf[w] => v = w
  /\ HostOf \in [Workspaces -> Nodes]
  /\ ProjectOf \in [Workspaces -> Projects]
  /\ Specs \subseteq Plans /\ FirstSpec \in Specs /\ NoSpec \notin Specs
  /\ Casts \subseteq Cast

\* People, known by 128-bit uuids.
ASSUME HandlersFinite == IsFiniteSet(Handlers)

\* A resize may change an allocation by the difference of any two sizes.
ASSUME DifferencesAreDeltas == \A u, v \in Specs : Minus(u, v) \in Deltas

VARIABLES
  ws,      \* workspace -> [spec, pending]
  guest,   \* workspace -> size of its instance
  op,      \* handler -> the request it is working on
  cast     \* who takes part, the same throughout

resizeVars == <<ws, guest, op, cast>>
vars == <<storeVars, resizeVars>>

Idle == [kind |-> "none", pc |-> "idle", w |-> NoWs, row |-> NoWs]

HasPendingResize(row) == row.pending # NoSpec

Delta(row) == Minus(row.pending, row.spec)

Negated(d) == [r \in Resources |-> -d[r]]

\* ExpandAllocation succeeds.
CanExpand(a, d) ==
  /\ IsLive(allocs[a]) /\ allocs[a].node \in nodes
  /\ LET n == allocs[a].node IN
       \A r \in Resources : d[r] > 0 => allocatable[n][r] - used[n][r] >= d[r]

\* classifyResize: all one way or it is refused.
ClassifyResize(cur, target) ==
  LET grows   == \E r \in Resources : target[r] > cur[r]
      shrinks == \E r \in Resources : target[r] < cur[r] IN
  IF grows /\ ~shrinks THEN "upgrade"
  ELSE IF shrinks /\ ~grows THEN "downgrade" ELSE "refused"

Kind(row) == ClassifyResize(row.spec, row.pending)

\* Workspaces run, each with an active allocation of the size of its spec.
ResizeInit ==
  LET rowOf(a) == CHOOSE w \in Workspaces : AllocOf[w] = a
      taken    == {AllocOf[w] : w \in Workspaces} IN
  /\ nodes = Nodes
  /\ ready = [n \in Nodes |-> TRUE]
  /\ allocatable \in [Nodes -> Capacities]
  /\ allocs = [a \in AllocIds |->
       IF a \in taken
       THEN [project |-> ProjectOf[rowOf(a)], node |-> HostOf[rowOf(a)],
             size |-> FirstSpec, state |-> "active"]
       ELSE NoAlloc]
  /\ used = [n \in Nodes |-> [r \in Resources |-> Charged(n, r)]]
  /\ \A n \in Nodes, r \in Resources : used[n][r] <= allocatable[n][r]
  /\ ws = [w \in Workspaces |-> [spec |-> FirstSpec, pending |-> NoSpec]]
  /\ guest = [w \in Workspaces |-> FirstSpec]
  /\ op = [h \in Handlers |-> Idle]
  /\ cast \in Casts

----------------------------------------------------------------------------
Begin(h, kind, pc, w) ==
  /\ op[h] = Idle
  /\ kind \in cast.does[h]
  /\ op' = [op EXCEPT ![h] = [kind |-> kind, pc |-> pc, w |-> w, row |-> ws[w]]]
  /\ UNCHANGED <<storeVars, ws, guest, cast>>

Goto(h, pc) == op' = [op EXCEPT ![h].pc = pc]

Done(h) == op' = [op EXCEPT ![h] = Idle]

\* RequestResize: nothing may be pending in the row it reads.  "decide" is
\* a request by an admin, whose upgrades are approved on the spot.
RequestRead(h, w) ==
  /\ ~HasPendingResize(ws[w])
  /\ \E kind \in {"request", "decide"} : Begin(h, kind, "ask", w)

RequestWrite(h) ==
  LET w == op[h].w IN
  /\ op[h].pc = "ask"
  /\ \E target \in Specs :
       LET row == [op[h].row EXCEPT !.pending = target] IN
       /\ Kind(row) \in cast.asks
       /\ ws' = [ws EXCEPT ![w] = row]
       /\ IF op[h].kind = "decide" /\ Kind(row) = "upgrade"
          THEN Goto(h, "read") ELSE Done(h)
  /\ UNCHANGED <<storeVars, guest, cast>>

ApproveRead(h, w) == HasPendingResize(ws[w]) /\ Begin(h, "approve", "ledger", w)

\* The approval that follows an admin's own request reads the row again.
ApproveReread(h) ==
  /\ op[h].pc = "read"
  /\ IF HasPendingResize(ws[op[h].w])
     THEN op' = [op EXCEPT ![h].pc = "ledger", ![h].row = ws[op[h].w]]
     ELSE Done(h)
  /\ UNCHANGED <<storeVars, ws, guest, cast>>

ApproveLedger_Nothing(h) ==
  /\ op[h].pc = "ledger"
  /\ Goto(h, "runtime")
  /\ UNCHANGED <<storeVars, ws, guest, cast>>

ApproveLedger_Unchecked(h) ==
  LET a == AllocOf[op[h].w]
      d == Delta(op[h].row) IN
  /\ op[h].pc = "ledger"
  /\ used' = [used EXCEPT ![allocs[a].node] = Clamp(Plus(@, d))]
  /\ allocs' = [allocs EXCEPT ![a].size = Clamp(Plus(@, d))]
  /\ Goto(h, "runtime")
  /\ UNCHANGED <<nodes, ready, allocatable, ws, guest, cast>>

\* Ledger.Expand or Ledger.Shrink by the difference, refused when it grows
\* beyond what the node has free.
ApproveLedger(h) ==
  LET a == AllocOf[op[h].w]
      d == Delta(op[h].row) IN
  /\ op[h].pc = "ledger"
  /\ \/ ExpandAllocation(a, d) /\ Goto(h, "runtime")
     \/ /\ ~CanExpand(a, d)
        /\ Done(h)
        /\ UNCHANGED storeVars
  /\ UNCHANGED <<ws, guest, cast>>

\* Runtime.Resize sets cpu and memory, then the disk; if it fails the ledger
\* is compensated, and what has been set stays.
ApproveRuntime(h) ==
  /\ op[h].pc = "runtime"
  /\ \/ /\ guest' = [guest EXCEPT ![op[h].w] = op[h].row.pending]
        /\ Goto(h, "write")
     \/ /\ Kind(op[h].row) \in cast.refuses
        /\ Goto(h, "compensate")
        /\ UNCHANGED guest
     \/ /\ cast.disk_fails
        /\ guest' = [guest EXCEPT ![op[h].w] =
                       [op[h].row.pending EXCEPT !["disk"] = guest[op[h].w]["disk"]]]
        /\ Goto(h, "compensate")
  /\ UNCHANGED <<storeVars, ws, cast>>

ApproveCompensate_Nothing(h) ==
  /\ op[h].pc = "compensate"
  /\ Done(h)
  /\ UNCHANGED <<storeVars, ws, guest, cast>>

\* After an upgrade Expand by minus the difference; after a downgrade Expand
\* by the difference, which is negative already.  An error is ignored.
ApproveCompensate(h) ==
  LET row  == op[h].row
      a    == AllocOf[op[h].w]
      back == IF Kind(row) = "downgrade" THEN Delta(row) ELSE Negated(Delta(row)) IN
  /\ op[h].pc = "compensate"
  /\ \/ ExpandAllocation(a, back)
     \/ ~CanExpand(a, back) /\ UNCHANGED storeVars
  /\ Done(h)
  /\ UNCHANGED <<ws, guest, cast>>

ApproveWrite(h) ==
  LET row == op[h].row IN
  /\ op[h].pc = "write"
  /\ ws' = [ws EXCEPT ![op[h].w] = [spec |-> row.pending, pending |-> NoSpec]]
  /\ Done(h)
  /\ UNCHANGED <<storeVars, guest, cast>>

RejectRead(h, w) == HasPendingResize(ws[w]) /\ Begin(h, "reject", "reject", w)

RejectWrite(h) ==
  /\ op[h].pc = "reject"
  /\ ws' = [ws EXCEPT ![op[h].w] = [op[h].row EXCEPT !.pending = NoSpec]]
  /\ Done(h)
  /\ UNCHANGED <<storeVars, guest, cast>>

\* Any other handler that reads the row and writes all of it back: stop,
\* start, wake, an SSH session stamping its activity.
TouchRead(h, w) == Begin(h, "touch", "touch", w)

TouchWrite(h) ==
  /\ op[h].pc = "touch"
  /\ ws' = [ws EXCEPT ![op[h].w] = op[h].row]
  /\ Done(h)
  /\ UNCHANGED <<storeVars, guest, cast>>

\* A call of the store fails and the request ends there, whatever it has done
\* already: an approval whose row cannot be written has moved the allocation
\* and the instance, one that cannot compensate keeps what it was granted.
CallFails(h) ==
  /\ cast.store_fails
  /\ op[h].pc \in {"ask", "read", "ledger", "compensate", "write", "reject", "touch"}
  /\ Done(h)
  /\ UNCHANGED <<storeVars, ws, guest, cast>>

ResizeNext ==
  \E h \in Handlers :
    \/ \E w \in Workspaces :
         RequestRead(h, w) \/ ApproveRead(h, w) \/ RejectRead(h, w) \/ TouchRead(h, w)
    \/ RequestWrite(h) \/ ApproveReread(h) \/ ApproveLedger(h)
    \/ ApproveRuntime(h) \/ ApproveCompensate(h) \/ ApproveWrite(h)
    \/ RejectWrite(h) \/ TouchWrite(h) \/ CallFails(h)

ResizeSafety == ResizeInit /\ [][ResizeNext]_vars

----------------------------------------------------------------------------
(* Properties.                                                             *)

\* Nobody works on a row read before another one wrote it: one person asks,
\* one answers and uses the workspaces, perhaps the same.
Orderly(c) ==
  \A kinds \in {{"request", "decide"}, {"decide", "approve", "reject", "touch"}} :
    \A g, h \in Handlers : c.does[g] \cap kinds # {} /\ c.does[h] \cap kinds # {} => g = h

\* What the properties need of the people and the runtime.  Upgrades may race
\* and fail in every way.  A downgrade may not: two approvals of one, an
\* approval repeated after its row could not be written, and the compensation
\* of one the runtime fails at all shrink the allocation a second time.
Tame(c) ==
  \/ "downgrade" \notin c.asks
  \/ /\ Orderly(c) /\ ~c.store_fails
     /\ (\E h \in Handlers : "approve" \in c.does[h]) =>
          "downgrade" \notin c.refuses /\ ~c.disk_fails

\* Nobody is working on w.
Quiet(w) == \A h \in Handlers : op[h].w # w

SizeOf(w) == allocs[AllocOf[w]].size

Covers(u, v) == \A r \in Resources : u[r] >= v[r]

\* The allocation covers what the row promises and what the instance has.
Covered(w) ==
  /\ Covers(SizeOf(w), ws[w].spec)
  /\ ~cast.disk_fails => Covers(SizeOf(w), guest[w])

\* Between requests the allocation covers what the row promises and what the
\* instance has, as long as the runtime resizes all or nothing: no stale row
\* written back, no second approval, no compensation and no failed write hands
\* out capacity that is not charged.  And nothing is charged for nothing: where
\* nobody overtakes and no call fails, all three are the same.
SizesAgree ==
  \A w \in Workspaces : Quiet(w) =>
    /\ Covered(w)
    /\ Orderly(cast) /\ ~cast.disk_fails /\ ~cast.store_fails =>
         ws[w].spec = guest[w] /\ SizeOf(w) = guest[w]

\* An instance is larger than its allocation only while a downgrade is under
\* way, whose ledger step comes first: an upgrade is paid for in advance, however
\* many approvals of it there are.  A runtime that fails half way breaks this,
\* for the ledger is rolled back.
UncoveredOnlyWhileShrinking ==
  ~cast.disk_fails => \A w \in Workspaces, r \in Resources :
    guest[w][r] > SizeOf(w)[r] =>
      \E h \in Handlers : /\ op[h].w = w /\ op[h].pc = "runtime"
                          /\ Kind(op[h].row) = "downgrade"

\* Every step of a resize is a call the ledger allows: in particular no
\* allocation is shrunk by more than it has.
StoreSteps == [][StoreNext]_storeVars
=============================================================================
