----------------------------- MODULE Workspace -----------------------------
(***************************************************************************)
(* The life of a workspace: HTTP handlers, the goroutine that provisions   *)
(* an instance and the background tickers, all working on the same rows.   *)
(* A handler reads a row, decides, calls the runtime and the ledger, and   *)
(* writes the whole row back; only the provisioning goroutine and the      *)
(* stuck-provisioning ticker write with a condition on the status.  Every  *)
(* call of the store or of the runtime is a step of its own.               *)
(*                                                                         *)
(* The ledger is LedgerStore itself: a reservation is one ReserveOnNode,   *)
(* which is what module Ledger shows Reserve to come down to.              *)
(***************************************************************************)
EXTENDS LedgerStore

CONSTANTS
  Workspaces,   \* workspace identities (uuid)
  ProjectOf,    \* workspace -> project
  PlanOf,       \* workspace -> plan
  Handlers,     \* people with a request in flight, one at a time each
  Casts,        \* who takes part, one of these in each behaviour
  NoWs          \* "no such row", "no such workspace"

Kinds ==
  {"create", "request", "approve", "reject", "ask_destroy", "skip_destroy",
   "approve_destroy", "reject_destroy", "approve_platform", "destroy",
   "stop", "start", "touch", "delete_project", "wipe_project"}

Statuses ==
  {"requested", "provisioning", "running", "stopped", "suspended", "failed",
   "fabric_degraded", "node_lost", "rejected", "destroy_requested",
   "destroy_pending_platform", "destroying", "destroyed"}

\* DeleteProject, of the project's owner and of a platform admin.
ProjectDeletions == {"delete_project", "wipe_project"}

Tickers == {"idle", "stuck", "reconcile", "health"}

Procs == Handlers \cup Tickers

\* The requests each handler sends, the tickers that run, whether calls of a
\* node's agent may fail or time out, and the bounds of the model: workspaces
\* at a time, and mishaps, which are restarts of the process and calls of the
\* store that fail.
Cast ==
  [does : [Handlers -> SUBSET Kinds], tickers : SUBSET Tickers,
   agent_fails : BOOLEAN, rows : Nat, mishaps : Nat]

ASSUME ActorTypes ==
  /\ Casts \subseteq Cast
  /\ Handlers \cap Tickers = {}
  /\ ProjectOf \in [Workspaces -> Projects]
  /\ PlanOf \in [Workspaces -> Plans]

Row == [status : Statuses, alloc : AllocIds \cup {NoAlloc}]

ASSUME NoWsIsNoRow == NoWs \notin Row /\ NoWs \notin Workspaces

VARIABLES
  ws,       \* workspace -> its row or NoWs
  asked,    \* workspace -> from_status of its latest destroy request (audit)
  guest,    \* workspace -> its instance in the runtime
  op,       \* process -> the request or tick it is working on
  prov,     \* allocation -> the provisioning goroutine started for it
  mishaps,  \* restarts and failed calls of the store so far
  cast      \* who takes part, the same throughout

env == <<mishaps, cast>>
lifeVars == <<ws, asked, guest, op, prov, env>>
vars == <<storeVars, lifeVars>>

Idle == [kind |-> "none", pc |-> "idle", w |-> NoWs, row |-> NoWs,
         alloc |-> NoAlloc, todo |-> {}, project |-> "none"]

NoGoroutine == [pc |-> "none", w |-> NoWs, row |-> NoWs]

----------------------------------------------------------------------------
(* Status predicates of models.go.                                         *)

ProvisioningLive(status) == status = "provisioning"

DestroyReviewInFlight(status) ==
  status \in {"destroy_requested", "destroy_pending_platform"}

WorkspaceClosed(status) ==
  \/ DestroyReviewInFlight(status)
  \/ status \in {"destroyed", "destroying", "rejected"}

WorkspaceConnectable(status) ==
  status \in {"running", "fabric_degraded", "suspended", "destroy_requested",
              "destroy_pending_platform"}

WorkspaceHealthActive(status) ==
  status \in {"running", "stopped", "suspended", "fabric_degraded", "node_lost"}

RestoreStatusAfterDestroyReject(from) ==
  IF from = "failed" \/ WorkspaceHealthActive(from) THEN from ELSE "running"

----------------------------------------------------------------------------
(* Steps of a request.                                                     *)

At(p, kind, pc) == op[p].kind = kind /\ op[p].pc = pc

Goto(p, pc) == op' = [op EXCEPT ![p].pc = pc]

Done(p) == op' = [op EXCEPT ![p] = Idle]

\* The end of a request, or of one workspace's part in the deletion of a project.
NextOrDone(p) == IF op[p].kind \in ProjectDeletions THEN Goto(p, "next") ELSE Done(p)

\* UpdateWorkspace writes the whole row.  A row that is gone meanwhile is an
\* error in the memory store and goes unnoticed in postgres: either happens.
UpdateWorkspace(w, row) == ws[w] # NoWs /\ ws' = [ws EXCEPT ![w] = row]

WithStatus(row, status) == [row EXCEPT !.status = status]

\* UpdateWorkspaceIfStatus: the same, on condition of the status.
UpdateWorkspaceIfStatus(w, row, from) ==
  /\ ws[w] # NoWs
  /\ ws[w].status = from
  /\ ws' = [ws EXCEPT ![w] = row]

\* Ledger.Release of an allocation that may be missing or already released.
ReleaseIfLive(a) ==
  IF a # NoAlloc /\ IsLive(allocs[a])
  THEN ReleaseAllocation(a)
  ELSE UNCHANGED storeVars

StatusOf(w) == IF ws[w] = NoWs THEN "none" ELSE ws[w].status

\* A call that brings the instance of w into a state.  When it fails the
\* instance is as it was, or as the agent left it after the answer was lost.
SetGuest(w, state) == guest' = [guest EXCEPT ![w] = state]

FailGuest(w, state) == cast.agent_fails /\ (UNCHANGED guest \/ SetGuest(w, state))

\* Calls whose errors the code ignores.
TryDestroyGuest(w) == SetGuest(w, "none") \/ FailGuest(w, "none")

\* What a request or tick still holds of what it has read: rows it has listed, the
\* workspace it works on, the rows' allocations.
Lists(o) == o.kind \in {"idle", "health", "stuck"}

Mentions(o, w) ==
  \/ o.w = w
  \/ o.kind \in ProjectDeletions /\ w \in o.todo
  \/ Lists(o) /\ \E t \in o.todo : t[1] = w

MentionsAlloc(o, a) ==
  \/ o.alloc = a
  \/ o.row # NoWs /\ o.row.alloc = a
  \/ o.kind = "reconcile" /\ a \in o.todo
  \/ Lists(o) /\ \E t \in o.todo : t[2].alloc = a

\* Uuids: nobody refers to the identity yet.  cast.rows bounds the model.
Unused(w) ==
  /\ ws[w] = NoWs /\ guest[w] = "none"
  /\ \A p \in Procs : ~Mentions(op[p], w)
  /\ \A a \in AllocIds : prov[a].w # w

FreshWs(w) ==
  Unused(w) /\ Cardinality({v \in Workspaces : ~Unused(v)}) < cast.rows

FreshAllocs ==
  {a \in AllocIds :
     /\ allocs[a] = NoAlloc /\ prov[a].pc = "none"
     /\ \A p \in Procs : ~MentionsAlloc(op[p], a)
     /\ \A w \in Workspaces : ws[w] # NoWs => ws[w].alloc # a}

\* Bound of the model: one id of AllocIds is set aside for each reservation.
IdsLeft ==
  Cardinality(FreshAllocs) > Cardinality({p \in Procs : op[p].pc = "reserve"})

\* A handler begins a request by reading the row of w, if there is one.
Begin(h, kind, pc, w) ==
  /\ op[h] = Idle
  /\ kind \in cast.does[h]
  /\ op' = [op EXCEPT ![h] = [Idle EXCEPT !.kind = kind, !.pc = pc,
                                          !.w = w, !.row = ws[w]]]

ReadsExisting(h, kind, pc, w) == ws[w] # NoWs /\ Begin(h, kind, pc, w)

----------------------------------------------------------------------------
(* Creating a workspace.                                                   *)

\* A developer's request only inserts a row.
RequestWorkspace(h, w) ==
  /\ op[h] = Idle /\ "request" \in cast.does[h]
  /\ FreshWs(w)
  /\ ws' = [ws EXCEPT ![w] = [status |-> "requested", alloc |-> NoAlloc]]
  /\ UNCHANGED <<storeVars, asked, guest, op, prov, env>>

\* A project admin's request goes straight to the ledger.
CreateBegin(h, w) ==
  /\ FreshWs(w) /\ IdsLeft
  /\ Begin(h, "create", "reserve", w)
  /\ UNCHANGED <<storeVars, ws, asked, guest, prov, env>>

ApproveRead(h, w) ==
  /\ ReadsExisting(h, "approve", "reserve", w)
  /\ ws[w].status = "requested" /\ IdsLeft
  /\ UNCHANGED <<storeVars, ws, asked, guest, prov, env>>

\* Ledger.Reserve, for create and approve alike: granted or refused.
ReserveStep(h) ==
  /\ op[h].kind \in {"create", "approve"} /\ op[h].pc = "reserve"
  /\ \/ \E n \in Nodes, a \in FreshAllocs :
          /\ ReserveOnNode(n, a, ProjectOf[op[h].w], PlanOf[op[h].w])
          /\ op' = [op EXCEPT ![h].pc = "write", ![h].alloc = a]
     \/ Done(h) /\ UNCHANGED storeVars
  /\ UNCHANGED <<ws, asked, guest, prov, env>>

\* The row is inserted (create) or overwritten with what approve read, and
\* the provisioning goroutine starts; if the store refuses, the reservation
\* is given back in the next step.
ProvisioningWrite(h) ==
  LET w == op[h].w
      a == op[h].alloc IN
  /\ op[h].kind \in {"create", "approve"} /\ op[h].pc = "write"
  /\ \/ /\ ws' = IF op[h].kind = "approve" /\ ws[w] = NoWs THEN ws
                 ELSE [ws EXCEPT ![w] = [status |-> "provisioning", alloc |-> a]]
        /\ prov' = [prov EXCEPT ![a] = [pc |-> "load", w |-> w, row |-> NoWs]]
        /\ Done(h)
     \/ /\ op[h].kind = "create" \/ ws[w] = NoWs
        /\ Goto(h, "giveback")
        /\ UNCHANGED <<ws, prov>>
  /\ UNCHANGED <<storeVars, asked, guest, env>>

GiveBack(h) ==
  /\ op[h].pc = "giveback"
  /\ ReleaseIfLive(op[h].alloc)
  /\ Done(h)
  /\ UNCHANGED <<ws, asked, guest, prov, env>>

CreateStep(h) == ReserveStep(h) \/ ProvisioningWrite(h) \/ GiveBack(h)

----------------------------------------------------------------------------
(* The provisioning goroutine of allocation a.                             *)

ProvGoto(a, pc) == prov' = [prov EXCEPT ![a].pc = pc]

ProvDone(a) == prov' = [prov EXCEPT ![a] = NoGoroutine]

ProvLoad(a) ==
  LET w == prov[a].w IN
  /\ prov[a].pc = "load"
  /\ IF ws[w] = NoWs THEN ProvGoto(a, "release")
     ELSE IF ~ProvisioningLive(ws[w].status) THEN ProvDone(a)
     ELSE ProvGoto(a, "launch")
  /\ UNCHANGED <<storeVars, ws, asked, guest, op, env>>

\* Runtime.Launch succeeds, fails, or is never reached because the registry
\* credentials cannot be read, which leaves the row as it is.  The agent
\* destroys what it has launched when a later step of the launch fails, but
\* not when the first one does, or is cancelled: an instance may stay, up or
\* down.
ProvLaunch(a) ==
  LET w == prov[a].w IN
  /\ prov[a].pc = "launch"
  /\ \/ SetGuest(w, "running") /\ ProvGoto(a, "reread")
     \/ /\ \E left \in {guest[w], "stopped", "running"} : SetGuest(w, left)
        /\ ProvGoto(a, "reread_failed")
     \/ ProvDone(a) /\ UNCHANGED guest
  /\ UNCHANGED <<storeVars, ws, asked, op, env>>

\* The row is read again after the launch; whoever closed it meanwhile wins.
ProvReread(a) ==
  LET w == prov[a].w IN
  /\ prov[a].pc \in {"reread", "reread_failed"}
  /\ IF ws[w] = NoWs \/ ~ProvisioningLive(ws[w].status)
     THEN ProvGoto(a, "drop")
     ELSE prov' = [prov EXCEPT ![a].row = ws[w], ![a].pc =
                     IF prov[a].pc = "reread" THEN "activate" ELSE "fail"]
  /\ UNCHANGED <<storeVars, ws, asked, guest, op, env>>

ProvActivate_Skips(a) ==
  /\ prov[a].pc = "activate"
  /\ ProvGoto(a, "commit")
  /\ UNCHANGED <<storeVars, ws, asked, guest, op, env>>

ProvActivate(a) ==
  /\ prov[a].pc = "activate"
  /\ IF IsLive(allocs[a])
     THEN ActivateAllocation(a) /\ ProvGoto(a, "commit")
     ELSE UNCHANGED storeVars /\ ProvGoto(a, "drop")
  /\ UNCHANGED <<ws, asked, guest, op, env>>

ProvCommit_NoCheck(a) ==
  LET w == prov[a].w IN
  /\ prov[a].pc \in {"commit", "fail"}
  /\ UpdateWorkspace(w, WithStatus(prov[a].row,
       IF prov[a].pc = "commit" THEN "running" ELSE "failed"))
  /\ IF prov[a].pc = "commit" THEN ProvDone(a) ELSE ProvGoto(a, "release")
  /\ UNCHANGED <<storeVars, asked, guest, op, env>>

\* commitProvisioningStatus: compare-and-set from provisioning to running or
\* failed.  A conflict destroys the instance; a row that is gone is a conflict
\* in postgres, in the memory store an error that ends the goroutine.
ProvCommit(a) ==
  LET w   == prov[a].w
      new == IF prov[a].pc = "commit" THEN "running" ELSE "failed" IN
  /\ prov[a].pc \in {"commit", "fail"}
  /\ \/ /\ UpdateWorkspaceIfStatus(w, WithStatus(prov[a].row, new), "provisioning")
        /\ IF new = "running" THEN ProvDone(a) ELSE ProvGoto(a, "release")
     \/ /\ ~ProvisioningLive(StatusOf(w))
        /\ ProvGoto(a, "destroy")
        /\ UNCHANGED ws
     \/ ws[w] = NoWs /\ ProvDone(a) /\ UNCHANGED ws
  /\ UNCHANGED <<storeVars, asked, guest, op, env>>

ProvDestroyGuest_Forgets(a) ==
  /\ prov[a].pc \in {"destroy", "drop"}
  /\ IF prov[a].pc = "destroy" THEN ProvDone(a) ELSE ProvGoto(a, "release")
  /\ UNCHANGED <<storeVars, ws, asked, guest, op, env>>

\* Runtime.Destroy after a conflict ("destroy") or in dropAbortedProvision.
ProvDestroyGuest(a) ==
  /\ prov[a].pc \in {"destroy", "drop"}
  /\ TryDestroyGuest(prov[a].w)
  /\ IF prov[a].pc = "destroy" THEN ProvDone(a) ELSE ProvGoto(a, "release")
  /\ UNCHANGED <<storeVars, ws, asked, op, env>>

ProvRelease(a) ==
  /\ prov[a].pc = "release"
  /\ ReleaseIfLive(a)
  /\ ProvDone(a)
  /\ UNCHANGED <<ws, asked, guest, op, env>>

Provision(a) ==
  ProvLoad(a) \/ ProvLaunch(a) \/ ProvReread(a) \/ ProvActivate(a)
    \/ ProvCommit(a) \/ ProvDestroyGuest(a) \/ ProvRelease(a)

----------------------------------------------------------------------------
(* Requests that read a row, perhaps call the runtime, and write it back.  *)

\* The status a request writes over the row it read.
NewStatus(p) ==
  CASE op[p].kind = "reject"          -> "rejected"
    [] op[p].kind = "ask_destroy"     -> "destroy_requested"
    [] op[p].kind \in {"skip_destroy", "approve_destroy", "delete_project"}
                                      -> "destroy_pending_platform"
    [] op[p].kind = "reject_destroy"  ->
         RestoreStatusAfterDestroyReject(asked[op[p].w])
    [] op[p].kind = "stop"            -> "stopped"
    [] op[p].kind \in {"start", "wake"} -> "running"
    [] op[p].kind = "idle"            -> "suspended"
    [] op[p].kind \in {"touch", "health"} -> op[p].row.status

\* What follows a successful write.
AfterWrite(p) ==
  CASE op[p].kind \in {"ask_destroy", "skip_destroy", "delete_project"} ->
         Goto(p, "audit")
    [] op[p].kind = "wake" ->
         op' = [op EXCEPT ![p].kind = "touch", ![p].pc = "reread"]
    [] op[p].kind \in {"idle", "health"} /\ op[p].todo # {} -> Goto(p, "next_row")
    [] OTHER -> Done(p)

WriteBack(p) ==
  /\ op[p].pc = "write" /\ op[p].kind \notin {"create", "approve"}
  /\ IF ws[op[p].w] = NoWs
     THEN /\ \/ AfterWrite(p)
             \/ IF op[p].kind = "idle" /\ op[p].todo # {}
                THEN Goto(p, "next_row") ELSE Done(p)
          /\ UNCHANGED ws
     ELSE /\ UpdateWorkspace(op[p].w, WithStatus(op[p].row, NewStatus(p)))
          /\ AfterWrite(p)
  /\ UNCHANGED <<storeVars, asked, guest, prov, env>>

\* Runtime.Start and Runtime.Stop refuse an instance that does not exist.
SwitchGuest(h, state) ==
  LET w == op[h].w IN
  /\ \/ guest[w] # "none" /\ SetGuest(w, state) /\ Goto(h, "write")
     \/ guest[w] # "none" /\ FailGuest(w, state) /\ Done(h)
     \/ guest[w] = "none" /\ UNCHANGED guest /\ Done(h)
  /\ UNCHANGED <<storeVars, ws, asked, prov, env>>

StartGuest(h) == op[h].pc = "start_guest" /\ SwitchGuest(h, "running")

StopGuest(h) == op[h].pc = "stop_guest" /\ SwitchGuest(h, "stopped")

\* The destroy request is only then recorded in the audit log, from where a
\* rejection takes the status to restore.
AuditDestroyRequest(h) ==
  /\ op[h].pc = "audit"
  /\ asked' = [asked EXCEPT ![op[h].w] = op[h].row.status]
  /\ NextOrDone(h)
  /\ UNCHANGED <<storeVars, ws, guest, prov, env>>

\* Guests that are down are started first, for the reviewers to look at.
FirstStepOfDestroyRequest(row) ==
  IF row.status \in {"stopped", "suspended"} THEN "start_guest" ELSE "write"

ReadThenWrite(h, w) ==
  LET row == ws[w] IN
  /\ row # NoWs
  /\ \/ row.status = "requested" /\ ReadsExisting(h, "reject", "write", w)
     \/ \E kind \in {"ask_destroy", "skip_destroy"} :
          /\ ~DestroyReviewInFlight(row.status)
          /\ row.status \notin {"destroying", "destroyed"}
          /\ ReadsExisting(h, kind, FirstStepOfDestroyRequest(row), w)
     \/ /\ row.status = "destroy_requested"
        /\ ReadsExisting(h, "approve_destroy", "write", w)
     \/ /\ DestroyReviewInFlight(row.status)
        /\ ReadsExisting(h, "reject_destroy", "write", w)
     \/ /\ ~WorkspaceClosed(row.status) /\ row.status # "requested"
        /\ \/ ReadsExisting(h, "stop", "stop_guest", w)
           \/ ReadsExisting(h, "start", "start_guest", w)
  /\ UNCHANGED <<storeVars, ws, asked, guest, prov, env>>

\* SSHTarget: wake a suspended workspace, then stamp its activity.
TouchRead(h, w) ==
  /\ op[h] = Idle /\ "touch" \in cast.does[h]
  /\ ws[w] # NoWs /\ WorkspaceConnectable(ws[w].status)
  /\ op' = [op EXCEPT ![h] =
       IF ws[w].status = "suspended"
       THEN [Idle EXCEPT !.kind = "wake", !.pc = "start_guest", !.w = w, !.row = ws[w]]
       ELSE [Idle EXCEPT !.kind = "touch", !.pc = "write", !.w = w, !.row = ws[w]]]
  /\ UNCHANGED <<storeVars, ws, asked, guest, prov, env>>

TouchReread(h) ==
  /\ At(h, "touch", "reread")
  /\ IF ws[op[h].w] = NoWs THEN Done(h)
     ELSE op' = [op EXCEPT ![h].pc = "write", ![h].row = ws[op[h].w]]
  /\ UNCHANGED <<storeVars, ws, asked, guest, prov, env>>

----------------------------------------------------------------------------
(* executeDestroy, on the row its caller read.                             *)

DestroyRead(h, w) ==
  /\ \/ ReadsExisting(h, "destroy", "mark", w)
     \/ /\ ws[w] # NoWs /\ ws[w].status = "destroy_pending_platform"
        /\ ReadsExisting(h, "approve_platform", "mark", w)
  /\ UNCHANGED <<storeVars, ws, asked, guest, prov, env>>

\* Both writes of executeDestroy ignore an error.
WriteIfPresent(w, row) ==
  IF ws[w] = NoWs THEN UNCHANGED ws ELSE UpdateWorkspace(w, row)

DestroyMark(h) ==
  /\ op[h].pc = "mark"
  /\ WriteIfPresent(op[h].w, WithStatus(op[h].row, "destroying"))
  /\ Goto(h, "destroy_guest")
  /\ UNCHANGED <<storeVars, asked, guest, prov, env>>

DestroyGuest(h) ==
  /\ op[h].pc = "destroy_guest"
  /\ TryDestroyGuest(op[h].w)
  /\ Goto(h, "release")
  /\ UNCHANGED <<storeVars, ws, asked, prov, env>>

DestroyRelease_Skips(h) ==
  /\ op[h].pc = "release"
  /\ Goto(h, "finish")
  /\ UNCHANGED <<storeVars, ws, asked, guest, prov, env>>

DestroyRelease_OnlyOnce(h) ==
  /\ op[h].pc = "release"
  /\ ReleaseIfLive(op[h].row.alloc)
  /\ IF op[h].row.alloc # NoAlloc /\ ~IsLive(allocs[op[h].row.alloc])
     THEN Done(h) ELSE Goto(h, "finish")
  /\ UNCHANGED <<ws, asked, guest, prov, env>>

DestroyRelease(h) ==
  /\ op[h].pc = "release"
  /\ ReleaseIfLive(op[h].row.alloc)
  /\ Goto(h, "finish")
  /\ UNCHANGED <<ws, asked, guest, prov, env>>

DestroyFinish(h) ==
  /\ op[h].pc = "finish"
  /\ WriteIfPresent(op[h].w, WithStatus(op[h].row, "destroyed"))
  /\ NextOrDone(h)
  /\ UNCHANGED <<storeVars, asked, guest, prov, env>>

DestroyStep(h) ==
  DestroyMark(h) \/ DestroyGuest(h) \/ DestroyRelease(h) \/ DestroyFinish(h)

----------------------------------------------------------------------------
(* DeleteProject: each workspace listed is destroyed, by a platform admin  *)
(* at once, by its owner with a request that only puts it up for review;   *)
(* then the rows are dropped.                                              *)

DeleteProjectList(h, p) ==
  /\ op[h] = Idle
  /\ \E kind \in ProjectDeletions \cap cast.does[h] :
       op' = [op EXCEPT ![h] = [Idle EXCEPT
         !.kind = kind, !.pc = "next",
         !.todo = {w \in Workspaces : /\ ws[w] # NoWs /\ ProjectOf[w] = p
                                      /\ ws[w].status # "destroyed"},
         !.project = p]]
  /\ UNCHANGED <<storeVars, ws, asked, guest, prov, env>>

WipeProjectNext(h) ==
  /\ At(h, "wipe_project", "next")
  /\ \E w \in op[h].todo :
       IF ws[w] = NoWs THEN Done(h)
       ELSE op' = [op EXCEPT ![h].w = w, ![h].row = ws[w],
                             ![h].todo = @ \ {w}, ![h].pc = "mark"]
  /\ UNCHANGED <<storeVars, ws, asked, guest, prov, env>>

DeleteProjectNext(h) ==
  /\ At(h, "delete_project", "next")
  /\ \E w \in op[h].todo :
       IF \/ ws[w] = NoWs
          \/ DestroyReviewInFlight(ws[w].status)
          \/ ws[w].status \in {"destroying", "destroyed"}
       THEN Done(h)
       ELSE op' = [op EXCEPT ![h].w = w, ![h].row = ws[w],
                             ![h].todo = @ \ {w},
                             ![h].pc = FirstStepOfDestroyRequest(ws[w])]
  /\ UNCHANGED <<storeVars, ws, asked, guest, prov, env>>

DeleteProjectDrop(h) ==
  /\ op[h].pc = "next" /\ op[h].todo = {}
  /\ DeleteProject(op[h].project)
  /\ ws' = [w \in Workspaces |-> IF ProjectOf[w] = op[h].project THEN NoWs ELSE ws[w]]
  /\ Done(h)
  /\ UNCHANGED <<asked, guest, prov, env>>

----------------------------------------------------------------------------
(* Background loops.                                                       *)

\* The rows whose status is one of these, as listed.
Listed(statuses) ==
  {<<w, ws[w]>> : w \in {v \in Workspaces : ws[v] # NoWs /\ ws[v].status \in statuses}}

\* Workspaces in use whose idle time is over.
IdleList ==
  /\ op["idle"] = Idle
  /\ \E S \in SUBSET Listed({"running", "fabric_degraded"}) \ {{}} :
       op' = [op EXCEPT !["idle"] = [Idle EXCEPT
                !.kind = "idle", !.pc = "next_row", !.todo = S]]
  /\ UNCHANGED <<storeVars, ws, asked, guest, prov, env>>

IdleStopGuest ==
  /\ At("idle", "idle", "next_row")
  /\ \E t \in op["idle"].todo :
       \/ /\ IF op["idle"].todo = {t} THEN Done("idle")
             ELSE op' = [op EXCEPT !["idle"].todo = @ \ {t}]
          /\ IF guest[t[1]] = "none" THEN UNCHANGED guest
             ELSE FailGuest(t[1], "stopped")
       \/ /\ guest[t[1]] # "none" /\ SetGuest(t[1], "stopped")
          /\ op' = [op EXCEPT !["idle"].pc = "write", !["idle"].w = t[1],
                              !["idle"].row = t[2], !["idle"].todo = @ \ {t}]
  /\ UNCHANGED <<storeVars, ws, asked, prov, env>>

HealthList ==
  LET rows == {t \in Listed(Statuses) : WorkspaceHealthActive(t[2].status)} IN
  /\ op["health"] = Idle /\ rows # {}
  /\ op' = [op EXCEPT !["health"] = [Idle EXCEPT
               !.kind = "health", !.pc = "next_row", !.todo = rows]]
  /\ UNCHANGED <<storeVars, ws, asked, guest, prov, env>>

\* What the node's health and the agent say of a workspace.  A node that is
\* not ready is degraded or offline; an agent that does not answer counts
\* like an instance that is not there.
HealthStatuses(w, row) ==
  LET n == IF row.alloc = NoAlloc \/ allocs[row.alloc] = NoAlloc THEN NoAlloc
           ELSE allocs[row.alloc].node
      unseen == IF row.status = "running" THEN "fabric_degraded" ELSE row.status IN
  IF row.alloc = NoAlloc THEN {row.status}
  ELSE IF n \notin nodes THEN {"node_lost"}
  ELSE IF ~ready[n] THEN {"node_lost", unseen}
  ELSE IF guest[w] = "none" THEN {unseen}
  ELSE {unseen, IF guest[w] = "running" THEN "running"
                ELSE IF row.status = "suspended" THEN "suspended" ELSE "stopped"}

HealthCheck ==
  /\ At("health", "health", "next_row")
  /\ \E t \in op["health"].todo, status \in Statuses :
       /\ status \in HealthStatuses(t[1], t[2])
       /\ IF status # t[2].status
          THEN op' = [op EXCEPT !["health"].pc = "write", !["health"].w = t[1],
                                !["health"].row = WithStatus(t[2], status),
                                !["health"].todo = @ \ {t}]
          ELSE IF op["health"].todo = {t} THEN Done("health")
          ELSE op' = [op EXCEPT !["health"].todo = @ \ {t}]
  /\ UNCHANGED <<storeVars, ws, asked, guest, prov, env>>

\* Old enough for the stuck ticker: 20 minutes after the row was written
\* the launch, bounded by 15, is over and its goroutine has returned.
LaunchOver(w) == \A a \in AllocIds : prov[a].w # w

StuckListFrom_SkipsReleased(p) ==
  LET old == {t \in Listed({"provisioning"}) :
                LaunchOver(t[1]) /\ IsLive(allocs[t[2].alloc])} IN
  IF old = {} THEN Done(p)
  ELSE op' = [op EXCEPT ![p] = [Idle EXCEPT !.kind = "stuck", !.pc = "kill",
                                  !.todo = old]]

StuckListFrom(p) ==
  LET old == {t \in Listed({"provisioning"}) : LaunchOver(t[1])} IN
  IF old = {} THEN Done(p)
  ELSE op' = [op EXCEPT ![p] = [Idle EXCEPT !.kind = "stuck", !.pc = "kill",
                                  !.todo = old]]

StuckList ==
  /\ op["stuck"] = Idle
  /\ StuckListFrom("stuck") /\ op' # op
  /\ UNCHANGED <<storeVars, ws, asked, guest, prov, env>>

StuckKill(p) ==
  /\ At(p, "stuck", "kill")
  /\ \E t \in op[p].todo :
       /\ TryDestroyGuest(t[1])
       /\ op' = [op EXCEPT ![p].pc = "free", ![p].w = t[1], ![p].row = t[2],
                           ![p].todo = @ \ {t}]
  /\ UNCHANGED <<storeVars, ws, asked, prov, env>>

StuckFree(p) ==
  /\ At(p, "stuck", "free")
  /\ ReleaseIfLive(op[p].row.alloc)
  /\ Goto(p, "fail")
  /\ UNCHANGED <<ws, asked, guest, prov, env>>

StuckFail(p) ==
  LET w == op[p].w IN
  /\ At(p, "stuck", "fail")
  /\ \/ /\ UpdateWorkspaceIfStatus(w, WithStatus(op[p].row, "failed"), "provisioning")
        /\ IF op[p].todo = {} THEN Done(p) ELSE Goto(p, "kill")
     \/ /\ ~ProvisioningLive(StatusOf(w))
        /\ IF op[p].todo = {} THEN Done(p) ELSE Goto(p, "kill")
        /\ UNCHANGED ws
     \/ ws[w] = NoWs /\ Done(p) /\ UNCHANGED ws
  /\ UNCHANGED <<storeVars, asked, guest, prov, env>>

ReconcileListAllocs ==
  /\ op["reconcile"] = Idle
  /\ op' = [op EXCEPT !["reconcile"] = [Idle EXCEPT
       !.kind = "reconcile", !.pc = "list_ws",
       !.todo = {a \in AllocIds : IsLive(allocs[a])}]]
  /\ UNCHANGED <<storeVars, ws, asked, guest, prov, env>>

\* The allocations nobody needs, by the workspace rows.
Unneeded(a) ==
  \A w \in Workspaces :
    ws[w] # NoWs /\ ws[w].alloc = a => ws[w].status \in {"destroyed", "failed"}

ReconcileListWorkspaces ==
  /\ At("reconcile", "reconcile", "list_ws")
  /\ op' = [op EXCEPT !["reconcile"].pc = "sweep",
                      !["reconcile"].todo = {a \in @ : Unneeded(a)}]
  /\ UNCHANGED <<storeVars, ws, asked, guest, prov, env>>

ReconcileRelease_Nothing ==
  /\ At("reconcile", "reconcile", "sweep")
  /\ StuckListFrom("reconcile")
  /\ UNCHANGED <<storeVars, ws, asked, guest, prov, env>>

\* Releases them one by one, then looks for stuck provisionings as well.
ReconcileRelease ==
  /\ At("reconcile", "reconcile", "sweep")
  /\ \/ \E a \in op["reconcile"].todo :
          /\ ReleaseIfLive(a)
          /\ op' = [op EXCEPT !["reconcile"].todo = @ \ {a}]
     \/ /\ op["reconcile"].todo = {}
        /\ StuckListFrom("reconcile")
        /\ UNCHANGED storeVars
  /\ UNCHANGED <<ws, asked, guest, prov, env>>

Tick(p) ==
  /\ p \in cast.tickers
  /\ \/ p = "idle" /\ (IdleList \/ IdleStopGuest \/ WriteBack("idle"))
     \/ p = "health" /\ (HealthList \/ HealthCheck \/ WriteBack("health"))
     \/ p = "stuck" /\ StuckList
     \/ p = "reconcile" /\
          (ReconcileListAllocs \/ ReconcileListWorkspaces \/ ReconcileRelease)
     \/ p \in {"stuck", "reconcile"} /\ (StuckKill(p) \/ StuckFree(p) \/ StuckFail(p))

----------------------------------------------------------------------------
(* Calls of the store that fail: a request's context is cancelled, the      *)
(* database is away.  What the call should have written stays as it was.   *)

Mishap == mishaps < cast.mishaps /\ mishaps' = mishaps + 1

\* The places of a request or tick whose next step is a call of the store.
StorePlaces ==
  {"reserve", "write", "giveback", "audit", "reread", "mark", "release", "finish",
   "next", "free", "fail", "list_ws", "sweep"}

\* Most requests end there.  A reservation is given back; destroying, freeing
\* and the audit log ignore the error, but not a destroying request whose
\* release fails.
AfterFailure(p) ==
  LET o == op[p] IN
  CASE o.pc = "write" /\ o.kind \in {"create", "approve"} -> Goto(p, "giveback")
    [] o.pc = "write" /\ o.kind = "idle" /\ o.todo # {}    -> Goto(p, "next_row")
    [] o.pc = "sweep" /\ o.todo # {} ->
         \E a \in o.todo : op' = [op EXCEPT ![p].todo = @ \ {a}]
    [] o.pc = "mark"                                       -> Goto(p, "destroy_guest")
    [] o.pc \in {"audit", "finish"}                        -> NextOrDone(p)
    [] o.pc = "free"                                       -> Goto(p, "fail")
    [] OTHER                                               -> Done(p)

CallFails(p) ==
  /\ Mishap
  /\ op[p].pc \in StorePlaces
  /\ AfterFailure(p)
  /\ UNCHANGED <<storeVars, ws, asked, guest, prov, cast>>

\* The look-up after a reservation fails: the allocation is charged and the
\* request does not know it.
LookUpFails(h) ==
  /\ Mishap
  /\ op[h].pc = "reserve"
  /\ \E n \in Nodes, a \in FreshAllocs :
       ReserveOnNode(n, a, ProjectOf[op[h].w], PlanOf[op[h].w])
  /\ Done(h)
  /\ UNCHANGED <<ws, asked, guest, prov, cast>>

\* A rejection that cannot read the audit log restores "running".
RestoreBlindly(h) ==
  /\ Mishap
  /\ At(h, "reject_destroy", "write")
  /\ UpdateWorkspace(op[h].w, WithStatus(op[h].row, "running"))
  /\ Done(h)
  /\ UNCHANGED <<storeVars, asked, guest, prov, cast>>

\* A node the health ticker cannot read counts as lost.
HealthReadFails ==
  /\ Mishap
  /\ At("health", "health", "next_row")
  /\ \E t \in op["health"].todo :
       op' = [op EXCEPT !["health"].pc = "write", !["health"].w = t[1],
                        !["health"].row = WithStatus(t[2], "node_lost"),
                        !["health"].todo = @ \ {t}]
  /\ UNCHANGED <<storeVars, ws, asked, guest, prov, cast>>

\* The provisioning goroutine of a: a read or an activation that fails aborts it,
\* a write or a release that fails leaves row and allocation as they are.
ProvCallFails(a) ==
  LET pc == prov[a].pc IN
  /\ Mishap
  /\ \/ pc = "load" /\ ProvGoto(a, "release")
     \/ pc \in {"reread", "reread_failed", "activate"} /\ ProvGoto(a, "drop")
     \/ pc \in {"commit", "fail", "release"} /\ ProvDone(a)
  /\ UNCHANGED <<storeVars, ws, asked, guest, op, cast>>

----------------------------------------------------------------------------
\* Heartbeats and the health ticker.
NodeReports ==
  /\ \E n \in Nodes, cap \in Capacities, up \in BOOLEAN, charged \in Charges :
       UpsertNode(n, cap, up, charged)
  /\ UNCHANGED lifeVars

\* The process restarts: requests, ticks and goroutines are gone, the store
\* and the instances stay.
Crash ==
  /\ Mishap
  /\ op' = [p \in Procs |-> Idle]
  /\ prov' = [a \in AllocIds |-> NoGoroutine]
  /\ UNCHANGED <<storeVars, ws, asked, guest, cast>>

LifeInit ==
  /\ Init
  /\ ws = [w \in Workspaces |-> NoWs]
  /\ asked = [w \in Workspaces |-> "none"]
  /\ guest = [w \in Workspaces |-> "none"]
  /\ op = [p \in Procs |-> Idle]
  /\ prov = [a \in AllocIds |-> NoGoroutine]
  /\ mishaps = 0
  /\ cast \in Casts

BeginRequest(h) ==
  \/ \E w \in Workspaces :
       \/ RequestWorkspace(h, w) \/ CreateBegin(h, w) \/ ApproveRead(h, w)
       \/ ReadThenWrite(h, w) \/ TouchRead(h, w) \/ DestroyRead(h, w)
  \/ \E p \in Projects : DeleteProjectList(h, p)

ContinueRequest(h) ==
  \/ CreateStep(h) \/ StartGuest(h) \/ StopGuest(h) \/ WriteBack(h)
  \/ AuditDestroyRequest(h) \/ TouchReread(h) \/ DestroyStep(h)
  \/ WipeProjectNext(h) \/ DeleteProjectNext(h) \/ DeleteProjectDrop(h)

LifeNext ==
  \/ \E h \in Handlers : BeginRequest(h) \/ ContinueRequest(h)
  \/ \E p \in Tickers : Tick(p)
  \/ \E a \in AllocIds : Provision(a)
  \/ \E p \in Procs : CallFails(p)
  \/ \E h \in Handlers : LookUpFails(h) \/ RestoreBlindly(h)
  \/ HealthReadFails
  \/ \E a \in AllocIds : ProvCallFails(a)
  \/ NodeReports
  \/ Crash

LifeSafety == LifeInit /\ [][LifeNext]_vars

\* Requests once begun, goroutines and tickers keep running as long as their
\* calls succeed; nobody has to send a request, no node has to report.
LifeSpec ==
  /\ LifeSafety
  /\ \A h \in Handlers : WF_vars(ContinueRequest(h))
  /\ \A p \in Tickers : WF_vars(Tick(p))
  /\ \A a \in AllocIds : WF_vars(Provision(a))

----------------------------------------------------------------------------
(* Properties.                                                             *)

\* Nobody is working on w.
Quiet(w) ==
  /\ \A p \in Procs : op[p].w # w /\ op[p].todo = {}
  /\ \A a \in AllocIds : prov[a].w # w

\* A workspace that members can use has an active allocation of its own
\* project charged for it: what is handed out is on the books.
RunningBacked ==
  \A w \in Workspaces :
    StatusOf(w) \in {"running", "suspended", "fabric_degraded", "node_lost"} =>
    LET a == ws[w].alloc IN
      /\ a # NoAlloc /\ allocs[a] # NoAlloc
      /\ allocs[a].state = "active" /\ allocs[a].project = ProjectOf[w]

\* Destroyed, or about to be.
Ending(row) == row # NoWs /\ row.status \in {"destroying", "destroyed"}

\* Whoever brings a workspace back that is being destroyed, or is destroyed,
\* had read its row before the destruction began: no result of a provisioning
\* does, no ticker's late failure, and nobody who could have seen it coming.
OnlyEarlierReadersRevive ==
  [][\A w \in Workspaces : Ending(ws[w]) /\ ws'[w] # NoWs /\ ~Ending(ws'[w]) =>
       \E p \in Procs : /\ op'[p] # op[p] /\ op[p].w = w
                        /\ op[p].row # NoWs /\ ~Ending(op[p].row)]_vars

\* A destroyed workspace stays destroyed.
DestroyedIsFinal ==
  [][\A w \in Workspaces : StatusOf(w) = "destroyed" =>
       ws'[w] = NoWs \/ ws'[w].status \in {"destroying", "destroyed"}]_vars

\* Once everybody is done with a destroyed workspace its capacity is back.
DestroyFreesAllocation ==
  \A w \in Workspaces : StatusOf(w) = "destroyed" /\ Quiet(w) =>
    ws[w].alloc = NoAlloc \/ ~IsLive(allocs[ws[w].alloc])

\* A destroyed workspace that nobody is working on has no instance, if no call
\* failed on the way: neither a launch that was still under way nor one that
\* failed and left its instance behind outlasts the destruction.
DestroyedLeavesNoInstance ==
  ~cast.agent_fails /\ mishaps = 0 =>
    \A w \in Workspaces : StatusOf(w) = "destroyed" /\ Quiet(w) => guest[w] = "none"

\* Nobody uses live allocation a, and the rows do not need it.
Orphan(a) ==
  /\ IsLive(allocs[a]) /\ Unneeded(a)
  /\ prov[a].pc = "none" /\ \A p \in Procs : op[p].alloc # a

\* Capacity that a crash, a lost race or a failed step left bound to nothing
\* does not stay so for ever.
OrphansReclaimed == \A a \in AllocIds : []<>~Orphan(a)

\* No workspace stays in provisioning for ever, whatever the launch does and
\* whenever the process restarts.
ProvisioningResolves ==
  \A w \in Workspaces :
    StatusOf(w) = "provisioning" ~> StatusOf(w) # "provisioning"

\* Destruction is not resumed when a restart or a failed call ends it half done.
\* But as soon as somebody destroys the workspace again and no more calls
\* fail, it comes to its end, whatever the earlier attempt had already done.
DestroyCompletes ==
  \A w \in Workspaces :
    /\ StatusOf(w) = "destroying" /\ mishaps = cast.mishaps
    /\ \E h \in Handlers :
         op[h].w = w /\ op[h].pc \in {"destroy_guest", "release", "finish"}
    ~> StatusOf(w) # "destroying"
=============================================================================
