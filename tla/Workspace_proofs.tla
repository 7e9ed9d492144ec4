-------------------------- MODULE Workspace_proofs --------------------------
(***************************************************************************)
(* Proofs about Workspace, for any cast of requests, tickers, failures and *)
(* mishaps: every step is a call of the store or leaves its tables alone,  *)
(* a destroyed workspace has given its capacity back, and nobody brings a  *)
(* workspace back from its destruction who has not read it before.         *)
(***************************************************************************)
EXTENDS Workspace, LedgerStore_proofs

Ref == AllocIds \cup {NoAlloc}

\* The places of a request or tick at which it holds a row it has read.
RowPlaces ==
  {"start_guest", "stop_guest", "audit", "mark", "destroy_guest", "release", "finish", "free", "fail"}

Places == RowPlaces \cup {"reserve", "write", "giveback", "reread"}

OpPlaces == Places \cup {"idle", "next", "next_row", "kill", "list_ws", "sweep"}

OpKinds == Kinds \cup Tickers \cup {"none", "wake"}

ProvPlaces ==
  {"none", "load", "launch", "reread", "reread_failed", "activate", "commit", "fail",
   "destroy", "drop", "release"}

OpRecord ==
  [kind : OpKinds, pc : OpPlaces, w : Workspaces \cup {NoWs}, row : Row \cup {NoWs}, alloc : Ref,
   todo : SUBSET (Workspaces \cup AllocIds \cup (Workspaces \X Row)), project : Projects \cup {"none"}]

ProvRecord == [pc : ProvPlaces, w : Workspaces \cup {NoWs}, row : Row \cup {NoWs}]

\* The kinds that read a row and write it back.
Writers ==
  {"reject", "ask_destroy", "skip_destroy", "approve_destroy", "delete_project", "reject_destroy",
   "stop", "start", "wake", "idle", "touch", "health"}

\* The local variables of a request or tick fit the place it is at.
Sound(o) ==
  /\ o.pc \in Places => o.w \in Workspaces
  /\ o.pc \in RowPlaces \/ (o.pc = "write" /\ o.kind \notin {"create", "approve"})
       => o.row \in Row
  /\ o.pc \in {"write", "start_guest", "stop_guest"} => o.kind \in Writers \cup {"create", "approve"}
  /\ o.pc \in {"start_guest", "stop_guest", "audit"} => o.kind \in Writers
  /\ o.pc = "next" => o.kind \in ProjectDeletions
  /\ o.kind \in ProjectDeletions => o.project \in Projects /\ o.todo \subseteq Workspaces
  /\ o.kind \in {"idle", "health", "stuck"} => o.todo \subseteq Workspaces \X Row
  /\ o.kind = "reconcile" => o.todo \subseteq AllocIds

\* The same of the goroutine that provisions an instance.
SoundGoroutine(g) ==
  /\ g.pc # "none" => g.w \in Workspaces
  /\ g.pc \in {"activate", "commit", "fail"} => g.row \in Row

OpOK == op \in [Procs -> OpRecord] /\ \A p \in Procs : Sound(op[p])

ProvOK == prov \in [AllocIds -> ProvRecord] /\ \A a \in AllocIds : SoundGoroutine(prov[a])

LifeTypeOK ==
  /\ ws \in [Workspaces -> Row \cup {NoWs}]
  /\ asked \in [Workspaces -> Statuses \cup {"none"}]
  /\ OpOK
  /\ ProvOK

\* By table m, the capacity behind a reference is not, or no longer, bound.
Gone(m, a) == a = NoAlloc \/ ~IsLive(m[a])

\* A row that says "destroyed" refers to capacity that is free.
FreedRow(m, row) == row # NoWs /\ row.status = "destroyed" => Gone(m, row.alloc)

\* So does such a row on its way to the store, and one about to say so.
Freed(m, o) ==
  /\ FreedRow(m, o.row)
  /\ o.pc = "finish" => Gone(m, o.row.alloc)
  /\ o.kind \in {"idle", "health", "stuck"} => \A t \in o.todo : t[2].status # "destroyed"

FreedOK ==
  /\ \A w \in Workspaces : FreedRow(allocs, ws[w])
  /\ \A p \in Procs : Freed(allocs, op[p])

----------------------------------------------------------------------------
(* What a step does to the local variables of one process.                 *)

LEMMA IdleIsSound == Idle \in OpRecord /\ Sound(Idle)
<1>1. Idle \in OpRecord
  BY DEF Idle, OpRecord, OpKinds, OpPlaces, Ref
<1>2. Sound(Idle)
  BY DEF Idle, Sound, Places, RowPlaces, ProjectDeletions
<1> QED BY <1>1, <1>2

\* One process moves, the others stay where they are.
LEMMA OpUpdated ==
  ASSUME OpOK, NEW p \in Procs, NEW o \in OpRecord, Sound(o), op' = [op EXCEPT ![p] = o]
  PROVE  OpOK'
BY DEF OpOK

LEMMA DoneKeepsOp ==
  ASSUME OpOK, NEW p \in Procs, Done(p)
  PROVE  OpOK'
BY IdleIsSound, OpUpdated DEF Done

LEMMA GotoKeepsOp ==
  ASSUME OpOK, NEW p \in Procs, NEW pc \in OpPlaces, Goto(p, pc), Sound([op[p] EXCEPT !.pc = pc])
  PROVE  OpOK'
<1>1. [op[p] EXCEPT !.pc = pc] \in OpRecord
  BY DEF OpOK, OpRecord
<1> QED BY <1>1, OpUpdated DEF Goto

\* A handler begins with the row it reads.
LEMMA BeginKeepsOp ==
  ASSUME OpOK, NEW h \in Handlers, NEW kind \in OpKinds, NEW pc \in OpPlaces, NEW w \in Workspaces,
         ws \in [Workspaces -> Row \cup {NoWs}], Begin(h, kind, pc, w),
         Sound([Idle EXCEPT !.kind = kind, !.pc = pc, !.w = w, !.row = ws[w]])
  PROVE  OpOK'
<1>1. [Idle EXCEPT !.kind = kind, !.pc = pc, !.w = w, !.row = ws[w]] \in OpRecord
  BY IdleIsSound DEF OpRecord
<1> QED BY <1>1, OpUpdated DEF Begin, Procs

\* The end of a request, or of one workspace's part in the deletion of a project.
LEMMA NextOrDoneKeepsOp ==
  ASSUME OpOK, NEW p \in Procs, op[p].row \in Row, op[p].w \in Workspaces, NextOrDone(p)
  PROVE  OpOK'
<1>1. CASE op[p].kind \in ProjectDeletions /\ Goto(p, "next")
  <2>1. Sound([op[p] EXCEPT !.pc = "next"])
    BY <1>1 DEF OpOK, OpRecord, Sound, Places, RowPlaces, ProjectDeletions
  <2> QED BY <1>1, <2>1, GotoKeepsOp DEF OpPlaces
<1>2. CASE Done(p)
  BY <1>2, DoneKeepsOp
<1> QED BY <1>1, <1>2 DEF NextOrDone

LEMMA ProvUpdated ==
  ASSUME ProvOK, NEW a \in AllocIds, NEW g \in ProvRecord, SoundGoroutine(g),
         prov' = [prov EXCEPT ![a] = g]
  PROVE  ProvOK'
BY DEF ProvOK

LEMMA ProvDoneKeeps ==
  ASSUME ProvOK, NEW a \in AllocIds, ProvDone(a)
  PROVE  ProvOK'
<1>1. NoGoroutine \in ProvRecord /\ SoundGoroutine(NoGoroutine)
  BY DEF NoGoroutine, ProvRecord, ProvPlaces, SoundGoroutine
<1> QED BY <1>1, ProvUpdated DEF ProvDone

LEMMA ProvGotoKeeps ==
  ASSUME ProvOK, NEW a \in AllocIds, NEW pc \in ProvPlaces, ProvGoto(a, pc),
         SoundGoroutine([prov[a] EXCEPT !.pc = pc])
  PROVE  ProvOK'
<1>1. [prov[a] EXCEPT !.pc = pc] \in ProvRecord
  BY DEF ProvOK, ProvRecord
<1> QED BY <1>1, ProvUpdated DEF ProvGoto

\* A row with another status is a row.
LEMMA WithStatusIsRow ==
  ASSUME NEW row \in Row, NEW status \in Statuses
  PROVE  WithStatus(row, status) \in Row /\ WithStatus(row, status).status = status
         /\ WithStatus(row, status).alloc = row.alloc
BY DEF WithStatus, Row

----------------------------------------------------------------------------
(* The local variables, and the rows, keep their shape.                    *)

\* A request only moves: what the rows and the goroutines are stays.
LEMMA OpMoves ==
  ASSUME LifeTypeOK, UNCHANGED <<ws, asked, prov>>, OpOK'
  PROVE  LifeTypeOK'
BY DEF LifeTypeOK, ProvOK

\* A goroutine only moves.
LEMMA ProvMoves ==
  ASSUME LifeTypeOK, UNCHANGED <<ws, asked, op>>, ProvOK'
  PROVE  LifeTypeOK'
BY DEF LifeTypeOK, OpOK

\* A request that reads a row there is, to write it back.
LEMMA ReadsARow ==
  ASSUME LifeTypeOK, NEW h \in Handlers, NEW w \in Workspaces,
         NEW kind \in Writers \ {"delete_project", "idle", "health"},
         NEW pc \in {"write", "start_guest", "stop_guest"},
         ReadsExisting(h, kind, pc, w)
  PROVE  OpOK'
<1>1. ws[w] \in Row /\ kind \in OpKinds /\ pc \in OpPlaces
  BY DEF ReadsExisting, LifeTypeOK, Writers, OpKinds, Kinds, Tickers, OpPlaces, Places, RowPlaces
<1>2. Sound([Idle EXCEPT !.kind = kind, !.pc = pc, !.w = w, !.row = ws[w]])
  BY <1>1 DEF Idle, Sound, Writers, Places, RowPlaces, ProjectDeletions
<1> QED BY <1>1, <1>2, BeginKeepsOp DEF ReadsExisting, LifeTypeOK

LEMMA BeginType ==
  ASSUME LifeTypeOK, NEW h \in Handlers, BeginRequest(h)
  PROVE  LifeTypeOK'
<1>1. ASSUME NEW w \in Workspaces, RequestWorkspace(h, w)
      PROVE  LifeTypeOK'
  <2>1. [status |-> "requested", alloc |-> NoAlloc] \in Row
    BY DEF Row, Statuses
  <2>2. ws' \in [Workspaces -> Row \cup {NoWs}] /\ UNCHANGED <<asked, op, prov>>
    BY <1>1, <2>1 DEF RequestWorkspace, LifeTypeOK
  <2> QED BY <2>2 DEF LifeTypeOK, OpOK, ProvOK
<1>2. ASSUME NEW w \in Workspaces, CreateBegin(h, w) \/ ApproveRead(h, w)
      PROVE  LifeTypeOK'
  <2>1. PICK kind \in {"create", "approve"} : Begin(h, kind, "reserve", w)
    BY <1>2 DEF CreateBegin, ApproveRead, ReadsExisting
  <2>2. Sound([Idle EXCEPT !.kind = kind, !.pc = "reserve", !.w = w, !.row = ws[w]])
    BY DEF Idle, Sound, Writers, Places, RowPlaces, ProjectDeletions
  <2>3. OpOK'
    BY <2>1, <2>2, BeginKeepsOp DEF LifeTypeOK, OpKinds, Kinds, OpPlaces, Places
  <2> QED BY <1>2, <2>3, OpMoves DEF CreateBegin, ApproveRead
<1>3. ASSUME NEW w \in Workspaces, ReadThenWrite(h, w)
      PROVE  LifeTypeOK'
  <2>1. PICK kind \in Writers \ {"delete_project", "idle", "health"},
             pc \in {"write", "start_guest", "stop_guest"} : ReadsExisting(h, kind, pc, w)
    BY <1>3 DEF ReadThenWrite, FirstStepOfDestroyRequest, Writers
  <2> QED BY <1>3, <2>1, ReadsARow, OpMoves DEF ReadThenWrite
<1>4. ASSUME NEW w \in Workspaces, TouchRead(h, w)
      PROVE  LifeTypeOK'
  <2> DEFINE o == IF ws[w].status = "suspended"
                  THEN [Idle EXCEPT !.kind = "wake", !.pc = "start_guest", !.w = w, !.row = ws[w]]
                  ELSE [Idle EXCEPT !.kind = "touch", !.pc = "write", !.w = w, !.row = ws[w]]
  <2>1. ws[w] \in Row
    BY <1>4 DEF TouchRead, LifeTypeOK
  <2>2. \A kind \in OpKinds, pc \in OpPlaces :
          [Idle EXCEPT !.kind = kind, !.pc = pc, !.w = w, !.row = ws[w]] \in OpRecord
    BY <2>1, IdleIsSound DEF OpRecord
  <2>3. o \in OpRecord
    <3>1. "wake" \in OpKinds /\ "touch" \in OpKinds /\ "start_guest" \in OpPlaces /\ "write" \in OpPlaces
      BY DEF OpKinds, Kinds, OpPlaces, Places, RowPlaces
    <3> QED BY <2>2, <3>1
  <2>4. Sound(o)
    BY <2>1 DEF Idle, Sound, Writers, Places, RowPlaces, ProjectDeletions
  <2>5. op' = [op EXCEPT ![h] = o]
    BY <1>4 DEF TouchRead
  <2> HIDE DEF o
  <2>6. OpOK'
    BY <2>3, <2>4, <2>5, OpUpdated DEF LifeTypeOK, Procs
  <2> QED BY <1>4, <2>6, OpMoves DEF TouchRead
<1>5. ASSUME NEW w \in Workspaces, DestroyRead(h, w)
      PROVE  LifeTypeOK'
  <2>1. PICK kind \in {"destroy", "approve_platform"} : ReadsExisting(h, kind, "mark", w)
    BY <1>5 DEF DestroyRead
  <2>2. ws[w] \in Row
    BY <2>1 DEF ReadsExisting, LifeTypeOK
  <2>3. Sound([Idle EXCEPT !.kind = kind, !.pc = "mark", !.w = w, !.row = ws[w]])
    BY <2>2 DEF Idle, Sound, Writers, Places, RowPlaces, ProjectDeletions
  <2>4. OpOK'
    BY <2>1, <2>3, BeginKeepsOp
       DEF LifeTypeOK, ReadsExisting, OpKinds, Kinds, OpPlaces, Places, RowPlaces
  <2> QED BY <1>5, <2>4, OpMoves DEF DestroyRead
<1>6. ASSUME NEW p \in Projects, DeleteProjectList(h, p)
      PROVE  LifeTypeOK'
  <2> DEFINE T == {w \in Workspaces : /\ ws[w] # NoWs /\ ProjectOf[w] = p
                                      /\ ws[w].status # "destroyed"}
  <2>0. PICK kind \in ProjectDeletions :
          op' = [op EXCEPT ![h] = [Idle EXCEPT !.kind = kind, !.pc = "next", !.todo = T,
                                               !.project = p]]
    BY <1>6 DEF DeleteProjectList
  <2> DEFINE o == [Idle EXCEPT !.kind = kind, !.pc = "next", !.todo = T, !.project = p]
  <2>1. T \subseteq Workspaces /\ op' = [op EXCEPT ![h] = o]
    BY <2>0
  <2> HIDE DEF T
  <2>2. o \in OpRecord
    BY <2>1, IdleIsSound DEF OpRecord, OpKinds, Kinds, OpPlaces, ProjectDeletions
  <2>3. Sound(o)
    BY <2>1 DEF Idle, Sound, Places, RowPlaces, ProjectDeletions
  <2> HIDE DEF o
  <2>4. OpOK'
    BY <2>1, <2>2, <2>3, OpUpdated DEF LifeTypeOK, Procs
  <2> QED BY <1>6, <2>4, OpMoves DEF DeleteProjectList
<1> QED BY <1>1, <1>2, <1>3, <1>4, <1>5, <1>6 DEF BeginRequest

\* The status a request writes is a status.
LEMMA NewStatusIsStatus ==
  ASSUME LifeTypeOK, NEW p \in Procs, op[p].pc = "write", op[p].kind \notin {"create", "approve"}
  PROVE  NewStatus(p) \in Statuses /\ op[p].row \in Row /\ op[p].w \in Workspaces
<1>1. op[p].kind \in Writers /\ op[p].w \in Workspaces /\ op[p].row \in Row
  BY DEF LifeTypeOK, OpOK, Sound, Places, ProjectDeletions
<1>2. asked[op[p].w] \in Statuses \cup {"none"} /\ op[p].row.status \in Statuses
  BY <1>1 DEF LifeTypeOK, Row
<1>3. RestoreStatusAfterDestroyReject(asked[op[p].w]) \in Statuses
  BY <1>2 DEF RestoreStatusAfterDestroyReject, WorkspaceHealthActive, Statuses
<1> QED BY <1>1, <1>2, <1>3 DEF NewStatus, Writers, Statuses

\* Where a request goes after its write.
LEMMA AfterWriteType ==
  ASSUME OpOK, NEW p \in Procs, op[p].pc = "write", op[p].kind \notin {"create", "approve"},
         AfterWrite(p)
  PROVE  OpOK'
<1>0. op[p] \in OpRecord /\ Sound(op[p]) /\ op[p].kind \in Writers
  BY DEF OpOK, Sound, ProjectDeletions
<1>1. CASE op[p].kind \in {"ask_destroy", "skip_destroy", "delete_project"} /\ Goto(p, "audit")
  <2>1. Sound([op[p] EXCEPT !.pc = "audit"])
    BY <1>0, <1>1 DEF Sound, OpRecord, Places, RowPlaces, ProjectDeletions
  <2> QED BY <1>1, <2>1, GotoKeepsOp DEF OpPlaces, Places, RowPlaces
<1>2. CASE op[p].kind = "wake" /\ op' = [op EXCEPT ![p].kind = "touch", ![p].pc = "reread"]
  <2> DEFINE o == [op[p] EXCEPT !.kind = "touch", !.pc = "reread"]
  <2>1. o \in OpRecord
    BY <1>0 DEF OpRecord, OpKinds, Kinds, OpPlaces, Places
  <2>2. Sound(o)
    BY <1>0, <1>2 DEF Sound, OpRecord, Places, RowPlaces, ProjectDeletions
  <2>3. op' = [op EXCEPT ![p] = o]
    BY <1>2 DEF OpOK
  <2> HIDE DEF o
  <2> QED BY <2>1, <2>2, <2>3, OpUpdated
<1>3. CASE op[p].kind \in {"idle", "health"} /\ Goto(p, "next_row")
  <2>1. Sound([op[p] EXCEPT !.pc = "next_row"])
    BY <1>0, <1>3 DEF Sound, OpRecord, Places, RowPlaces, ProjectDeletions
  <2> QED BY <1>3, <2>1, GotoKeepsOp DEF OpPlaces
<1>4. CASE Done(p)
  BY <1>4, DoneKeepsOp
<1> QED BY <1>0, <1>1, <1>2, <1>3, <1>4 DEF AfterWrite, Writers

\* Writing back the row a request has read.
LEMMA WriteBackType ==
  ASSUME LifeTypeOK, NEW p \in Procs, WriteBack(p)
  PROVE  LifeTypeOK'
<1>1. /\ op[p].pc = "write" /\ op[p].kind \notin {"create", "approve"}
      /\ UNCHANGED <<asked, prov>>
  BY DEF WriteBack
<1>2. WithStatus(op[p].row, NewStatus(p)) \in Row
  BY <1>1, NewStatusIsStatus, WithStatusIsRow
<1>3. ws' \in [Workspaces -> Row \cup {NoWs}]
  BY <1>1, <1>2, NewStatusIsStatus DEF WriteBack, UpdateWorkspace, LifeTypeOK
<1>4. AfterWrite(p) => OpOK'
  BY <1>1, AfterWriteType DEF LifeTypeOK
<1>5. Done(p) => OpOK'
  BY DoneKeepsOp DEF LifeTypeOK
<1>6. op[p].kind = "idle" /\ Goto(p, "next_row") => OpOK'
  <2> SUFFICES ASSUME op[p].kind = "idle", Goto(p, "next_row") PROVE OpOK'
    OBVIOUS
  <2>1. Sound([op[p] EXCEPT !.pc = "next_row"])
    BY DEF LifeTypeOK, OpOK, Sound, OpRecord, Places, RowPlaces, ProjectDeletions
  <2> QED BY <2>1, GotoKeepsOp DEF LifeTypeOK, OpPlaces
<1>7. OpOK'
  BY <1>4, <1>5, <1>6 DEF WriteBack
<1> QED BY <1>1, <1>3, <1>7 DEF LifeTypeOK, ProvOK

\* Ledger.Reserve, the write that follows it, and giving the reservation back.
LEMMA CreateStepType ==
  ASSUME LifeTypeOK, NEW h \in Handlers, CreateStep(h)
  PROVE  LifeTypeOK'
<1>0. h \in Procs /\ op[h] \in OpRecord /\ Sound(op[h])
  BY DEF LifeTypeOK, OpOK, Procs
<1>1. ASSUME ReserveStep(h) PROVE LifeTypeOK'
  <2>1. ASSUME NEW a \in AllocIds, op' = [op EXCEPT ![h].pc = "write", ![h].alloc = a]
        PROVE  OpOK'
    <3> DEFINE o == [op[h] EXCEPT !.pc = "write", !.alloc = a]
    <3>1. o \in OpRecord
      BY <1>0 DEF OpRecord, Ref, OpPlaces, Places
    <3>2. Sound(o)
      BY <1>0, <1>1 DEF Sound, OpRecord, ReserveStep, Places, RowPlaces, ProjectDeletions
    <3>3. op' = [op EXCEPT ![h] = o]
      BY <2>1 DEF LifeTypeOK, OpOK
    <3> HIDE DEF o
    <3> QED BY <1>0, <3>1, <3>2, <3>3, OpUpdated DEF LifeTypeOK
  <2>2. Done(h) => OpOK'
    BY <1>0, DoneKeepsOp DEF LifeTypeOK
  <2>3. OpOK'
    BY <1>1, <2>1, <2>2 DEF ReserveStep, FreshAllocs
  <2> QED BY <1>1, <2>3, OpMoves DEF ReserveStep
<1>2. ASSUME ProvisioningWrite(h) PROVE LifeTypeOK'
  <2> DEFINE w == op[h].w
             a == op[h].alloc
             g == [pc |-> "load", w |-> w, row |-> NoWs]
  <2>1. op[h].pc = "write" /\ w \in Workspaces /\ a \in Ref /\ UNCHANGED asked
    BY <1>0, <1>2 DEF ProvisioningWrite, Sound, Places, OpRecord, ProjectDeletions
  <2>2. CASE Goto(h, "giveback") /\ UNCHANGED <<ws, prov>>
    <3>1. Sound([op[h] EXCEPT !.pc = "giveback"])
      BY <1>0, <2>1 DEF Sound, OpRecord, Places, RowPlaces, ProjectDeletions
    <3>2. OpOK'
      BY <1>0, <2>2, <3>1, GotoKeepsOp DEF LifeTypeOK, OpPlaces, Places
    <3> QED BY <2>1, <2>2, <3>2, OpMoves
  <2>3. CASE /\ ws' = IF op[h].kind = "approve" /\ ws[w] = NoWs THEN ws
                      ELSE [ws EXCEPT ![w] = [status |-> "provisioning", alloc |-> a]]
             /\ prov' = [prov EXCEPT ![a] = g]
             /\ Done(h)
    <3>1. [status |-> "provisioning", alloc |-> a] \in Row
      BY <2>1 DEF Row, Statuses, Ref
    <3>2. ws' \in [Workspaces -> Row \cup {NoWs}]
      BY <2>1, <2>3, <3>1 DEF LifeTypeOK
    <3>3. OpOK'
      BY <1>0, <2>3, DoneKeepsOp DEF LifeTypeOK
    <3>4. g \in ProvRecord /\ SoundGoroutine(g)
      BY <2>1 DEF ProvRecord, ProvPlaces, SoundGoroutine
    <3> HIDE DEF g
    <3>5. ProvOK'
      <4>1. CASE a \in AllocIds
        BY <2>3, <3>4, <4>1, ProvUpdated DEF LifeTypeOK
      <4>2. CASE a \notin AllocIds
        <5>1. prov' = prov
          BY <2>3, <4>2 DEF LifeTypeOK, ProvOK
        <5> QED BY <5>1 DEF LifeTypeOK, ProvOK
      <4> QED BY <4>1, <4>2
    <3> QED BY <2>1, <3>2, <3>3, <3>5 DEF LifeTypeOK
  <2> QED BY <1>2, <2>2, <2>3 DEF ProvisioningWrite
<1>3. ASSUME GiveBack(h) PROVE LifeTypeOK'
  <2>1. OpOK'
    BY <1>0, <1>3, DoneKeepsOp DEF LifeTypeOK, GiveBack
  <2> QED BY <1>3, <2>1, OpMoves DEF GiveBack
<1> QED BY <1>1, <1>2, <1>3 DEF CreateStep

\* Switching an instance on or off before the write.
LEMMA SwitchGuestType ==
  ASSUME LifeTypeOK, NEW h \in Handlers, StartGuest(h) \/ StopGuest(h)
  PROVE  LifeTypeOK'
<1>0. h \in Procs /\ op[h] \in OpRecord /\ Sound(op[h])
  BY DEF LifeTypeOK, OpOK, Procs
<1>1. /\ op[h].pc \in {"start_guest", "stop_guest"}
      /\ Goto(h, "write") \/ Done(h)
      /\ UNCHANGED <<ws, asked, prov>>
  BY DEF StartGuest, StopGuest, SwitchGuest
<1>2. Sound([op[h] EXCEPT !.pc = "write"])
  BY <1>0, <1>1 DEF Sound, OpRecord, Writers, Places, RowPlaces, ProjectDeletions
<1>3. Goto(h, "write") => OpOK'
  BY <1>0, <1>2, GotoKeepsOp DEF LifeTypeOK, OpPlaces, Places
<1>4. Done(h) => OpOK'
  BY <1>0, DoneKeepsOp DEF LifeTypeOK
<1> QED BY <1>1, <1>3, <1>4, OpMoves

\* The four steps of executeDestroy.
LEMMA DestroyStepType ==
  ASSUME LifeTypeOK, NEW h \in Handlers, DestroyStep(h)
  PROVE  LifeTypeOK'
<1>0. h \in Procs /\ op[h] \in OpRecord /\ Sound(op[h]) /\ UNCHANGED <<asked, prov>>
  BY DEF LifeTypeOK, OpOK, Procs, DestroyStep, DestroyMark, DestroyGuest, DestroyRelease, DestroyFinish
<1>1. op[h].pc \in {"mark", "destroy_guest", "release", "finish"}
  BY DEF DestroyStep, DestroyMark, DestroyGuest, DestroyRelease, DestroyFinish
<1>2. op[h].row \in Row /\ op[h].w \in Workspaces
  BY <1>0, <1>1 DEF Sound, Places, RowPlaces, ProjectDeletions
<1>3. ws' \in [Workspaces -> Row \cup {NoWs}]
  <2>1. /\ WithStatus(op[h].row, "destroying") \in Row
        /\ WithStatus(op[h].row, "destroyed") \in Row
    BY <1>2, WithStatusIsRow DEF Statuses
  <2> QED
    BY <1>2, <2>1 DEF DestroyStep, DestroyMark, DestroyGuest, DestroyRelease, DestroyFinish,
                      WriteIfPresent, UpdateWorkspace, LifeTypeOK
<1>4. ASSUME NEW pc \in {"destroy_guest", "release", "finish"}, Goto(h, pc)
      PROVE  OpOK'
  <2>1. Sound([op[h] EXCEPT !.pc = pc])
    BY <1>0, <1>1, <1>2 DEF Sound, OpRecord, Places, RowPlaces, ProjectDeletions
  <2> QED BY <1>0, <1>4, <2>1, GotoKeepsOp DEF LifeTypeOK, OpPlaces, Places, RowPlaces
<1>5. NextOrDone(h) => OpOK'
  BY <1>0, <1>2, NextOrDoneKeepsOp DEF LifeTypeOK
<1>6. OpOK'
  BY <1>4, <1>5 DEF DestroyStep, DestroyMark, DestroyGuest, DestroyRelease, DestroyFinish
<1> QED BY <1>0, <1>3, <1>6 DEF LifeTypeOK, ProvOK

\* The audit record of a destroy request, and reading a row again.
LEMMA RecordOrRereadType ==
  ASSUME LifeTypeOK, NEW h \in Handlers, AuditDestroyRequest(h) \/ TouchReread(h)
  PROVE  LifeTypeOK'
<1>0. h \in Procs /\ op[h] \in OpRecord /\ Sound(op[h])
  BY DEF LifeTypeOK, OpOK, Procs
<1>1. ASSUME AuditDestroyRequest(h) PROVE LifeTypeOK'
  <2>1. op[h].pc = "audit" /\ op[h].row \in Row /\ op[h].w \in Workspaces
    BY <1>0, <1>1 DEF AuditDestroyRequest, Sound, Places, RowPlaces, ProjectDeletions
  <2>2. asked' \in [Workspaces -> Statuses \cup {"none"}] /\ UNCHANGED <<ws, prov>>
    BY <1>1, <2>1 DEF AuditDestroyRequest, LifeTypeOK, Row
  <2>3. OpOK'
    BY <1>0, <1>1, <2>1, NextOrDoneKeepsOp DEF AuditDestroyRequest, LifeTypeOK
  <2> QED BY <2>2, <2>3 DEF LifeTypeOK, ProvOK
<1>2. ASSUME TouchReread(h) PROVE LifeTypeOK'
  <2> DEFINE o == [op[h] EXCEPT !.pc = "write", !.row = ws[op[h].w]]
  <2>1. op[h].kind = "touch" /\ op[h].pc = "reread" /\ op[h].w \in Workspaces
    BY <1>0, <1>2 DEF TouchReread, At, Sound, Places, ProjectDeletions
  <2>2. CASE ws[op[h].w] # NoWs /\ op' = [op EXCEPT ![h] = o]
    <3>1. ws[op[h].w] \in Row
      BY <2>1, <2>2 DEF LifeTypeOK
    <3>2. o \in OpRecord
      BY <1>0, <3>1 DEF OpRecord, OpPlaces, Places
    <3>3. Sound(o)
      BY <1>0, <2>1, <3>1 DEF Sound, OpRecord, Writers, Places, RowPlaces, ProjectDeletions
    <3> HIDE DEF o
    <3>4. OpOK'
      BY <1>0, <2>2, <3>2, <3>3, OpUpdated DEF LifeTypeOK
    <3> QED BY <1>2, <3>4, OpMoves DEF TouchReread
  <2>3. CASE Done(h)
    <3>1. OpOK'
      BY <1>0, <2>3, DoneKeepsOp DEF LifeTypeOK
    <3> QED BY <1>2, <3>1, OpMoves DEF TouchReread
  <2>4. Done(h) \/ (ws[op[h].w] # NoWs /\ op' = [op EXCEPT ![h] = o])
    BY <1>0, <1>2 DEF TouchReread, LifeTypeOK, OpOK
  <2> QED BY <2>2, <2>3, <2>4
<1> QED BY <1>1, <1>2

\* One more workspace of a project that is being deleted, and the end of it.
LEMMA DeleteProjectType ==
  ASSUME LifeTypeOK, NEW h \in Handlers,
         WipeProjectNext(h) \/ DeleteProjectNext(h) \/ DeleteProjectDrop(h)
  PROVE  LifeTypeOK'
<1>0. h \in Procs /\ op[h] \in OpRecord /\ Sound(op[h])
  BY DEF LifeTypeOK, OpOK, Procs
<1>1. /\ op[h].pc = "next" /\ op[h].kind \in ProjectDeletions
      /\ op[h].todo \subseteq Workspaces /\ op[h].project \in Projects
  BY <1>0 DEF WipeProjectNext, DeleteProjectNext, DeleteProjectDrop, At, Sound, ProjectDeletions
<1>2. Done(h) => OpOK'
  BY <1>0, DoneKeepsOp DEF LifeTypeOK
<1>3. ASSUME NEW w \in Workspaces, ws[w] # NoWs,
             NEW pc \in {"start_guest", "write", "mark"},
             pc # "mark" => op[h].kind = "delete_project",
             op' = [op EXCEPT ![h].w = w, ![h].row = ws[w], ![h].todo = @ \ {w}, ![h].pc = pc]
      PROVE  OpOK'
  <2> DEFINE o == [op[h] EXCEPT !.w = w, !.row = ws[w], !.todo = @ \ {w}, !.pc = pc]
  <2>1. ws[w] \in Row
    BY <1>3 DEF LifeTypeOK
  <2>2. o \in OpRecord
    BY <1>0, <2>1 DEF OpRecord, OpPlaces, Places, RowPlaces
  <2>3. Sound(o)
    BY <1>0, <1>1, <1>3, <2>1 DEF Sound, OpRecord, Writers, Places, RowPlaces, ProjectDeletions
  <2>4. op' = [op EXCEPT ![h] = o]
    BY <1>3 DEF LifeTypeOK, OpOK
  <2> HIDE DEF o
  <2> QED BY <1>0, <2>2, <2>3, <2>4, OpUpdated DEF LifeTypeOK
<1>5. ASSUME DeleteProjectNext(h) PROVE LifeTypeOK'
  <2>1. OpOK'
    BY <1>1, <1>2, <1>3, <1>5 DEF DeleteProjectNext, At, FirstStepOfDestroyRequest
  <2> QED BY <1>5, <2>1, OpMoves DEF DeleteProjectNext
<1>6. ASSUME WipeProjectNext(h) PROVE LifeTypeOK'
  <2>1. OpOK'
    BY <1>1, <1>2, <1>3, <1>6 DEF WipeProjectNext
  <2> QED BY <1>6, <2>1, OpMoves DEF WipeProjectNext
<1>4. ASSUME DeleteProjectDrop(h) PROVE LifeTypeOK'
  <2>1. OpOK'
    BY <1>2, <1>4 DEF DeleteProjectDrop
  <2>2. ws' \in [Workspaces -> Row \cup {NoWs}] /\ UNCHANGED <<asked, prov>>
    BY <1>4 DEF DeleteProjectDrop, LifeTypeOK
  <2> QED BY <2>1, <2>2 DEF LifeTypeOK, ProvOK
<1> QED BY <1>4, <1>5, <1>6

LEMMA ContinueType ==
  ASSUME LifeTypeOK, NEW h \in Handlers, ContinueRequest(h)
  PROVE  LifeTypeOK'
<1>1. h \in Procs
  BY DEF Procs
<1> QED
  BY <1>1, CreateStepType, SwitchGuestType, WriteBackType, RecordOrRereadType, DestroyStepType,
     DeleteProjectType DEF ContinueRequest

\* The goroutine that provisions.
LEMMA ProvisionType ==
  ASSUME LifeTypeOK, NEW a \in AllocIds, Provision(a)
  PROVE  LifeTypeOK'
<1>0. prov[a] \in ProvRecord /\ SoundGoroutine(prov[a]) /\ ProvOK
  BY DEF LifeTypeOK, ProvOK
<1>1. ProvDone(a) => ProvOK'
  BY <1>0, ProvDoneKeeps
<1>2. ASSUME prov[a].pc # "none", ProvGoto(a, "release") \/ ProvGoto(a, "launch")
               \/ ProvGoto(a, "reread") \/ ProvGoto(a, "reread_failed") \/ ProvGoto(a, "drop")
               \/ ProvGoto(a, "destroy")
      PROVE  ProvOK'
  <2>1. PICK pc \in {"release", "launch", "reread", "reread_failed", "drop", "destroy"} :
          ProvGoto(a, pc)
    BY <1>2
  <2>2. SoundGoroutine([prov[a] EXCEPT !.pc = pc])
    BY <1>0, <1>2 DEF SoundGoroutine, ProvRecord
  <2> QED BY <1>0, <2>1, <2>2, ProvGotoKeeps DEF ProvPlaces
<1>3. ASSUME prov[a].pc = "activate", ProvGoto(a, "commit") PROVE ProvOK'
  <2>1. SoundGoroutine([prov[a] EXCEPT !.pc = "commit"])
    BY <1>0, <1>3 DEF SoundGoroutine, ProvRecord
  <2> QED BY <1>0, <1>3, <2>1, ProvGotoKeeps DEF ProvPlaces
<1>4. ASSUME ProvLoad(a) \/ ProvLaunch(a) \/ ProvActivate(a) \/ ProvDestroyGuest(a)
               \/ ProvRelease(a)
      PROVE  LifeTypeOK'
  <2>1. UNCHANGED <<ws, asked, op>>
    BY <1>4 DEF ProvLoad, ProvLaunch, ProvActivate, ProvDestroyGuest, ProvRelease
  <2>2. ProvOK'
    BY <1>1, <1>2, <1>3, <1>4
       DEF ProvLoad, ProvLaunch, ProvActivate, ProvDestroyGuest, ProvRelease
  <2> QED BY <2>1, <2>2, ProvMoves
<1>5. ASSUME ProvReread(a) PROVE LifeTypeOK'
  <2> DEFINE w == prov[a].w
             g == [prov[a] EXCEPT !.row = ws[w], !.pc =
                     IF prov[a].pc = "reread" THEN "activate" ELSE "fail"]
  <2>1. prov[a].pc \in {"reread", "reread_failed"} /\ w \in Workspaces
    BY <1>0, <1>5 DEF ProvReread, SoundGoroutine
  <2>2. CASE ws[w] # NoWs /\ prov' = [prov EXCEPT ![a] = g]
    <3>1. ws[w] \in Row
      BY <2>1, <2>2 DEF LifeTypeOK
    <3>2. g \in ProvRecord /\ SoundGoroutine(g)
      BY <1>0, <2>1, <3>1 DEF ProvRecord, ProvPlaces, SoundGoroutine
    <3> HIDE DEF g
    <3>3. ProvOK'
      BY <1>0, <2>2, <3>2, ProvUpdated
    <3> QED BY <1>5, <3>3, ProvMoves DEF ProvReread
  <2>3. CASE ProvGoto(a, "drop")
    <3>1. ProvOK'
      BY <1>2, <2>1, <2>3
    <3> QED BY <1>5, <3>1, ProvMoves DEF ProvReread
  <2>4. ProvGoto(a, "drop") \/ (ws[w] # NoWs /\ prov' = [prov EXCEPT ![a] = g])
    BY <1>0, <1>5 DEF ProvReread, ProvOK
  <2> QED BY <2>2, <2>3, <2>4
<1>6. ASSUME ProvCommit(a) PROVE LifeTypeOK'
  <2>1. /\ prov[a].pc \in {"commit", "fail"} /\ prov[a].w \in Workspaces /\ prov[a].row \in Row
        /\ UNCHANGED <<asked, op>>
    BY <1>0, <1>6 DEF ProvCommit, SoundGoroutine
  <2>2. /\ WithStatus(prov[a].row, "running") \in Row
        /\ WithStatus(prov[a].row, "failed") \in Row
    BY <2>1, WithStatusIsRow DEF Statuses
  <2>3. ws' \in [Workspaces -> Row \cup {NoWs}]
    BY <1>6, <2>1, <2>2 DEF ProvCommit, UpdateWorkspaceIfStatus, LifeTypeOK
  <2>4. ProvOK'
    BY <1>1, <1>2, <1>6, <2>1 DEF ProvCommit
  <2> QED BY <2>1, <2>3, <2>4 DEF LifeTypeOK, OpOK
<1> QED BY <1>4, <1>5, <1>6 DEF Provision

\* What a ticker lists are rows.
LEMMA ListedRows ==
  ASSUME LifeTypeOK, NEW statuses
  PROVE  Listed(statuses) \subseteq Workspaces \X Row
BY DEF Listed, LifeTypeOK

\* A ticker that starts on a list of rows.
LEMMA StartsOnRows ==
  ASSUME LifeTypeOK, NEW p \in Procs, NEW T \in SUBSET (Workspaces \X Row),
         NEW kind \in {"idle", "health", "stuck"}, NEW pc \in {"next_row", "kill"},
         op' = [op EXCEPT ![p] = [Idle EXCEPT !.kind = kind, !.pc = pc, !.todo = T]]
  PROVE  OpOK'
<1> DEFINE o == [Idle EXCEPT !.kind = kind, !.pc = pc, !.todo = T]
<1>1. kind \in OpKinds /\ pc \in OpPlaces
  BY DEF OpKinds, Tickers, OpPlaces
<1>2. o \in OpRecord
  BY <1>1, IdleIsSound DEF OpRecord
<1>3. Sound(o)
  BY DEF Idle, Sound, Places, RowPlaces, ProjectDeletions
<1> HIDE DEF o
<1> QED BY <1>2, <1>3, OpUpdated DEF LifeTypeOK, o

\* A ticker goes on with fewer entries on its list, at the same place.
LEMMA ListShrinks ==
  ASSUME LifeTypeOK, NEW p \in Procs, NEW t, op' = [op EXCEPT ![p].todo = @ \ {t}]
  PROVE  OpOK'
<1> DEFINE o == [op[p] EXCEPT !.todo = @ \ {t}]
<1>0. op[p] \in OpRecord /\ Sound(op[p])
  BY DEF LifeTypeOK, OpOK
<1>1. o \in OpRecord
  BY <1>0 DEF OpRecord
<1>2. Sound(o)
  BY <1>0 DEF Sound, OpRecord, ProjectDeletions
<1>3. op' = [op EXCEPT ![p] = o]
  BY DEF LifeTypeOK, OpOK
<1> HIDE DEF o
<1> QED BY <1>1, <1>2, <1>3, OpUpdated DEF LifeTypeOK

\* A ticker takes a row from its list.
LEMMA TakesARow ==
  ASSUME LifeTypeOK, NEW p \in Procs, NEW t \in Workspaces \X Row, NEW row \in Row,
         op[p].kind \in {"idle", "health", "stuck"}, NEW pc \in {"write", "free"},
         pc = "write" => op[p].kind \in {"idle", "health"},
         op' = [op EXCEPT ![p].pc = pc, ![p].w = t[1], ![p].row = row, ![p].todo = @ \ {t}]
  PROVE  OpOK'
<1> DEFINE o == [op[p] EXCEPT !.pc = pc, !.w = t[1], !.row = row, !.todo = @ \ {t}]
<1>0. op[p] \in OpRecord /\ Sound(op[p])
  BY DEF LifeTypeOK, OpOK
<1>1. o \in OpRecord
  BY <1>0 DEF OpRecord, OpPlaces, Places, RowPlaces
<1>2. Sound(o)
  BY <1>0 DEF Sound, OpRecord, Writers, Places, RowPlaces, ProjectDeletions
<1>3. op' = [op EXCEPT ![p] = o]
  BY DEF LifeTypeOK, OpOK
<1> HIDE DEF o
<1> QED BY <1>1, <1>2, <1>3, OpUpdated DEF LifeTypeOK

\* The ticker that suspends what is idle.
LEMMA IdleTickType ==
  ASSUME LifeTypeOK, IdleList \/ IdleStopGuest
  PROVE  LifeTypeOK'
<1>0. "idle" \in Procs
  BY DEF Procs, Tickers
<1>1. ASSUME IdleList PROVE OpOK'
  <2>1. PICK S \in SUBSET Listed({"running", "fabric_degraded"}) :
          op' = [op EXCEPT !["idle"] = [Idle EXCEPT
                   !.kind = "idle", !.pc = "next_row", !.todo = S]]
    BY <1>1 DEF IdleList
  <2>2. S \in SUBSET (Workspaces \X Row)
    BY ListedRows
  <2> QED BY <1>0, <2>1, <2>2, StartsOnRows
<1>2. ASSUME IdleStopGuest PROVE OpOK'
  <2>1. PICK t \in op["idle"].todo :
          \/ Done("idle")
          \/ op' = [op EXCEPT !["idle"].todo = @ \ {t}]
          \/ op' = [op EXCEPT !["idle"].pc = "write", !["idle"].w = t[1],
                              !["idle"].row = t[2], !["idle"].todo = @ \ {t}]
    BY <1>2 DEF IdleStopGuest
  <2>2. op["idle"].kind = "idle" /\ t \in Workspaces \X Row /\ t[2] \in Row
    BY <1>0, <1>2 DEF IdleStopGuest, At, LifeTypeOK, OpOK, Sound, ProjectDeletions
  <2>3. Done("idle") => OpOK'
    BY <1>0, DoneKeepsOp DEF LifeTypeOK
  <2>4. op' = [op EXCEPT !["idle"].todo = @ \ {t}] => OpOK'
    BY <1>0, ListShrinks
  <2>5. op' = [op EXCEPT !["idle"].pc = "write", !["idle"].w = t[1],
                         !["idle"].row = t[2], !["idle"].todo = @ \ {t}] => OpOK'
    BY <1>0, <2>2, TakesARow
  <2> QED BY <2>1, <2>3, <2>4, <2>5
<1> QED BY <1>1, <1>2, OpMoves DEF IdleList, IdleStopGuest

\* The ticker that corrects the status of workspaces.
LEMMA HealthTickType ==
  ASSUME LifeTypeOK, HealthList \/ HealthCheck
  PROVE  LifeTypeOK'
<1>0. "health" \in Procs
  BY DEF Procs, Tickers
<1>1. ASSUME HealthList PROVE OpOK'
  <2> DEFINE rows == {t \in Listed(Statuses) : WorkspaceHealthActive(t[2].status)}
  <2>1. op' = [op EXCEPT !["health"] = [Idle EXCEPT
                 !.kind = "health", !.pc = "next_row", !.todo = rows]]
    BY <1>1 DEF HealthList
  <2>2. rows \in SUBSET (Workspaces \X Row)
    BY ListedRows
  <2> HIDE DEF rows
  <2> QED BY <1>0, <2>1, <2>2, StartsOnRows
<1>2. ASSUME HealthCheck PROVE OpOK'
  <2>1. PICK t \in op["health"].todo, status \in Statuses :
          \/ Done("health")
          \/ op' = [op EXCEPT !["health"].todo = @ \ {t}]
          \/ op' = [op EXCEPT !["health"].pc = "write", !["health"].w = t[1],
                              !["health"].row = WithStatus(t[2], status),
                              !["health"].todo = @ \ {t}]
    BY <1>2 DEF HealthCheck
  <2>2. op["health"].kind = "health" /\ t \in Workspaces \X Row
    BY <1>0, <1>2 DEF HealthCheck, At, LifeTypeOK, OpOK, Sound, ProjectDeletions
  <2>3. WithStatus(t[2], status) \in Row
    BY <2>2, WithStatusIsRow
  <2>4. Done("health") => OpOK'
    BY <1>0, DoneKeepsOp DEF LifeTypeOK
  <2>5. op' = [op EXCEPT !["health"].todo = @ \ {t}] => OpOK'
    BY <1>0, ListShrinks
  <2>6. op' = [op EXCEPT !["health"].pc = "write", !["health"].w = t[1],
                         !["health"].row = WithStatus(t[2], status),
                         !["health"].todo = @ \ {t}] => OpOK'
    BY <1>0, <2>2, <2>3, TakesARow
  <2> QED BY <2>1, <2>4, <2>5, <2>6
<1> QED BY <1>1, <1>2, OpMoves DEF HealthList, HealthCheck

\* Both tickers that look for stuck provisionings.
LEMMA StuckListType ==
  ASSUME LifeTypeOK, NEW p \in Procs, StuckListFrom(p)
  PROVE  OpOK'
<1> DEFINE old == {t \in Listed({"provisioning"}) : LaunchOver(t[1])}
<1>1. \/ Done(p)
      \/ op' = [op EXCEPT ![p] = [Idle EXCEPT !.kind = "stuck", !.pc = "kill", !.todo = old]]
  BY DEF StuckListFrom
<1>2. old \in SUBSET (Workspaces \X Row)
  BY ListedRows
<1> HIDE DEF old
<1>3. Done(p) => OpOK'
  BY DoneKeepsOp DEF LifeTypeOK
<1> QED BY <1>1, <1>2, <1>3, StartsOnRows

LEMMA StuckTickType ==
  ASSUME LifeTypeOK, NEW p \in Procs, StuckKill(p) \/ StuckFree(p) \/ StuckFail(p)
  PROVE  LifeTypeOK'
<1>0. /\ op[p] \in OpRecord /\ Sound(op[p]) /\ op[p].kind = "stuck" /\ UNCHANGED <<asked, prov>>
      /\ op[p].todo \subseteq Workspaces \X Row
  BY DEF LifeTypeOK, OpOK, StuckKill, StuckFree, StuckFail, At, Sound, ProjectDeletions
<1>1. ASSUME StuckKill(p) PROVE LifeTypeOK'
  <2>1. PICK t \in op[p].todo :
          op' = [op EXCEPT ![p].pc = "free", ![p].w = t[1], ![p].row = t[2],
                           ![p].todo = @ \ {t}]
    BY <1>1 DEF StuckKill
  <2>2. OpOK'
    BY <1>0, <2>1, TakesARow
  <2> QED BY <1>1, <2>2, OpMoves DEF StuckKill
<1>2. ASSUME StuckFree(p) PROVE LifeTypeOK'
  <2>1. Sound([op[p] EXCEPT !.pc = "fail"])
    BY <1>0, <1>2 DEF StuckFree, At, Sound, OpRecord, Places, RowPlaces, ProjectDeletions
  <2>2. OpOK'
    BY <1>2, <2>1, GotoKeepsOp DEF StuckFree, LifeTypeOK, OpPlaces, Places, RowPlaces
  <2> QED BY <1>2, <2>2, OpMoves DEF StuckFree
<1>3. ASSUME StuckFail(p) PROVE LifeTypeOK'
  <2>1. op[p].row \in Row /\ op[p].w \in Workspaces
    BY <1>0, <1>3 DEF StuckFail, At, Sound, Places, RowPlaces, ProjectDeletions
  <2>2. WithStatus(op[p].row, "failed") \in Row
    BY <2>1, WithStatusIsRow DEF Statuses
  <2>3. ws' \in [Workspaces -> Row \cup {NoWs}]
    BY <1>3, <2>1, <2>2 DEF StuckFail, UpdateWorkspaceIfStatus, LifeTypeOK
  <2>4. Sound([op[p] EXCEPT !.pc = "kill"])
    BY <1>0 DEF Sound, OpRecord, Places, RowPlaces, ProjectDeletions
  <2>5. Goto(p, "kill") => OpOK'
    BY <2>4, GotoKeepsOp DEF LifeTypeOK, OpPlaces
  <2>6. Done(p) => OpOK'
    BY DoneKeepsOp DEF LifeTypeOK
  <2>7. OpOK'
    BY <1>3, <2>5, <2>6 DEF StuckFail
  <2> QED BY <1>0, <2>3, <2>7 DEF LifeTypeOK, ProvOK
<1> QED BY <1>1, <1>2, <1>3

\* The ticker that releases what nobody needs.
LEMMA ReconcileTickType ==
  ASSUME LifeTypeOK, ReconcileListAllocs \/ ReconcileListWorkspaces \/ ReconcileRelease
  PROVE  LifeTypeOK'
<1> DEFINE r == op["reconcile"]
<1>0. "reconcile" \in Procs /\ r \in OpRecord /\ Sound(r)
  BY DEF Procs, Tickers, LifeTypeOK, OpOK
<1>1. ASSUME ReconcileListAllocs PROVE OpOK'
  <2> DEFINE L == {a \in AllocIds : IsLive(allocs[a])}
             o == [Idle EXCEPT !.kind = "reconcile", !.pc = "list_ws", !.todo = L]
  <2>1. L \subseteq AllocIds /\ op' = [op EXCEPT !["reconcile"] = o]
    BY <1>1 DEF ReconcileListAllocs
  <2> HIDE DEF L
  <2>2. o \in OpRecord
    BY <2>1, IdleIsSound DEF OpRecord, OpKinds, Tickers, OpPlaces
  <2>3. Sound(o)
    BY <2>1 DEF Idle, Sound, Places, RowPlaces, ProjectDeletions
  <2> HIDE DEF o
  <2> QED BY <1>0, <2>1, <2>2, <2>3, OpUpdated DEF LifeTypeOK
<1>2. ASSUME ReconcileListWorkspaces PROVE OpOK'
  <2> DEFINE L == {a \in r.todo : Unneeded(a)}
             o == [r EXCEPT !.pc = "sweep", !.todo = L]
  <2>1. r.kind = "reconcile" /\ r.todo \subseteq AllocIds /\ L \subseteq r.todo
    BY <1>0, <1>2 DEF ReconcileListWorkspaces, At, Sound, ProjectDeletions
  <2>2. op' = [op EXCEPT !["reconcile"] = o]
    BY <1>0, <1>2 DEF ReconcileListWorkspaces, LifeTypeOK, OpOK
  <2> HIDE DEF L
  <2>3. o \in OpRecord
    BY <1>0, <2>1 DEF OpRecord, OpPlaces
  <2>4. Sound(o)
    BY <1>0, <2>1 DEF Sound, OpRecord, Places, RowPlaces, ProjectDeletions
  <2> HIDE DEF o
  <2> QED BY <1>0, <2>2, <2>3, <2>4, OpUpdated DEF LifeTypeOK
<1>3. ASSUME ReconcileRelease PROVE OpOK'
  <2>1. CASE \E a \in r.todo : op' = [op EXCEPT !["reconcile"].todo = @ \ {a}]
    BY <1>0, <2>1, ListShrinks
  <2>2. CASE StuckListFrom("reconcile")
    BY <1>0, <2>2, StuckListType
  <2> QED BY <1>3, <2>1, <2>2 DEF ReconcileRelease
<1> QED
  BY <1>1, <1>2, <1>3, OpMoves DEF ReconcileListAllocs, ReconcileListWorkspaces, ReconcileRelease

LEMMA TickType ==
  ASSUME LifeTypeOK, NEW p \in Tickers, Tick(p)
  PROVE  LifeTypeOK'
<1>1. p \in Procs
  BY DEF Procs
<1>2. CASE StuckList
  <2>1. StuckListFrom("stuck") /\ "stuck" \in Procs
    BY <1>2 DEF StuckList, Procs, Tickers
  <2>2. OpOK'
    BY <2>1, StuckListType
  <2> QED BY <1>2, <2>2, OpMoves DEF StuckList
<1> QED
  BY <1>1, <1>2, IdleTickType, HealthTickType, WriteBackType, StuckTickType, ReconcileTickType
     DEF Tick

\* A call of the store that fails, and the few whose failure leaves a mark.
LEMMA CallFailsType ==
  ASSUME LifeTypeOK, NEW p \in Procs, CallFails(p)
  PROVE  LifeTypeOK'
<1>0. op[p] \in OpRecord /\ Sound(op[p]) /\ op[p].pc \in StorePlaces /\ AfterFailure(p)
  BY DEF LifeTypeOK, OpOK, CallFails
<1>1. ASSUME op[p].pc = "write", op[p].kind \in {"create", "approve"}, Goto(p, "giveback")
      PROVE  OpOK'
  <2>1. Sound([op[p] EXCEPT !.pc = "giveback"])
    BY <1>0, <1>1 DEF Sound, OpRecord, Places, RowPlaces, ProjectDeletions
  <2> QED BY <1>1, <2>1, GotoKeepsOp DEF LifeTypeOK, OpPlaces, Places
<1>2. ASSUME op[p].kind = "idle", Goto(p, "next_row")
      PROVE  OpOK'
  <2>1. Sound([op[p] EXCEPT !.pc = "next_row"])
    BY <1>0, <1>2 DEF Sound, OpRecord, Places, RowPlaces, ProjectDeletions
  <2> QED BY <1>2, <2>1, GotoKeepsOp DEF LifeTypeOK, OpPlaces
<1>3. ASSUME op[p].pc \in {"mark", "free"}, NEW pc \in {"destroy_guest", "fail"}, Goto(p, pc)
      PROVE  OpOK'
  <2>1. Sound([op[p] EXCEPT !.pc = pc])
    BY <1>0, <1>3 DEF Sound, OpRecord, Places, RowPlaces, ProjectDeletions
  <2> QED BY <1>3, <2>1, GotoKeepsOp DEF LifeTypeOK, OpPlaces, Places, RowPlaces
<1>4. ASSUME op[p].pc \in {"audit", "finish"}, NextOrDone(p)
      PROVE  OpOK'
  <2>1. op[p].row \in Row /\ op[p].w \in Workspaces
    BY <1>0, <1>4 DEF Sound, Places, RowPlaces
  <2> QED BY <1>4, <2>1, NextOrDoneKeepsOp DEF LifeTypeOK
<1>5. ASSUME NEW a, op' = [op EXCEPT ![p].todo = @ \ {a}]
      PROVE  OpOK'
  BY <1>5, ListShrinks
<1>6. Done(p) => OpOK'
  BY DoneKeepsOp DEF LifeTypeOK
<1>7. OpOK'
  BY <1>0, <1>1, <1>2, <1>3, <1>4, <1>5, <1>6 DEF AfterFailure
<1> QED BY <1>7, OpMoves DEF CallFails

LEMMA LookUpFailsType ==
  ASSUME LifeTypeOK, NEW h \in Handlers, LookUpFails(h)
  PROVE  LifeTypeOK'
<1>1. OpOK'
  BY DoneKeepsOp DEF LookUpFails, LifeTypeOK, Procs
<1> QED BY <1>1, OpMoves DEF LookUpFails

LEMMA RestoreBlindlyType ==
  ASSUME LifeTypeOK, NEW h \in Handlers, RestoreBlindly(h)
  PROVE  LifeTypeOK'
<1>0. h \in Procs
  BY DEF Procs
<1>1. op[h].row \in Row /\ op[h].w \in Workspaces
  BY <1>0 DEF RestoreBlindly, At, LifeTypeOK, OpOK, Sound, Places
<1>2. WithStatus(op[h].row, "running") \in Row
  BY <1>1, WithStatusIsRow DEF Statuses
<1>3. ws' \in [Workspaces -> Row \cup {NoWs}]
  BY <1>2 DEF RestoreBlindly, UpdateWorkspace, LifeTypeOK
<1>4. OpOK'
  BY <1>0, DoneKeepsOp DEF RestoreBlindly, LifeTypeOK
<1> QED BY <1>3, <1>4 DEF RestoreBlindly, LifeTypeOK, ProvOK

LEMMA HealthReadFailsType ==
  ASSUME LifeTypeOK, HealthReadFails
  PROVE  LifeTypeOK'
<1>0. "health" \in Procs
  BY DEF Procs, Tickers
<1>1. PICK t \in op["health"].todo :
        op' = [op EXCEPT !["health"].pc = "write", !["health"].w = t[1],
                         !["health"].row = WithStatus(t[2], "node_lost"),
                         !["health"].todo = @ \ {t}]
  BY DEF HealthReadFails
<1>2. op["health"].kind = "health" /\ t \in Workspaces \X Row
  BY <1>0 DEF HealthReadFails, At, LifeTypeOK, OpOK, Sound
<1>3. WithStatus(t[2], "node_lost") \in Row
  BY <1>2, WithStatusIsRow DEF Statuses
<1>4. OpOK'
  BY <1>0, <1>1, <1>2, <1>3, TakesARow
<1> QED BY <1>4, OpMoves DEF HealthReadFails

LEMMA ProvCallFailsType ==
  ASSUME LifeTypeOK, NEW a \in AllocIds, ProvCallFails(a)
  PROVE  LifeTypeOK'
<1>0. prov[a] \in ProvRecord /\ SoundGoroutine(prov[a]) /\ ProvOK
  BY DEF LifeTypeOK, ProvOK
<1>1. ASSUME prov[a].pc # "none", NEW pc \in {"release", "drop"}, ProvGoto(a, pc)
      PROVE  ProvOK'
  <2>1. SoundGoroutine([prov[a] EXCEPT !.pc = pc])
    BY <1>0, <1>1 DEF SoundGoroutine, ProvRecord
  <2> QED BY <1>0, <1>1, <2>1, ProvGotoKeeps DEF ProvPlaces
<1>2. ProvDone(a) => ProvOK'
  BY <1>0, ProvDoneKeeps
<1>3. ProvOK'
  BY <1>1, <1>2 DEF ProvCallFails
<1> QED BY <1>3, ProvMoves DEF ProvCallFails

LEMMA LifeTypeStep == LifeTypeOK /\ [LifeNext]_vars => LifeTypeOK'
<1> SUFFICES ASSUME LifeTypeOK, [LifeNext]_vars PROVE LifeTypeOK'
  OBVIOUS
<1>1. ASSUME Crash PROVE LifeTypeOK'
  <2>1. OpOK'
    BY <1>1, IdleIsSound DEF Crash, OpOK
  <2>2. NoGoroutine \in ProvRecord /\ SoundGoroutine(NoGoroutine)
    BY DEF NoGoroutine, ProvRecord, ProvPlaces, SoundGoroutine
  <2>3. ProvOK'
    BY <1>1, <2>2 DEF Crash, ProvOK
  <2> QED BY <1>1, <2>1, <2>3 DEF Crash, LifeTypeOK
<1>2. ASSUME UNCHANGED lifeVars PROVE LifeTypeOK'
  BY <1>2 DEF lifeVars, LifeTypeOK, OpOK, ProvOK
<1> QED
  BY <1>1, <1>2, BeginType, ContinueType, TickType, ProvisionType, CallFailsType,
     LookUpFailsType, RestoreBlindlyType, HealthReadFailsType, ProvCallFailsType
     DEF LifeNext, NodeReports, vars

\* The rows keep their shape, and whoever is at work holds what the place it is
\* at needs: no handler, ticker or goroutine acts on a row it has not read.
THEOREM LifeTypeCorrect == LifeSafety => []LifeTypeOK
<1>1. LifeInit => LifeTypeOK
  <2>1. NoGoroutine \in ProvRecord /\ SoundGoroutine(NoGoroutine)
    BY DEF NoGoroutine, ProvRecord, ProvPlaces, SoundGoroutine
  <2> QED BY <2>1, IdleIsSound DEF LifeInit, LifeTypeOK, OpOK, ProvOK
<1> QED BY <1>1, LifeTypeStep, PTL DEF LifeSafety

----------------------------------------------------------------------------
(* The ledger under the handlers, the goroutines and the tickers.          *)

\* A reservation of capacity that nobody refers to yet.
FreshReservation ==
  \E n \in Nodes, a \in FreshAllocs, p \in Projects, plan \in Plans : ReserveOnNode(n, a, p, plan)

LEMMA ReleaseIsStoreCall ==
  ASSUME NEW a \in Ref, ReleaseIfLive(a)
  PROVE  OtherCalls \/ UNCHANGED storeVars
BY DEF Ref, ReleaseIfLive, OtherCalls

LEMMA LifeStoreStep ==
  ASSUME LifeTypeOK, [LifeNext]_vars
  PROVE  FreshReservation \/ OtherCalls \/ UNCHANGED storeVars
<1>0. /\ \A p \in Procs : op[p] \in OpRecord /\ Sound(op[p])
      /\ \A row \in Row : row.alloc \in Ref
  BY DEF LifeTypeOK, OpOK, Row, Ref
<1>1. ASSUME NEW h \in Handlers, BeginRequest(h)
      PROVE  UNCHANGED storeVars
  BY <1>1 DEF BeginRequest, RequestWorkspace, CreateBegin, ApproveRead, ReadThenWrite,
              TouchRead, DestroyRead, DeleteProjectList
<1>2. ASSUME NEW h \in Handlers, ContinueRequest(h)
      PROVE  FreshReservation \/ OtherCalls \/ UNCHANGED storeVars
  <2>0. h \in Procs
    BY DEF Procs
  <2>1. CASE ReserveStep(h)
    <3>1. op[h].w \in Workspaces
      BY <1>0, <2>0, <2>1 DEF ReserveStep, Sound, Places, ProjectDeletions
    <3>2. ProjectOf[op[h].w] \in Projects /\ PlanOf[op[h].w] \in Plans
      BY <3>1, ActorTypes
    <3> QED BY <2>1, <3>2 DEF ReserveStep, FreshReservation
  <2>2. CASE GiveBack(h)
    <3>1. op[h].alloc \in Ref /\ ReleaseIfLive(op[h].alloc)
      BY <1>0, <2>0, <2>2 DEF GiveBack, OpRecord
    <3> QED BY <3>1, ReleaseIsStoreCall
  <2>3. CASE DestroyRelease(h)
    <3>1. op[h].row \in Row /\ ReleaseIfLive(op[h].row.alloc)
      BY <1>0, <2>0, <2>3 DEF DestroyRelease, Sound, RowPlaces, ProjectDeletions
    <3> QED BY <1>0, <3>1, ReleaseIsStoreCall
  <2>4. CASE DeleteProjectDrop(h)
    <3>1. op[h].project \in Projects
      BY <1>0, <2>0, <2>4 DEF DeleteProjectDrop, Sound, ProjectDeletions
    <3> QED BY <2>4, <3>1 DEF DeleteProjectDrop, OtherCalls
  <2>5. CASE \/ ProvisioningWrite(h) \/ StartGuest(h) \/ StopGuest(h) \/ WriteBack(h)
             \/ AuditDestroyRequest(h) \/ TouchReread(h) \/ DeleteProjectNext(h)
             \/ WipeProjectNext(h) \/ DestroyMark(h) \/ DestroyGuest(h) \/ DestroyFinish(h)
    BY <2>5 DEF ProvisioningWrite, StartGuest, StopGuest, SwitchGuest, WriteBack,
                AuditDestroyRequest, TouchReread, DeleteProjectNext, WipeProjectNext, DestroyMark,
                DestroyGuest, DestroyFinish
  <2> QED
    BY <1>2, <2>1, <2>2, <2>3, <2>4, <2>5 DEF ContinueRequest, CreateStep, DestroyStep
<1>3. ASSUME NEW p \in Tickers, Tick(p)
      PROVE  OtherCalls \/ UNCHANGED storeVars
  <2>0. p \in Procs /\ "reconcile" \in Procs
    BY DEF Procs, Tickers
  <2>1. CASE StuckFree(p)
    <3>1. op[p].row \in Row /\ ReleaseIfLive(op[p].row.alloc)
      BY <1>0, <2>0, <2>1 DEF StuckFree, At, Sound, RowPlaces, ProjectDeletions
    <3> QED BY <1>0, <3>1, ReleaseIsStoreCall
  <2>2. CASE ReconcileRelease
    <3>1. op["reconcile"].todo \subseteq AllocIds
      BY <1>0, <2>0, <2>2 DEF ReconcileRelease, At, Sound, ProjectDeletions
    <3>2. (\E a \in op["reconcile"].todo : ReleaseIfLive(a)) \/ UNCHANGED storeVars
      BY <2>2 DEF ReconcileRelease
    <3> QED BY <3>1, <3>2, ReleaseIsStoreCall DEF Ref
  <2>3. CASE \/ IdleList \/ IdleStopGuest \/ HealthList \/ HealthCheck \/ StuckList
             \/ ReconcileListAllocs \/ ReconcileListWorkspaces
             \/ StuckKill(p) \/ StuckFail(p) \/ WriteBack(p)
    BY <2>3 DEF IdleList, IdleStopGuest, HealthList, HealthCheck, StuckList, ReconcileListAllocs,
                ReconcileListWorkspaces, StuckKill, StuckFail, WriteBack
  <2> QED BY <1>3, <2>1, <2>2, <2>3 DEF Tick
<1>4. ASSUME NEW a \in AllocIds, Provision(a)
      PROVE  OtherCalls \/ UNCHANGED storeVars
  <2>1. CASE ProvActivate(a)
    BY <2>1 DEF ProvActivate, OtherCalls
  <2>2. CASE ProvRelease(a)
    BY <2>2, ReleaseIsStoreCall DEF ProvRelease, Ref
  <2>3. CASE ProvLoad(a) \/ ProvLaunch(a) \/ ProvReread(a) \/ ProvCommit(a) \/ ProvDestroyGuest(a)
    BY <2>3 DEF ProvLoad, ProvLaunch, ProvReread, ProvCommit, ProvDestroyGuest
  <2> QED BY <1>4, <2>1, <2>2, <2>3 DEF Provision
<1>5. NodeReports => OtherCalls
  BY DEF NodeReports, OtherCalls
<1>6. ASSUME \/ \E p \in Procs : CallFails(p)
             \/ \E h \in Handlers : RestoreBlindly(h)
             \/ HealthReadFails
             \/ \E a \in AllocIds : ProvCallFails(a)
             \/ Crash
      PROVE  UNCHANGED storeVars
  BY <1>6 DEF CallFails, RestoreBlindly, HealthReadFails, ProvCallFails, Crash
<1>7. ASSUME NEW h \in Handlers, LookUpFails(h)
      PROVE  FreshReservation
  <2>1. op[h].w \in Workspaces
    BY <1>0, <1>7 DEF LookUpFails, Sound, Places, Procs
  <2>2. ProjectOf[op[h].w] \in Projects /\ PlanOf[op[h].w] \in Plans
    BY <2>1, ActorTypes
  <2> QED BY <1>7, <2>2 DEF LookUpFails, FreshReservation
<1> QED BY <1>1, <1>2, <1>3, <1>4, <1>5, <1>6, <1>7 DEF LifeNext, vars

\* Handlers, goroutines and tickers use the ledger only through the calls the
\* store offers, with arguments it is made for, so what is proved of the store
\* holds of the whole.
LEMMA LifeCallsStore == LifeSafety => StoreSpec
<1>1. LifeInit => Init
  BY DEF LifeInit
<1>2. LifeTypeOK /\ [LifeNext]_vars => [StoreNext]_storeVars
  BY LifeStoreStep DEF FreshReservation, FreshAllocs, StoreNext
<1> QED BY <1>1, <1>2, LifeTypeCorrect, PTL DEF LifeSafety, StoreSpec

\* No life of a workspace oversells a node.
THEOREM LifeNeverOversells == LifeSafety => NoOversell
BY LifeCallsStore, NeverOversells, PTL

----------------------------------------------------------------------------
(* What a destroyed workspace had is free.                                 *)

\* What was known of the rows before a step, said of the ledger after it.
Carried ==
  /\ \A w \in Workspaces : FreedRow(allocs', ws[w])
  /\ \A p \in Procs : Freed(allocs', op[p])

RowsFreed == \A w \in Workspaces : FreedRow(allocs', ws'[w])

OpsFreed == \A p \in Procs : Freed(allocs', op'[p])

\* No call but a reservation binds capacity that was free.
LEMMA OtherCallsBindNothing ==
  ASSUME TypeOK, OtherCalls, NEW a \in AllocIds, IsLive(allocs'[a])
  PROVE  IsLive(allocs[a])
<1>1. ASSUME NEW b \in AllocIds, NEW d \in Deltas, ResizeWithinSize(b, d)
      PROVE  IsLive(allocs[a])
  BY <1>1 DEF ResizeWithinSize, ExpandAllocation, TypeOK
<1>2. ASSUME NEW b \in AllocIds, ActivateAllocation(b) \/ ReleaseAllocation(b)
      PROVE  IsLive(allocs[a])
  BY <1>2 DEF ActivateAllocation, ReleaseAllocation, TypeOK
<1>3. ASSUME NEW n \in Nodes, PurgeReleased(n) \/ DeleteNode(n)
      PROVE  IsLive(allocs[a])
  BY <1>3 DEF PurgeReleased, DeleteNode, IsLive
<1>4. ASSUME NEW p \in Projects, DeleteProject(p)
      PROVE  IsLive(allocs[a])
  BY <1>4 DEF DeleteProject, IsLive
<1>5. ASSUME NEW n \in Nodes, NEW cap \in Capacities, NEW up \in BOOLEAN,
             NEW charged \in Charges, UpsertNode(n, cap, up, charged)
      PROVE  IsLive(allocs[a])
  BY <1>5 DEF UpsertNode
<1> QED BY <1>1, <1>2, <1>3, <1>4, <1>5 DEF OtherCalls

\* Capacity that a row refers to and that is free stays free: a reservation takes
\* an identity no row names.
LEMMA GoneStays ==
  ASSUME TypeOK, LifeTypeOK, [LifeNext]_vars, NEW row \in Row, Gone(allocs, row.alloc),
         (\E w \in Workspaces : ws[w] = row) \/ (\E p \in Procs : op[p].row = row)
  PROVE  Gone(allocs', row.alloc)
<1>0. row.alloc \in Ref /\ row # NoWs
  BY NoWsIsNoRow DEF Row, Ref
<1>1. CASE row.alloc = NoAlloc
  BY <1>1 DEF Gone
<1>2. CASE row.alloc # NoAlloc /\ UNCHANGED storeVars
  BY <1>2 DEF Gone, storeVars
<1>3. CASE row.alloc # NoAlloc /\ OtherCalls
  BY <1>0, <1>3, OtherCallsBindNothing DEF Gone, Ref
<1>4. CASE row.alloc # NoAlloc /\ FreshReservation
  <2>1. PICK n \in Nodes, a \in FreshAllocs, p \in Projects, plan \in Plans :
          ReserveOnNode(n, a, p, plan)
    BY <1>4 DEF FreshReservation
  <2>2. row.alloc # a
    BY <1>0 DEF FreshAllocs, MentionsAlloc
  <2>3. allocs'[row.alloc] = allocs[row.alloc]
    BY <1>0, <1>4, <2>1, <2>2 DEF ReserveOnNode, TypeOK, Ref
  <2> QED BY <1>4, <2>3 DEF Gone
<1> QED BY <1>1, <1>2, <1>3, <1>4, LifeStoreStep

LEMMA CarriedStep ==
  ASSUME TypeOK, LifeTypeOK, FreedOK, [LifeNext]_vars
  PROVE  Carried
<1>1. ASSUME NEW w \in Workspaces PROVE FreedRow(allocs', ws[w])
  <2> SUFFICES ASSUME ws[w] # NoWs, ws[w].status = "destroyed" PROVE Gone(allocs', ws[w].alloc)
    BY DEF FreedRow
  <2>1. ws[w] \in Row /\ Gone(allocs, ws[w].alloc)
    BY DEF LifeTypeOK, FreedOK, FreedRow
  <2> QED BY <2>1, GoneStays
<1>2. ASSUME NEW p \in Procs PROVE Freed(allocs', op[p])
  <2>1. op[p] \in OpRecord /\ Sound(op[p]) /\ Freed(allocs, op[p])
    BY DEF LifeTypeOK, OpOK, FreedOK
  <2>2. ASSUME op[p].row \in Row, Gone(allocs, op[p].row.alloc)
        PROVE  Gone(allocs', op[p].row.alloc)
    BY <2>2, GoneStays
  <2>3. op[p].row = NoWs \/ op[p].row \in Row
    BY <2>1 DEF OpRecord
  <2>4. op[p].pc = "finish" => op[p].row \in Row
    BY <2>1 DEF Sound, RowPlaces, ProjectDeletions
  <2> QED BY <2>1, <2>2, <2>3, <2>4 DEF Freed, FreedRow
<1> QED BY <1>1, <1>2 DEF Carried

\* One request moves, the others keep what they hold.
LEMMA OneMoves ==
  ASSUME LifeTypeOK, Carried, NEW p \in Procs, NEW o, op' = [op EXCEPT ![p] = o],
         Freed(allocs', o)
  PROVE  OpsFreed
BY DEF LifeTypeOK, OpOK, Carried, OpsFreed

LEMMA NobodyMoves ==
  ASSUME Carried, UNCHANGED op
  PROVE  OpsFreed
BY DEF Carried, OpsFreed

LEMMA DoneFreed ==
  ASSUME LifeTypeOK, Carried, NEW p \in Procs, Done(p)
  PROVE  OpsFreed
<1>1. Freed(allocs', Idle)
  BY DEF Idle, Freed, FreedRow
<1> QED BY <1>1, OneMoves DEF Done

LEMMA GotoFreed ==
  ASSUME LifeTypeOK, Carried, NEW p \in Procs, NEW pc, Goto(p, pc),
         pc = "finish" => Gone(allocs', op[p].row.alloc)
  PROVE  OpsFreed
<1>1. Freed(allocs', op[p]) /\ op[p] \in OpRecord
  BY DEF Carried, LifeTypeOK, OpOK
<1>2. Freed(allocs', [op[p] EXCEPT !.pc = pc])
  BY <1>1 DEF Freed, OpRecord
<1> QED BY <1>2, OneMoves DEF Goto

\* The end of a request, or of one workspace's part in the deletion of a project.
LEMMA NextOrDoneFreed ==
  ASSUME LifeTypeOK, Carried, NEW p \in Procs, NextOrDone(p)
  PROVE  OpsFreed
<1>1. Goto(p, "next") => OpsFreed
  BY GotoFreed
<1> QED BY <1>1, DoneFreed DEF NextOrDone

\* A request that begins with a row it reads, not yet at its last write.
LEMMA ReadFreed ==
  ASSUME LifeTypeOK, Carried, NEW h \in Handlers, NEW w \in Workspaces,
         NEW kind, kind \notin {"idle", "health", "stuck"}, NEW pc, pc # "finish",
         op' = [op EXCEPT ![h] = [Idle EXCEPT !.kind = kind, !.pc = pc, !.w = w, !.row = ws[w]]]
  PROVE  OpsFreed
<1> DEFINE o == [Idle EXCEPT !.kind = kind, !.pc = pc, !.w = w, !.row = ws[w]]
<1>1. Freed(allocs', o)
  BY DEF Idle, Freed, Carried
<1> HIDE DEF o
<1> QED BY <1>1, OneMoves DEF o, Procs

LEMMA BeginFreed ==
  ASSUME LifeTypeOK, Carried, NEW h \in Handlers, BeginRequest(h)
  PROVE  OpsFreed /\ RowsFreed
<1>1. ASSUME NEW w \in Workspaces, RequestWorkspace(h, w)
      PROVE  OpsFreed /\ RowsFreed
  <2>1. OpsFreed
    BY <1>1, NobodyMoves DEF RequestWorkspace
  <2>2. RowsFreed
    BY <1>1 DEF RequestWorkspace, RowsFreed, FreedRow, Carried, LifeTypeOK
  <2> QED BY <2>1, <2>2
<1>2. ASSUME NEW w \in Workspaces,
             CreateBegin(h, w) \/ ApproveRead(h, w) \/ ReadThenWrite(h, w) \/ DestroyRead(h, w)
      PROVE  OpsFreed
  <2>1. PICK kind \in Kinds, pc \in {"reserve", "write", "start_guest", "stop_guest", "mark"} :
          Begin(h, kind, pc, w)
    BY <1>2 DEF CreateBegin, ApproveRead, ReadThenWrite, DestroyRead, ReadsExisting,
                FirstStepOfDestroyRequest, Kinds
  <2>2. kind \notin {"idle", "health", "stuck"} /\ pc # "finish"
    BY DEF Kinds
  <2> QED BY <2>1, <2>2, ReadFreed DEF Begin
<1>3. ASSUME NEW w \in Workspaces, TouchRead(h, w)
      PROVE  OpsFreed
  <2>1. CASE ws[w].status = "suspended"
    BY <1>3, <2>1, ReadFreed DEF TouchRead
  <2>2. CASE ws[w].status # "suspended"
    BY <1>3, <2>2, ReadFreed DEF TouchRead
  <2> QED BY <2>1, <2>2
<1>4. ASSUME NEW p \in Projects, DeleteProjectList(h, p)
      PROVE  OpsFreed
  <2>0. PICK kind \in ProjectDeletions : \E T :
          op' = [op EXCEPT ![h] = [Idle EXCEPT !.kind = kind, !.pc = "next", !.todo = T,
                                               !.project = p]]
    BY <1>4 DEF DeleteProjectList
  <2>1. PICK T :
          op' = [op EXCEPT ![h] = [Idle EXCEPT !.kind = kind, !.pc = "next", !.todo = T,
                                               !.project = p]]
    BY <2>0
  <2> DEFINE o == [Idle EXCEPT !.kind = kind, !.pc = "next", !.todo = T, !.project = p]
  <2>2. Freed(allocs', o)
    BY DEF Idle, Freed, FreedRow, ProjectDeletions
  <2> HIDE DEF o
  <2> QED BY <2>1, <2>2, OneMoves DEF o, Procs
<1>5. UNCHANGED ws => RowsFreed
  BY DEF RowsFreed, Carried
<1>6. (\E w \in Workspaces : RequestWorkspace(h, w)) \/ UNCHANGED ws
  BY DEF BeginRequest, CreateBegin, ApproveRead, ReadThenWrite, TouchRead, DestroyRead,
         DeleteProjectList
<1> QED BY <1>1, <1>2, <1>3, <1>4, <1>5, <1>6 DEF BeginRequest

\* A request that writes back what it has read says "destroyed" only if that did.
LEMMA NewStatusDestroyed ==
  ASSUME LifeTypeOK, NEW p \in Procs, op[p].pc = "write", op[p].kind \notin {"create", "approve"},
         NewStatus(p) = "destroyed"
  PROVE  op[p].row.status = "destroyed"
<1>1. op[p].kind \in Writers
  BY DEF LifeTypeOK, OpOK, Sound, ProjectDeletions
<1>2. \A from : RestoreStatusAfterDestroyReject(from) # "destroyed"
  BY DEF RestoreStatusAfterDestroyReject, WorkspaceHealthActive
<1> QED BY <1>1, <1>2 DEF NewStatus, Writers

LEMMA WriteBackFreed ==
  ASSUME LifeTypeOK, Carried, NEW p \in Procs, WriteBack(p)
  PROVE  OpsFreed /\ RowsFreed
<1>1. /\ op[p].pc = "write" /\ op[p].kind \notin {"create", "approve"}
      /\ op[p].row \in Row /\ op[p].w \in Workspaces /\ op[p].kind \in Writers
  BY NewStatusIsStatus DEF WriteBack, LifeTypeOK, OpOK, Sound, ProjectDeletions
<1>2. ASSUME AfterWrite(p) \/ Done(p) \/ Goto(p, "next_row") PROVE OpsFreed
  <2>1. CASE op' = [op EXCEPT ![p].kind = "touch", ![p].pc = "reread"]
    <3> DEFINE o == [op[p] EXCEPT !.kind = "touch", !.pc = "reread"]
    <3>1. op' = [op EXCEPT ![p] = o]
      BY <2>1 DEF LifeTypeOK, OpOK
    <3>2. Freed(allocs', o)
      BY DEF Carried, Freed, LifeTypeOK, OpOK, OpRecord
    <3> HIDE DEF o
    <3> QED BY <3>1, <3>2, OneMoves
  <2>2. CASE Goto(p, "audit") \/ Goto(p, "next_row") \/ Done(p)
    BY <2>2, GotoFreed, DoneFreed
  <2> QED BY <1>1, <1>2, <2>1, <2>2 DEF AfterWrite, Writers
<1>3. OpsFreed
  BY <1>2 DEF WriteBack
<1>4. CASE UNCHANGED ws
  BY <1>3, <1>4 DEF RowsFreed, Carried
<1>5. CASE UpdateWorkspace(op[p].w, WithStatus(op[p].row, NewStatus(p)))
  <2> DEFINE new == WithStatus(op[p].row, NewStatus(p))
  <2>1. new.status = NewStatus(p) /\ new.alloc = op[p].row.alloc
    BY <1>1, NewStatusIsStatus, WithStatusIsRow
  <2>2. FreedRow(allocs', new)
    <3> SUFFICES ASSUME NewStatus(p) = "destroyed" PROVE Gone(allocs', op[p].row.alloc)
      BY <2>1 DEF FreedRow
    <3>1. op[p].row.status = "destroyed" /\ op[p].row # NoWs
      BY <1>1, NewStatusDestroyed, NoWsIsNoRow
    <3> QED BY <3>1 DEF Carried, Freed, FreedRow
  <2> HIDE DEF new
  <2>3. ws' = [ws EXCEPT ![op[p].w] = new]
    BY <1>5 DEF UpdateWorkspace, new
  <2> QED BY <1>3, <2>2, <2>3 DEF RowsFreed, Carried, LifeTypeOK
<1> QED BY <1>4, <1>5 DEF WriteBack

\* Of executeDestroy, the release is what makes its last write true.
LEMMA DestroyFreed ==
  ASSUME TypeOK, LifeTypeOK, Carried, NEW h \in Handlers, DestroyStep(h)
  PROVE  OpsFreed /\ RowsFreed
<1>0. h \in Procs /\ op[h].row \in Row /\ op[h].w \in Workspaces
  BY DEF Procs, LifeTypeOK, OpOK, Sound, Places, RowPlaces, DestroyStep, DestroyMark,
         DestroyGuest, DestroyRelease, DestroyFinish
<1>1. CASE DestroyRelease(h)
  <2>1. op[h].row.alloc \in Ref
    BY <1>0 DEF Row, Ref
  <2>2. Gone(allocs', op[h].row.alloc)
    <3>1. CASE op[h].row.alloc # NoAlloc /\ IsLive(allocs[op[h].row.alloc])
      <4>1. op[h].row.alloc \in AllocIds /\ ReleaseAllocation(op[h].row.alloc)
        BY <1>1, <2>1, <3>1 DEF DestroyRelease, ReleaseIfLive, Ref
      <4>2. allocs[op[h].row.alloc] \in Allocation
        BY <4>1 DEF ReleaseAllocation, IsLive, TypeOK
      <4>3. allocs'[op[h].row.alloc].state = "released"
        BY <4>1, <4>2 DEF ReleaseAllocation, TypeOK, Allocation
      <4> QED BY <4>3 DEF Gone, IsLive
    <3>2. CASE ~(op[h].row.alloc # NoAlloc /\ IsLive(allocs[op[h].row.alloc]))
      BY <1>1, <3>2 DEF DestroyRelease, ReleaseIfLive, storeVars, Gone
    <3> QED BY <3>1, <3>2
  <2>3. OpsFreed
    BY <1>0, <1>1, <2>2, GotoFreed DEF DestroyRelease
  <2> QED BY <1>1, <2>3 DEF DestroyRelease, RowsFreed, Carried
<1>2. CASE DestroyFinish(h)
  <2>1. OpsFreed
    BY <1>0, <1>2, NextOrDoneFreed DEF DestroyFinish
  <2> DEFINE new == WithStatus(op[h].row, "destroyed")
  <2>2. FreedRow(allocs', new)
    <3>1. Gone(allocs', op[h].row.alloc) /\ new.alloc = op[h].row.alloc
      BY <1>0, <1>2, WithStatusIsRow DEF DestroyFinish, Carried, Freed, Statuses
    <3> QED BY <3>1 DEF FreedRow
  <2> HIDE DEF new
  <2>3. ws' = ws \/ ws' = [ws EXCEPT ![op[h].w] = new]
    BY <1>2 DEF DestroyFinish, WriteIfPresent, UpdateWorkspace, new
  <2> QED BY <2>1, <2>2, <2>3 DEF RowsFreed, Carried, LifeTypeOK
<1>3. CASE DestroyMark(h)
  <2>1. OpsFreed
    BY <1>0, <1>3, GotoFreed DEF DestroyMark
  <2> DEFINE new == WithStatus(op[h].row, "destroying")
  <2>2. FreedRow(allocs', new)
    BY <1>0, WithStatusIsRow DEF FreedRow, Statuses
  <2> HIDE DEF new
  <2>3. ws' = ws \/ ws' = [ws EXCEPT ![op[h].w] = new]
    BY <1>3 DEF DestroyMark, WriteIfPresent, UpdateWorkspace, new
  <2> QED BY <2>1, <2>2, <2>3 DEF RowsFreed, Carried, LifeTypeOK
<1>4. CASE DestroyGuest(h)
  <2>1. OpsFreed
    BY <1>0, <1>4, GotoFreed DEF DestroyGuest
  <2> QED BY <1>4, <2>1 DEF DestroyGuest, RowsFreed, Carried
<1> QED BY <1>1, <1>2, <1>3, <1>4 DEF DestroyStep

LEMMA ContinueFreed ==
  ASSUME TypeOK, LifeTypeOK, Carried, NEW h \in Handlers, ContinueRequest(h)
  PROVE  OpsFreed /\ RowsFreed
<1>0. h \in Procs /\ op[h] \in OpRecord /\ Sound(op[h]) /\ Freed(allocs', op[h])
  BY DEF Procs, LifeTypeOK, OpOK, Carried
<1>1. UNCHANGED ws => RowsFreed
  BY DEF RowsFreed, Carried
<1>2. CASE ReserveStep(h)
  <2>1. ASSUME NEW a, op' = [op EXCEPT ![h].pc = "write", ![h].alloc = a]
        PROVE  OpsFreed
    <3> DEFINE o == [op[h] EXCEPT !.pc = "write", !.alloc = a]
    <3>1. Freed(allocs', o)
      BY <1>0 DEF Freed, OpRecord
    <3>2. op' = [op EXCEPT ![h] = o]
      BY <2>1 DEF LifeTypeOK, OpOK
    <3> HIDE DEF o
    <3> QED BY <1>0, <3>1, <3>2, OneMoves
  <2>2. Done(h) => OpsFreed
    BY <1>0, DoneFreed
  <2> QED BY <1>1, <1>2, <2>1, <2>2 DEF ReserveStep
<1>3. CASE ProvisioningWrite(h)
  <2>1. OpsFreed
    BY <1>0, <1>3, DoneFreed, GotoFreed DEF ProvisioningWrite
  <2> DEFINE new == [status |-> "provisioning", alloc |-> op[h].alloc]
  <2>2. FreedRow(allocs', new)
    BY DEF FreedRow
  <2> HIDE DEF new
  <2>3. ws' = ws \/ ws' = [ws EXCEPT ![op[h].w] = new]
    BY <1>3 DEF ProvisioningWrite, new
  <2> QED BY <2>1, <2>2, <2>3 DEF RowsFreed, Carried, LifeTypeOK
<1>4. CASE GiveBack(h) \/ StartGuest(h) \/ StopGuest(h) \/ AuditDestroyRequest(h)
  <2>1. Done(h) \/ Goto(h, "write") \/ NextOrDone(h)
    BY <1>4 DEF GiveBack, StartGuest, StopGuest, SwitchGuest, AuditDestroyRequest
  <2>2. OpsFreed
    BY <1>0, <2>1, DoneFreed, GotoFreed, NextOrDoneFreed
  <2> QED BY <1>1, <1>4, <2>2 DEF GiveBack, StartGuest, StopGuest, SwitchGuest, AuditDestroyRequest
<1>5. CASE TouchReread(h)
  <2> DEFINE o == [op[h] EXCEPT !.pc = "write", !.row = ws[op[h].w]]
  <2>1. op[h].w \in Workspaces /\ op[h].kind = "touch"
    BY <1>0, <1>5 DEF TouchReread, At, Sound, Places, ProjectDeletions
  <2>2. Done(h) \/ op' = [op EXCEPT ![h] = o]
    BY <1>5 DEF TouchReread, LifeTypeOK, OpOK
  <2>3. Freed(allocs', o)
    BY <1>0, <2>1 DEF Carried, Freed, OpRecord
  <2> HIDE DEF o
  <2>4. OpsFreed
    BY <1>0, <2>2, <2>3, DoneFreed, OneMoves
  <2> QED BY <1>1, <1>5, <2>4 DEF TouchReread
<1>6. CASE DeleteProjectNext(h) \/ WipeProjectNext(h)
  <2>1. op[h].kind \in ProjectDeletions /\ op[h].todo \subseteq Workspaces
    BY <1>0, <1>6 DEF DeleteProjectNext, WipeProjectNext, At, Sound, ProjectDeletions
  <2>2. ASSUME NEW w \in Workspaces, NEW pc \in {"start_guest", "write", "mark"},
               op' = [op EXCEPT ![h].w = w, ![h].row = ws[w], ![h].todo = @ \ {w}, ![h].pc = pc]
        PROVE  OpsFreed
    <3> DEFINE o == [op[h] EXCEPT !.w = w, !.row = ws[w], !.todo = @ \ {w}, !.pc = pc]
    <3>1. op' = [op EXCEPT ![h] = o]
      BY <2>2 DEF LifeTypeOK, OpOK
    <3>2. Freed(allocs', o)
      BY <1>0, <2>1 DEF Carried, Freed, OpRecord, ProjectDeletions
    <3> HIDE DEF o
    <3> QED BY <1>0, <3>1, <3>2, OneMoves
  <2>3. OpsFreed
    BY <1>0, <1>6, <2>1, <2>2, DoneFreed
       DEF DeleteProjectNext, WipeProjectNext, FirstStepOfDestroyRequest
  <2> QED BY <1>1, <1>6, <2>3 DEF DeleteProjectNext, WipeProjectNext
<1>7. CASE DeleteProjectDrop(h)
  <2>1. OpsFreed
    BY <1>0, <1>7, DoneFreed DEF DeleteProjectDrop
  <2>2. \A w \in Workspaces : ws'[w] = NoWs \/ ws'[w] = ws[w]
    BY <1>7 DEF DeleteProjectDrop
  <2> QED BY <2>1, <2>2 DEF RowsFreed, FreedRow, Carried
<1> QED
  BY <1>0, <1>2, <1>3, <1>4, <1>5, <1>6, <1>7, WriteBackFreed, DestroyFreed
     DEF ContinueRequest, CreateStep

\* What a ticker lists, it lists because it is not destroyed.
LEMMA ListedFreed ==
  ASSUME LifeTypeOK, Carried, NEW p \in Procs, NEW kind, NEW pc, pc # "finish",
         NEW T, \A t \in T : t[2].status # "destroyed",
         op' = [op EXCEPT ![p] = [Idle EXCEPT !.kind = kind, !.pc = pc, !.todo = T]]
  PROVE  OpsFreed
<1> DEFINE o == [Idle EXCEPT !.kind = kind, !.pc = pc, !.todo = T]
<1>1. Freed(allocs', o)
  BY DEF Idle, Freed, FreedRow
<1> HIDE DEF o
<1> QED BY <1>1, OneMoves DEF o

LEMMA ShrinkFreed ==
  ASSUME LifeTypeOK, Carried, NEW p \in Procs, NEW t, op' = [op EXCEPT ![p].todo = @ \ {t}]
  PROVE  OpsFreed
<1> DEFINE o == [op[p] EXCEPT !.todo = @ \ {t}]
<1>1. op' = [op EXCEPT ![p] = o]
  BY DEF LifeTypeOK, OpOK
<1>2. Freed(allocs', o)
  BY DEF LifeTypeOK, OpOK, OpRecord, Carried, Freed
<1> HIDE DEF o
<1> QED BY <1>1, <1>2, OneMoves

\* The row a ticker takes from its list does not say "destroyed".
LEMMA TakeFreed ==
  ASSUME LifeTypeOK, Carried, NEW p \in Procs, NEW t, NEW row, row.status # "destroyed",
         NEW pc, pc # "finish",
         op' = [op EXCEPT ![p].pc = pc, ![p].w = t[1], ![p].row = row, ![p].todo = @ \ {t}]
  PROVE  OpsFreed
<1> DEFINE o == [op[p] EXCEPT !.pc = pc, !.w = t[1], !.row = row, !.todo = @ \ {t}]
<1>1. op' = [op EXCEPT ![p] = o]
  BY DEF LifeTypeOK, OpOK
<1>2. Freed(allocs', o)
  BY DEF LifeTypeOK, OpOK, OpRecord, Carried, Freed, FreedRow
<1> HIDE DEF o
<1> QED BY <1>1, <1>2, OneMoves

LEMMA IdleHealthFreed ==
  ASSUME LifeTypeOK, Carried, IdleList \/ IdleStopGuest \/ HealthList \/ HealthCheck
  PROVE  OpsFreed
<1>0. "idle" \in Procs /\ "health" \in Procs
  BY DEF Procs, Tickers
<1>1. CASE IdleList
  <2>1. PICK S \in SUBSET Listed({"running", "fabric_degraded"}) :
          op' = [op EXCEPT !["idle"] = [Idle EXCEPT
                   !.kind = "idle", !.pc = "next_row", !.todo = S]]
    BY <1>1 DEF IdleList
  <2>2. \A t \in S : t[2].status # "destroyed"
    BY DEF Listed
  <2> QED BY <1>0, <2>1, <2>2, ListedFreed
<1>2. CASE IdleStopGuest
  <2>1. PICK t \in op["idle"].todo :
          \/ Done("idle")
          \/ op' = [op EXCEPT !["idle"].todo = @ \ {t}]
          \/ op' = [op EXCEPT !["idle"].pc = "write", !["idle"].w = t[1],
                              !["idle"].row = t[2], !["idle"].todo = @ \ {t}]
    BY <1>2 DEF IdleStopGuest
  <2>2. t[2].status # "destroyed"
    BY <1>0, <1>2 DEF IdleStopGuest, At, Carried, Freed
  <2>3. Done("idle") \/ op' = [op EXCEPT !["idle"].todo = @ \ {t}] => OpsFreed
    BY <1>0, DoneFreed, ShrinkFreed
  <2>4. op' = [op EXCEPT !["idle"].pc = "write", !["idle"].w = t[1],
                         !["idle"].row = t[2], !["idle"].todo = @ \ {t}] => OpsFreed
    BY <1>0, <2>2, TakeFreed
  <2> QED BY <2>1, <2>3, <2>4
<1>3. CASE HealthList
  <2> DEFINE rows == {t \in Listed(Statuses) : WorkspaceHealthActive(t[2].status)}
  <2>1. op' = [op EXCEPT !["health"] = [Idle EXCEPT
                 !.kind = "health", !.pc = "next_row", !.todo = rows]]
    BY <1>3 DEF HealthList
  <2>2. \A t \in rows : t[2].status # "destroyed"
    BY DEF WorkspaceHealthActive
  <2> HIDE DEF rows
  <2> QED BY <1>0, <2>1, <2>2, ListedFreed
<1>4. CASE HealthCheck
  <2>1. PICK t \in op["health"].todo, status \in Statuses :
          /\ status \in HealthStatuses(t[1], t[2])
          /\ \/ Done("health")
             \/ op' = [op EXCEPT !["health"].todo = @ \ {t}]
             \/ op' = [op EXCEPT !["health"].pc = "write", !["health"].w = t[1],
                                 !["health"].row = WithStatus(t[2], status),
                                 !["health"].todo = @ \ {t}]
    BY <1>4 DEF HealthCheck
  <2>2. t[2].status # "destroyed" /\ t[2] \in Row
    BY <1>0, <1>4 DEF HealthCheck, At, Carried, Freed, LifeTypeOK, OpOK, Sound, ProjectDeletions
  <2>3. status # "destroyed"
    BY <2>1, <2>2 DEF HealthStatuses
  <2>4. WithStatus(t[2], status).status # "destroyed"
    BY <2>2, <2>3, WithStatusIsRow
  <2>5. Done("health") \/ op' = [op EXCEPT !["health"].todo = @ \ {t}] => OpsFreed
    BY <1>0, DoneFreed, ShrinkFreed
  <2>6. op' = [op EXCEPT !["health"].pc = "write", !["health"].w = t[1],
                         !["health"].row = WithStatus(t[2], status),
                         !["health"].todo = @ \ {t}] => OpsFreed
    BY <1>0, <2>4, TakeFreed
  <2> QED BY <2>1, <2>5, <2>6
<1> QED BY <1>1, <1>2, <1>3, <1>4

LEMMA StuckListFreed ==
  ASSUME LifeTypeOK, Carried, NEW p \in Procs, StuckListFrom(p)
  PROVE  OpsFreed
<1> DEFINE old == {t \in Listed({"provisioning"}) : LaunchOver(t[1])}
<1>1. \/ Done(p)
      \/ op' = [op EXCEPT ![p] = [Idle EXCEPT !.kind = "stuck", !.pc = "kill", !.todo = old]]
  BY DEF StuckListFrom
<1>2. \A t \in old : t[2].status # "destroyed"
  BY DEF Listed
<1> HIDE DEF old
<1> QED BY <1>1, <1>2, DoneFreed, ListedFreed

LEMMA ReconcileFreed ==
  ASSUME LifeTypeOK, Carried, ReconcileListAllocs \/ ReconcileListWorkspaces \/ ReconcileRelease
  PROVE  OpsFreed
<1> DEFINE r == op["reconcile"]
<1>0. "reconcile" \in Procs /\ r \in OpRecord /\ Freed(allocs', r)
  BY DEF Procs, Tickers, LifeTypeOK, OpOK, Carried
<1>1. ASSUME NEW o, o.row = NoWs \/ o.row = r.row, o.kind = "reconcile", o.pc # "finish",
             op' = [op EXCEPT !["reconcile"] = o]
      PROVE  OpsFreed
  <2>1. Freed(allocs', o)
    BY <1>0, <1>1 DEF Freed, FreedRow
  <2> QED BY <1>0, <1>1, <2>1, OneMoves
<1>2. CASE ReconcileListAllocs
  <2> DEFINE o == [Idle EXCEPT !.kind = "reconcile", !.pc = "list_ws",
                               !.todo = {a \in AllocIds : IsLive(allocs[a])}]
  <2>1. o.row = NoWs /\ o.kind = "reconcile" /\ o.pc # "finish"
    BY DEF Idle
  <2>2. op' = [op EXCEPT !["reconcile"] = o]
    BY <1>2 DEF ReconcileListAllocs
  <2> HIDE DEF o
  <2> QED BY <1>1, <2>1, <2>2
<1>3. CASE ReconcileListWorkspaces
  <2> DEFINE o == [r EXCEPT !.pc = "sweep", !.todo = {a \in @ : Unneeded(a)}]
  <2>1. o.row = r.row /\ o.kind = "reconcile" /\ o.pc # "finish"
    BY <1>0, <1>3 DEF ReconcileListWorkspaces, At, OpRecord
  <2>2. op' = [op EXCEPT !["reconcile"] = o]
    BY <1>0, <1>3 DEF ReconcileListWorkspaces, LifeTypeOK, OpOK
  <2> HIDE DEF o
  <2> QED BY <1>1, <2>1, <2>2
<1>4. CASE ReconcileRelease
  <2>1. \/ \E a \in r.todo : op' = [op EXCEPT !["reconcile"].todo = @ \ {a}]
        \/ StuckListFrom("reconcile")
    BY <1>4 DEF ReconcileRelease
  <2> QED BY <1>0, <2>1, ShrinkFreed, StuckListFreed
<1> QED BY <1>2, <1>3, <1>4

LEMMA TickFreed ==
  ASSUME LifeTypeOK, Carried, NEW p \in Tickers, Tick(p)
  PROVE  OpsFreed /\ RowsFreed
<1>0. p \in Procs /\ "stuck" \in Procs
  BY DEF Procs, Tickers
<1>1. UNCHANGED ws => RowsFreed
  BY DEF RowsFreed, Carried
<1>2. CASE IdleList \/ IdleStopGuest \/ HealthList \/ HealthCheck
  BY <1>1, <1>2, IdleHealthFreed DEF IdleList, IdleStopGuest, HealthList, HealthCheck
<1>3. CASE StuckList
  BY <1>0, <1>1, <1>3, StuckListFreed DEF StuckList
<1>4. CASE ReconcileListAllocs \/ ReconcileListWorkspaces \/ ReconcileRelease
  BY <1>1, <1>4, ReconcileFreed DEF ReconcileListAllocs, ReconcileListWorkspaces, ReconcileRelease
<1>5. CASE StuckKill(p)
  <2>1. PICK t \in op[p].todo :
          op' = [op EXCEPT ![p].pc = "free", ![p].w = t[1], ![p].row = t[2],
                           ![p].todo = @ \ {t}]
    BY <1>5 DEF StuckKill
  <2>2. t[2].status # "destroyed"
    BY <1>0, <1>5 DEF StuckKill, At, Carried, Freed
  <2>3. OpsFreed
    BY <1>0, <2>1, <2>2, TakeFreed
  <2> QED BY <1>1, <1>5, <2>3 DEF StuckKill
<1>6. CASE StuckFree(p)
  <2>1. OpsFreed
    BY <1>0, <1>6, GotoFreed DEF StuckFree
  <2> QED BY <1>1, <1>6, <2>1 DEF StuckFree
<1>7. CASE StuckFail(p)
  <2>1. OpsFreed
    BY <1>0, <1>7, DoneFreed, GotoFreed DEF StuckFail
  <2>2. op[p].row \in Row
    BY <1>0, <1>7 DEF StuckFail, At, LifeTypeOK, OpOK, Sound, RowPlaces, ProjectDeletions
  <2> DEFINE new == WithStatus(op[p].row, "failed")
  <2>3. FreedRow(allocs', new)
    BY <2>2, WithStatusIsRow DEF FreedRow, Statuses
  <2> HIDE DEF new
  <2>4. ws' = ws \/ ws' = [ws EXCEPT ![op[p].w] = new]
    BY <1>7 DEF StuckFail, UpdateWorkspaceIfStatus, new
  <2> QED BY <2>1, <2>3, <2>4 DEF RowsFreed, Carried, LifeTypeOK
<1> QED
  BY <1>0, <1>2, <1>3, <1>4, <1>5, <1>6, <1>7, WriteBackFreed DEF Tick

\* The goroutine writes "running" or "failed", never "destroyed".
LEMMA ProvisionFreed ==
  ASSUME LifeTypeOK, Carried, NEW a \in AllocIds, Provision(a)
  PROVE  OpsFreed /\ RowsFreed
<1>1. OpsFreed
  BY NobodyMoves DEF Provision, ProvLoad, ProvLaunch, ProvReread, ProvActivate, ProvCommit,
                     ProvDestroyGuest, ProvRelease
<1>2. CASE ProvCommit(a)
  <2>1. prov[a].row \in Row
    BY <1>2 DEF ProvCommit, LifeTypeOK, ProvOK, SoundGoroutine
  <2>2. PICK status \in {"running", "failed"} :
          ws' = ws \/ ws' = [ws EXCEPT ![prov[a].w] = WithStatus(prov[a].row, status)]
    BY <1>2 DEF ProvCommit, UpdateWorkspaceIfStatus
  <2>3. FreedRow(allocs', WithStatus(prov[a].row, status))
    BY <2>1, WithStatusIsRow DEF FreedRow, Statuses
  <2> QED BY <1>1, <2>2, <2>3 DEF RowsFreed, Carried, LifeTypeOK
<1>3. CASE UNCHANGED ws
  BY <1>1, <1>3 DEF RowsFreed, Carried
<1> QED
  BY <1>2, <1>3 DEF Provision, ProvLoad, ProvLaunch, ProvReread, ProvActivate, ProvDestroyGuest,
                    ProvRelease

\* A failed call writes no row, but for two: a rejection that restores "running",
\* and the health ticker's "node_lost".
LEMMA FailureFreed ==
  ASSUME LifeTypeOK, Carried,
         \/ \E p \in Procs : CallFails(p)
         \/ \E h \in Handlers : LookUpFails(h) \/ RestoreBlindly(h)
         \/ HealthReadFails
         \/ \E a \in AllocIds : ProvCallFails(a)
  PROVE  OpsFreed /\ RowsFreed
<1>1. UNCHANGED ws => RowsFreed
  BY DEF RowsFreed, Carried
<1>2. ASSUME NEW p \in Procs, CallFails(p)
      PROVE  OpsFreed
  BY <1>2, DoneFreed, GotoFreed, NextOrDoneFreed, ShrinkFreed DEF CallFails, AfterFailure
<1>3. ASSUME NEW h \in Handlers, LookUpFails(h)
      PROVE  OpsFreed
  BY <1>3, DoneFreed DEF LookUpFails, Procs
<1>4. ASSUME NEW h \in Handlers, RestoreBlindly(h)
      PROVE  OpsFreed /\ RowsFreed
  <2>1. h \in Procs /\ OpsFreed
    BY <1>4, DoneFreed DEF RestoreBlindly, Procs
  <2> DEFINE new == WithStatus(op[h].row, "running")
  <2>2. op[h].row \in Row
    BY <1>4, <2>1 DEF RestoreBlindly, At, LifeTypeOK, OpOK, Sound
  <2>3. FreedRow(allocs', new)
    BY <2>2, WithStatusIsRow DEF FreedRow, Statuses
  <2> HIDE DEF new
  <2>4. ws' = [ws EXCEPT ![op[h].w] = new]
    BY <1>4 DEF RestoreBlindly, UpdateWorkspace, new
  <2> QED BY <2>1, <2>3, <2>4 DEF RowsFreed, Carried, LifeTypeOK
<1>5. ASSUME HealthReadFails
      PROVE  OpsFreed
  <2>0. "health" \in Procs
    BY DEF Procs, Tickers
  <2>1. PICK t \in op["health"].todo :
          op' = [op EXCEPT !["health"].pc = "write", !["health"].w = t[1],
                           !["health"].row = WithStatus(t[2], "node_lost"),
                           !["health"].todo = @ \ {t}]
    BY <1>5 DEF HealthReadFails
  <2>2. t[2] \in Row
    BY <1>5, <2>0 DEF HealthReadFails, At, LifeTypeOK, OpOK, Sound
  <2>3. WithStatus(t[2], "node_lost").status # "destroyed"
    BY <2>2, WithStatusIsRow DEF Statuses
  <2> QED BY <2>0, <2>1, <2>3, TakeFreed
<1>6. ASSUME NEW a \in AllocIds, ProvCallFails(a)
      PROVE  OpsFreed
  BY <1>6, NobodyMoves DEF ProvCallFails
<1> QED
  BY <1>1, <1>2, <1>3, <1>4, <1>5, <1>6 DEF CallFails, LookUpFails, HealthReadFails, ProvCallFails

LEMMA FreedStep == TypeOK /\ LifeTypeOK /\ FreedOK /\ [LifeNext]_vars => FreedOK'
<1> SUFFICES ASSUME TypeOK, LifeTypeOK, FreedOK, [LifeNext]_vars PROVE FreedOK'
  OBVIOUS
<1>0. Carried
  BY CarriedStep
<1>1. CASE Crash
  <2>1. Freed(allocs', Idle)
    BY DEF Idle, Freed, FreedRow
  <2> QED BY <1>0, <1>1, <2>1 DEF Crash, OpsFreed, RowsFreed, Carried, FreedOK
<1>2. CASE UNCHANGED lifeVars
  BY <1>0, <1>2 DEF lifeVars, Carried, FreedOK
<1>3. OpsFreed /\ RowsFreed => FreedOK'
  BY DEF OpsFreed, RowsFreed, FreedOK
<1> QED
  BY <1>0, <1>1, <1>2, <1>3, BeginFreed, ContinueFreed, TickFreed, ProvisionFreed, FailureFreed
     DEF LifeNext, NodeReports, vars

LEMMA AlwaysFreed == LifeSafety => []FreedOK
<1>1. LifeInit => FreedOK
  BY DEF LifeInit, FreedOK, Freed, FreedRow, Idle
<1>2. StoreSpec => []TypeOK
  BY TypeCorrect
<1> QED BY <1>1, <1>2, FreedStep, LifeTypeCorrect, LifeCallsStore, PTL DEF LifeSafety

\* A destroyed workspace has given its capacity back, for any number of people,
\* of tickers and of restarts, and whatever the agents answer.
THEOREM DestroyFreesCapacity == LifeSafety => []DestroyFreesAllocation
<1>1. FreedOK => DestroyFreesAllocation
  BY DEF FreedOK, FreedRow, Gone, DestroyFreesAllocation, StatusOf
<1> QED BY <1>1, AlwaysFreed, PTL

----------------------------------------------------------------------------
(* Who brings a workspace back from its destruction.                       *)

\* The places of a request that has read the row it is going to write.
HoldPlaces == {"reserve", "write", "start_guest", "stop_guest"}

\* What is written over a row, but for the stamp of an activity, was read from a
\* row that nobody was destroying.
Early(o) ==
  /\ o.pc \in HoldPlaces /\ o.kind \notin {"create", "touch"} => o.row # NoWs /\ ~Ending(o.row)
  /\ o.kind \in {"idle", "health"} => \A t \in o.todo : ~Ending(t[2])

Creating(o) == o.kind = "create" /\ o.pc \in {"reserve", "write"}

\* What is being created is not there yet, and nobody else creates it.
CreatesApart ==
  \A p \in Procs : Creating(op[p]) =>
    /\ ws[op[p].w] = NoWs
    /\ \A q \in Procs \ {p} : Creating(op[q]) => op[q].w # op[p].w

ReadersOK == CreatesApart /\ \A p \in Procs : Early(op[p])

\* Nobody starts to create, and everybody still holds an early row.
Follows(o, p) == Early(o) /\ (Creating(o) => Creating(op[p]) /\ o.w = op[p].w)

OpsFollow == \A p \in Procs : Follows(op'[p], p)

NoRowAppears == \A w \in Workspaces : ws[w] = NoWs => ws'[w] = NoWs

LEMMA OneFollows ==
  ASSUME LifeTypeOK, ReadersOK, NEW p \in Procs, NEW o, op' = [op EXCEPT ![p] = o], Follows(o, p)
  PROVE  OpsFollow
BY DEF LifeTypeOK, OpOK, ReadersOK, OpsFollow, Follows

LEMMA NobodyFollows ==
  ASSUME ReadersOK, UNCHANGED op
  PROVE  OpsFollow
BY DEF ReadersOK, OpsFollow, Follows

LEMMA DoneFollows ==
  ASSUME LifeTypeOK, ReadersOK, NEW p \in Procs, Done(p)
  PROVE  OpsFollow
<1>1. Follows(Idle, p)
  BY DEF Idle, Follows, Early, Creating, HoldPlaces
<1> QED BY <1>1, OneFollows DEF Done

LEMMA GotoFollows ==
  ASSUME LifeTypeOK, ReadersOK, NEW p \in Procs, NEW pc, Goto(p, pc),
         pc \in HoldPlaces => op[p].pc \in HoldPlaces /\ op[p].kind # "create"
  PROVE  OpsFollow
<1>1. op[p] \in OpRecord /\ Early(op[p])
  BY DEF LifeTypeOK, OpOK, ReadersOK
<1>2. Follows([op[p] EXCEPT !.pc = pc], p)
  BY <1>1 DEF Follows, Early, Creating, OpRecord, HoldPlaces
<1> QED BY <1>2, OneFollows DEF Goto

LEMMA NextOrDoneFollows ==
  ASSUME LifeTypeOK, ReadersOK, NEW p \in Procs, NextOrDone(p)
  PROVE  OpsFollow
<1>1. Goto(p, "next") => OpsFollow
  BY GotoFollows DEF HoldPlaces
<1> QED BY <1>1, DoneFollows DEF NextOrDone

\* A request that begins with a row nobody is destroying, unless it only stamps
\* the activity or writes nothing of what it read.
LEMMA ReadFollows ==
  ASSUME LifeTypeOK, ReadersOK, NEW h \in Handlers, NEW w \in Workspaces,
         NEW kind, kind \notin {"idle", "health", "create"}, NEW pc,
         pc \in HoldPlaces /\ kind # "touch" => ws[w] # NoWs /\ ~Ending(ws[w]),
         op' = [op EXCEPT ![h] = [Idle EXCEPT !.kind = kind, !.pc = pc, !.w = w, !.row = ws[w]]]
  PROVE  OpsFollow
<1> DEFINE o == [Idle EXCEPT !.kind = kind, !.pc = pc, !.w = w, !.row = ws[w]]
<1>1. Follows(o, h)
  BY DEF Idle, Follows, Early, Creating
<1> HIDE DEF o
<1> QED BY <1>1, OneFollows DEF o, Procs

LEMMA BeginFollows ==
  ASSUME LifeTypeOK, ReadersOK, NEW h \in Handlers, BeginRequest(h),
         \A w \in Workspaces : ~CreateBegin(h, w)
  PROVE  OpsFollow
<1>1. ASSUME NEW w \in Workspaces, RequestWorkspace(h, w)
      PROVE  OpsFollow
  BY <1>1, NobodyFollows DEF RequestWorkspace
<1>2. ASSUME NEW w \in Workspaces, ApproveRead(h, w) \/ ReadThenWrite(h, w) \/ DestroyRead(h, w)
      PROVE  OpsFollow
  <2>1. PICK kind \in Kinds, pc \in {"reserve", "write", "start_guest", "stop_guest", "mark"} :
          /\ Begin(h, kind, pc, w) /\ ws[w] # NoWs /\ kind \notin {"create", "touch"}
          /\ pc \in HoldPlaces => ~Ending(ws[w])
    BY <1>2 DEF ApproveRead, ReadThenWrite, DestroyRead, ReadsExisting, FirstStepOfDestroyRequest,
                Kinds, HoldPlaces, Ending, DestroyReviewInFlight, WorkspaceClosed
  <2>2. kind \notin {"idle", "health"}
    BY DEF Kinds
  <2> QED BY <2>1, <2>2, ReadFollows DEF Begin
<1>3. ASSUME NEW w \in Workspaces, TouchRead(h, w)
      PROVE  OpsFollow
  <2>1. CASE ws[w].status = "suspended"
    BY <1>3, <2>1, ReadFollows DEF TouchRead, Ending
  <2>2. CASE ws[w].status # "suspended"
    BY <1>3, <2>2, ReadFollows DEF TouchRead
  <2> QED BY <2>1, <2>2
<1>4. ASSUME NEW p \in Projects, DeleteProjectList(h, p)
      PROVE  OpsFollow
  <2>0. PICK kind \in ProjectDeletions : \E T :
          op' = [op EXCEPT ![h] = [Idle EXCEPT !.kind = kind, !.pc = "next", !.todo = T,
                                               !.project = p]]
    BY <1>4 DEF DeleteProjectList
  <2>1. PICK T :
          op' = [op EXCEPT ![h] = [Idle EXCEPT !.kind = kind, !.pc = "next", !.todo = T,
                                               !.project = p]]
    BY <2>0
  <2> DEFINE o == [Idle EXCEPT !.kind = kind, !.pc = "next", !.todo = T, !.project = p]
  <2>2. Follows(o, h)
    BY DEF Idle, Follows, Early, Creating, HoldPlaces, ProjectDeletions
  <2> HIDE DEF o
  <2> QED BY <2>1, <2>2, OneFollows DEF o, Procs
<1> QED BY <1>1, <1>2, <1>3, <1>4 DEF BeginRequest

LEMMA WriteBackFollows ==
  ASSUME LifeTypeOK, ReadersOK, NEW p \in Procs, WriteBack(p)
  PROVE  OpsFollow
<1>1. op[p].pc = "write" /\ op[p].kind \in Writers
  BY DEF WriteBack, LifeTypeOK, OpOK, Sound
<1>2. ASSUME op' = [op EXCEPT ![p].kind = "touch", ![p].pc = "reread"] PROVE OpsFollow
  <2> DEFINE o == [op[p] EXCEPT !.kind = "touch", !.pc = "reread"]
  <2>1. op' = [op EXCEPT ![p] = o]
    BY <1>2 DEF LifeTypeOK, OpOK
  <2>2. Follows(o, p)
    BY DEF Follows, Early, Creating, HoldPlaces, LifeTypeOK, OpOK, OpRecord
  <2> HIDE DEF o
  <2> QED BY <2>1, <2>2, OneFollows
<1>3. Goto(p, "audit") \/ Goto(p, "next_row") \/ Done(p) => OpsFollow
  BY GotoFollows, DoneFollows DEF HoldPlaces
<1> QED BY <1>1, <1>2, <1>3 DEF WriteBack, AfterWrite, Writers

LEMMA ContinueFollows ==
  ASSUME LifeTypeOK, ReadersOK, NEW h \in Handlers, ContinueRequest(h)
  PROVE  OpsFollow
<1>0. h \in Procs /\ op[h] \in OpRecord /\ Sound(op[h]) /\ Early(op[h])
  BY DEF Procs, LifeTypeOK, OpOK, ReadersOK
<1>1. CASE ReserveStep(h)
  <2>1. ASSUME NEW a, op' = [op EXCEPT ![h].pc = "write", ![h].alloc = a]
        PROVE  OpsFollow
    <3> DEFINE o == [op[h] EXCEPT !.pc = "write", !.alloc = a]
    <3>1. Follows(o, h)
      BY <1>0, <1>1 DEF Follows, Early, Creating, HoldPlaces, OpRecord, ReserveStep
    <3>2. op' = [op EXCEPT ![h] = o]
      BY <2>1 DEF LifeTypeOK, OpOK
    <3> HIDE DEF o
    <3> QED BY <1>0, <3>1, <3>2, OneFollows
  <2> QED BY <1>0, <1>1, <2>1, DoneFollows DEF ReserveStep
<1>2. CASE ProvisioningWrite(h) \/ GiveBack(h)
  BY <1>0, <1>2, DoneFollows, GotoFollows DEF ProvisioningWrite, GiveBack, HoldPlaces
<1>3. CASE StartGuest(h) \/ StopGuest(h)
  <2>1. op[h].pc \in {"start_guest", "stop_guest"} /\ (Goto(h, "write") \/ Done(h))
    BY <1>3 DEF StartGuest, StopGuest, SwitchGuest
  <2>2. op[h].kind # "create"
    BY <1>0, <2>1 DEF Sound, Writers
  <2> QED BY <1>0, <2>1, <2>2, DoneFollows, GotoFollows DEF HoldPlaces
<1>4. CASE AuditDestroyRequest(h) \/ DestroyStep(h)
  <2>1. NextOrDone(h) \/ Goto(h, "destroy_guest") \/ Goto(h, "release") \/ Goto(h, "finish")
    BY <1>4 DEF AuditDestroyRequest, DestroyStep, DestroyMark, DestroyGuest, DestroyRelease,
                DestroyFinish
  <2> QED BY <1>0, <2>1, NextOrDoneFollows, GotoFollows DEF HoldPlaces
<1>5. CASE TouchReread(h)
  <2> DEFINE o == [op[h] EXCEPT !.pc = "write", !.row = ws[op[h].w]]
  <2>1. op[h].kind = "touch" /\ (Done(h) \/ op' = [op EXCEPT ![h] = o])
    BY <1>5 DEF TouchReread, At, LifeTypeOK, OpOK
  <2>2. Follows(o, h)
    BY <1>0, <2>1 DEF Follows, Early, Creating, OpRecord
  <2> HIDE DEF o
  <2> QED BY <1>0, <2>1, <2>2, DoneFollows, OneFollows
<1>6. CASE DeleteProjectNext(h) \/ WipeProjectNext(h)
  <2>1. op[h].kind \in ProjectDeletions
    BY <1>6 DEF DeleteProjectNext, WipeProjectNext, At, ProjectDeletions
  <2>2. ASSUME NEW w, NEW pc, pc # "mark" => ws[w] # NoWs /\ ~Ending(ws[w]),
               pc = "mark" \/ pc \in HoldPlaces,
               op' = [op EXCEPT ![h].w = w, ![h].row = ws[w], ![h].todo = @ \ {w}, ![h].pc = pc]
        PROVE  OpsFollow
    <3> DEFINE o == [op[h] EXCEPT !.w = w, !.row = ws[w], !.todo = @ \ {w}, !.pc = pc]
    <3>1. op' = [op EXCEPT ![h] = o]
      BY <2>2 DEF LifeTypeOK, OpOK
    <3>2. Follows(o, h)
      BY <1>0, <2>1, <2>2 DEF Follows, Early, Creating, OpRecord, HoldPlaces, ProjectDeletions
    <3> HIDE DEF o
    <3> QED BY <1>0, <3>1, <3>2, OneFollows
  <2>3. CASE WipeProjectNext(h)
    BY <1>0, <2>2, <2>3, DoneFollows DEF WipeProjectNext
  <2>4. CASE DeleteProjectNext(h)
    <3>1. PICK w \in op[h].todo :
            \/ Done(h)
            \/ /\ ws[w] # NoWs /\ ~Ending(ws[w])
               /\ op' = [op EXCEPT ![h].w = w, ![h].row = ws[w], ![h].todo = @ \ {w},
                                   ![h].pc = FirstStepOfDestroyRequest(ws[w])]
      BY <2>4 DEF DeleteProjectNext, Ending
    <3>2. FirstStepOfDestroyRequest(ws[w]) \in HoldPlaces
      BY DEF FirstStepOfDestroyRequest, HoldPlaces
    <3> QED BY <1>0, <2>2, <3>1, <3>2, DoneFollows
  <2> QED BY <1>6, <2>3, <2>4
<1>7. CASE DeleteProjectDrop(h)
  BY <1>0, <1>7, DoneFollows DEF DeleteProjectDrop
<1> QED
  BY <1>0, <1>1, <1>2, <1>3, <1>4, <1>5, <1>6, <1>7, WriteBackFollows
     DEF ContinueRequest, CreateStep

\* A ticker that starts on a list, goes on with it, or takes a row from it.
LEMMA ListFollows ==
  ASSUME LifeTypeOK, ReadersOK, NEW p \in Procs, NEW kind, kind # "create",
         NEW pc, pc \notin HoldPlaces,
         NEW T, kind \in {"idle", "health"} => \A t \in T : ~Ending(t[2]),
         op' = [op EXCEPT ![p] = [Idle EXCEPT !.kind = kind, !.pc = pc, !.todo = T]]
  PROVE  OpsFollow
<1> DEFINE o == [Idle EXCEPT !.kind = kind, !.pc = pc, !.todo = T]
<1>1. Follows(o, p)
  BY DEF Idle, Follows, Early, Creating
<1> HIDE DEF o
<1> QED BY <1>1, OneFollows DEF o

LEMMA ShrinkFollows ==
  ASSUME LifeTypeOK, ReadersOK, NEW p \in Procs, NEW t, op' = [op EXCEPT ![p].todo = @ \ {t}]
  PROVE  OpsFollow
<1> DEFINE o == [op[p] EXCEPT !.todo = @ \ {t}]
<1>1. op' = [op EXCEPT ![p] = o]
  BY DEF LifeTypeOK, OpOK
<1>2. Follows(o, p)
  BY DEF LifeTypeOK, OpOK, OpRecord, ReadersOK, Follows, Early, Creating
<1> HIDE DEF o
<1> QED BY <1>1, <1>2, OneFollows

LEMMA TakeFollows ==
  ASSUME LifeTypeOK, ReadersOK, NEW p \in Procs, op[p].kind # "create", NEW t, NEW row, NEW pc,
         pc \in HoldPlaces => row # NoWs /\ ~Ending(row),
         op' = [op EXCEPT ![p].pc = pc, ![p].w = t[1], ![p].row = row, ![p].todo = @ \ {t}]
  PROVE  OpsFollow
<1> DEFINE o == [op[p] EXCEPT !.pc = pc, !.w = t[1], !.row = row, !.todo = @ \ {t}]
<1>1. op' = [op EXCEPT ![p] = o]
  BY DEF LifeTypeOK, OpOK
<1>2. Follows(o, p)
  BY DEF LifeTypeOK, OpOK, OpRecord, ReadersOK, Follows, Early, Creating
<1> HIDE DEF o
<1> QED BY <1>1, <1>2, OneFollows

\* What the health ticker makes of a workspace in use is in use.
LEMMA CheckedIsInUse ==
  ASSUME NEW t \in Workspaces \X Row, ~Ending(t[2]), NEW status \in HealthStatuses(t[1], t[2])
  PROVE  status \notin {"destroying", "destroyed"}
<1>1. t[2] \in Row /\ t[2] # NoWs
  BY NoWsIsNoRow
<1>2. t[2].status \notin {"destroying", "destroyed"}
  BY <1>1 DEF Ending
<1> QED BY <1>2 DEF HealthStatuses

LEMMA IdleHealthFollows ==
  ASSUME LifeTypeOK, ReadersOK, IdleList \/ IdleStopGuest \/ HealthList \/ HealthCheck
  PROVE  OpsFollow
<1>0. "idle" \in Procs /\ "health" \in Procs
  BY DEF Procs, Tickers
<1>1. CASE IdleList
  <2>1. PICK S \in SUBSET Listed({"running", "fabric_degraded"}) :
          op' = [op EXCEPT !["idle"] = [Idle EXCEPT
                   !.kind = "idle", !.pc = "next_row", !.todo = S]]
    BY <1>1 DEF IdleList
  <2>2. \A t \in S : ~Ending(t[2])
    BY DEF Listed, Ending
  <2> QED BY <1>0, <2>1, <2>2, ListFollows DEF HoldPlaces
<1>2. CASE IdleStopGuest
  <2>1. PICK t \in op["idle"].todo :
          \/ Done("idle")
          \/ op' = [op EXCEPT !["idle"].todo = @ \ {t}]
          \/ op' = [op EXCEPT !["idle"].pc = "write", !["idle"].w = t[1],
                              !["idle"].row = t[2], !["idle"].todo = @ \ {t}]
    BY <1>2 DEF IdleStopGuest
  <2>2. ~Ending(t[2]) /\ t[2] \in Row /\ op["idle"].kind = "idle"
    BY <1>0, <1>2 DEF IdleStopGuest, At, ReadersOK, Early, LifeTypeOK, OpOK, Sound
  <2>3. t[2] # NoWs
    BY <2>2, NoWsIsNoRow
  <2>4. Done("idle") \/ op' = [op EXCEPT !["idle"].todo = @ \ {t}] => OpsFollow
    BY <1>0, DoneFollows, ShrinkFollows
  <2>5. op' = [op EXCEPT !["idle"].pc = "write", !["idle"].w = t[1],
                         !["idle"].row = t[2], !["idle"].todo = @ \ {t}] => OpsFollow
    BY <1>0, <2>2, <2>3, TakeFollows
  <2> QED BY <2>1, <2>4, <2>5
<1>3. CASE HealthList
  <2> DEFINE rows == {t \in Listed(Statuses) : WorkspaceHealthActive(t[2].status)}
  <2>1. op' = [op EXCEPT !["health"] = [Idle EXCEPT
                 !.kind = "health", !.pc = "next_row", !.todo = rows]]
    BY <1>3 DEF HealthList
  <2>2. \A t \in rows : ~Ending(t[2])
    BY DEF WorkspaceHealthActive, Ending
  <2> HIDE DEF rows
  <2> QED BY <1>0, <2>1, <2>2, ListFollows DEF HoldPlaces
<1>4. CASE HealthCheck
  <2>1. PICK t \in op["health"].todo, status \in Statuses :
          /\ status \in HealthStatuses(t[1], t[2])
          /\ \/ Done("health")
             \/ op' = [op EXCEPT !["health"].todo = @ \ {t}]
             \/ op' = [op EXCEPT !["health"].pc = "write", !["health"].w = t[1],
                                 !["health"].row = WithStatus(t[2], status),
                                 !["health"].todo = @ \ {t}]
    BY <1>4 DEF HealthCheck
  <2>2. ~Ending(t[2]) /\ t \in Workspaces \X Row /\ op["health"].kind = "health"
    BY <1>0, <1>4 DEF HealthCheck, At, ReadersOK, Early, LifeTypeOK, OpOK, Sound
  <2>3. status \notin {"destroying", "destroyed"}
    BY <2>1, <2>2, CheckedIsInUse
  <2>4. WithStatus(t[2], status) # NoWs /\ ~Ending(WithStatus(t[2], status))
    BY <2>2, <2>3, WithStatusIsRow, NoWsIsNoRow DEF Ending
  <2>5. Done("health") \/ op' = [op EXCEPT !["health"].todo = @ \ {t}] => OpsFollow
    BY <1>0, DoneFollows, ShrinkFollows
  <2>6. op' = [op EXCEPT !["health"].pc = "write", !["health"].w = t[1],
                         !["health"].row = WithStatus(t[2], status),
                         !["health"].todo = @ \ {t}] => OpsFollow
    BY <1>0, <2>2, <2>4, TakeFollows
  <2> QED BY <2>1, <2>5, <2>6
<1> QED BY <1>1, <1>2, <1>3, <1>4

LEMMA StuckFollows ==
  ASSUME LifeTypeOK, ReadersOK, NEW p \in Procs,
         StuckListFrom(p) \/ StuckKill(p) \/ StuckFree(p) \/ StuckFail(p)
  PROVE  OpsFollow
<1>1. CASE StuckListFrom(p)
  <2> DEFINE old == {t \in Listed({"provisioning"}) : LaunchOver(t[1])}
  <2>1. \/ Done(p)
        \/ op' = [op EXCEPT ![p] = [Idle EXCEPT !.kind = "stuck", !.pc = "kill", !.todo = old]]
    BY <1>1 DEF StuckListFrom
  <2> HIDE DEF old
  <2>2. "stuck" \notin {"create", "idle", "health"} /\ "kill" \notin HoldPlaces
    BY DEF HoldPlaces
  <2>3. op' = [op EXCEPT ![p] = [Idle EXCEPT !.kind = "stuck", !.pc = "kill", !.todo = old]]
          => OpsFollow
    BY <2>2, ListFollows
  <2> QED BY <2>1, <2>3, DoneFollows
<1>2. CASE StuckKill(p)
  <2>1. PICK t \in op[p].todo :
          op' = [op EXCEPT ![p].pc = "free", ![p].w = t[1], ![p].row = t[2],
                           ![p].todo = @ \ {t}]
    BY <1>2 DEF StuckKill
  <2>2. op[p].kind # "create" /\ "free" \notin HoldPlaces
    BY <1>2 DEF StuckKill, At, HoldPlaces
  <2>3. ASSUME NEW row, row = t[2] PROVE "free" \in HoldPlaces => row # NoWs /\ ~Ending(row)
    BY <2>2
  <2> QED BY <2>1, <2>2, <2>3, TakeFollows
<1>3. CASE StuckFree(p) \/ StuckFail(p)
  BY <1>3, DoneFollows, GotoFollows DEF StuckFree, StuckFail, HoldPlaces
<1> QED BY <1>1, <1>2, <1>3

LEMMA ReconcileFollows ==
  ASSUME LifeTypeOK, ReadersOK,
         ReconcileListAllocs \/ ReconcileListWorkspaces \/ ReconcileRelease
  PROVE  OpsFollow
<1> DEFINE r == op["reconcile"]
<1>0. "reconcile" \in Procs /\ r \in OpRecord
  BY DEF Procs, Tickers, LifeTypeOK, OpOK
<1>1. CASE ReconcileListAllocs
  BY <1>0, <1>1, ListFollows DEF ReconcileListAllocs, HoldPlaces
<1>2. CASE ReconcileListWorkspaces
  <2> DEFINE o == [r EXCEPT !.pc = "sweep", !.todo = {a \in @ : Unneeded(a)}]
  <2>1. Follows(o, "reconcile")
    BY <1>0, <1>2 DEF ReconcileListWorkspaces, At, OpRecord, Follows, Early, Creating, HoldPlaces
  <2>2. op' = [op EXCEPT !["reconcile"] = o]
    BY <1>0, <1>2 DEF ReconcileListWorkspaces, LifeTypeOK, OpOK
  <2> HIDE DEF o
  <2> QED BY <1>0, <2>1, <2>2, OneFollows
<1>3. CASE ReconcileRelease
  <2>1. \/ \E a \in r.todo : op' = [op EXCEPT !["reconcile"].todo = @ \ {a}]
        \/ StuckListFrom("reconcile")
    BY <1>3 DEF ReconcileRelease
  <2> QED BY <1>0, <2>1, ShrinkFollows, StuckFollows
<1> QED BY <1>1, <1>2, <1>3

LEMMA TickFollows ==
  ASSUME LifeTypeOK, ReadersOK, NEW p \in Tickers, Tick(p)
  PROVE  OpsFollow
<1>0. p \in Procs /\ "stuck" \in Procs
  BY DEF Procs, Tickers
<1>1. CASE StuckList
  BY <1>0, <1>1, StuckFollows DEF StuckList
<1> QED
  BY <1>0, <1>1, WriteBackFollows, IdleHealthFollows, StuckFollows, ReconcileFollows DEF Tick

LEMMA FailureFollows ==
  ASSUME LifeTypeOK, ReadersOK,
         \/ \E p \in Procs : CallFails(p)
         \/ \E h \in Handlers : LookUpFails(h) \/ RestoreBlindly(h)
         \/ HealthReadFails
  PROVE  OpsFollow
<1>1. ASSUME NEW p \in Procs, CallFails(p)
      PROVE  OpsFollow
  BY <1>1, DoneFollows, GotoFollows, NextOrDoneFollows, ShrinkFollows
     DEF CallFails, AfterFailure, HoldPlaces
<1>2. ASSUME NEW h \in Handlers, LookUpFails(h) \/ RestoreBlindly(h)
      PROVE  OpsFollow
  BY <1>2, DoneFollows DEF LookUpFails, RestoreBlindly, Procs
<1>3. ASSUME HealthReadFails
      PROVE  OpsFollow
  <2>0. "health" \in Procs
    BY DEF Procs, Tickers
  <2>1. PICK t \in op["health"].todo :
          op' = [op EXCEPT !["health"].pc = "write", !["health"].w = t[1],
                           !["health"].row = WithStatus(t[2], "node_lost"),
                           !["health"].todo = @ \ {t}]
    BY <1>3 DEF HealthReadFails
  <2>2. t[2] \in Row /\ op["health"].kind = "health"
    BY <1>3, <2>0 DEF HealthReadFails, At, LifeTypeOK, OpOK, Sound
  <2>3. WithStatus(t[2], "node_lost") # NoWs /\ ~Ending(WithStatus(t[2], "node_lost"))
    BY <2>2, WithStatusIsRow, NoWsIsNoRow DEF Ending, Statuses
  <2> QED BY <2>0, <2>1, <2>2, <2>3, TakeFollows
<1> QED BY <1>1, <1>2, <1>3

\* Rows appear by a request and by the write of a creation, and not otherwise.
LEMMA RowsAppear ==
  ASSUME LifeTypeOK, [LifeNext]_vars
  PROVE  \/ NoRowAppears
         \/ \E h \in Handlers, w \in Workspaces : RequestWorkspace(h, w)
         \/ \E h \in Handlers : ProvisioningWrite(h)
<1>1. UNCHANGED ws => NoRowAppears
  BY DEF NoRowAppears
<1>2. ASSUME NEW w, NEW row, UpdateWorkspace(w, row)
      PROVE  NoRowAppears
  BY <1>2 DEF UpdateWorkspace, NoRowAppears, LifeTypeOK
<1>3. ASSUME NEW w, NEW row, NEW from, UpdateWorkspaceIfStatus(w, row, from)
      PROVE  NoRowAppears
  BY <1>3 DEF UpdateWorkspaceIfStatus, NoRowAppears, LifeTypeOK
<1>4. ASSUME NEW h \in Handlers, BeginRequest(h), \A w \in Workspaces : ~RequestWorkspace(h, w)
      PROVE  UNCHANGED ws
  BY <1>4 DEF BeginRequest, CreateBegin, ApproveRead, ReadThenWrite, TouchRead, DestroyRead,
              DeleteProjectList
<1>5. ASSUME NEW p \in Procs, WriteBack(p)
      PROVE  NoRowAppears
  BY <1>1, <1>2, <1>5 DEF WriteBack
<1>6. ASSUME NEW h \in Handlers, ContinueRequest(h), ~ProvisioningWrite(h)
      PROVE  NoRowAppears
  <2>0. h \in Procs
    BY DEF Procs
  <2>1. CASE DestroyMark(h) \/ DestroyFinish(h)
    BY <1>1, <1>2, <2>1 DEF DestroyMark, DestroyFinish, WriteIfPresent
  <2>2. CASE DeleteProjectDrop(h)
    BY <2>2 DEF DeleteProjectDrop, NoRowAppears
  <2> QED
    BY <1>1, <1>5, <1>6, <2>0, <2>1, <2>2
       DEF ContinueRequest, CreateStep, DestroyStep, ReserveStep, GiveBack, StartGuest, StopGuest,
           SwitchGuest, AuditDestroyRequest, TouchReread, DestroyGuest, DestroyRelease,
           WipeProjectNext, DeleteProjectNext
<1>7. ASSUME NEW p \in Tickers, Tick(p)
      PROVE  NoRowAppears
  <2>0. p \in Procs
    BY DEF Procs
  <2>1. CASE StuckFail(p)
    BY <1>1, <1>3, <2>1 DEF StuckFail
  <2> QED
    BY <1>1, <1>5, <1>7, <2>0, <2>1
       DEF Tick, IdleList, IdleStopGuest, HealthList, HealthCheck, StuckList, StuckKill, StuckFree,
           ReconcileListAllocs, ReconcileListWorkspaces, ReconcileRelease
<1>8. ASSUME NEW a \in AllocIds, Provision(a)
      PROVE  NoRowAppears
  <2>1. CASE ProvCommit(a)
    BY <1>1, <1>3, <2>1 DEF ProvCommit
  <2> QED
    BY <1>1, <1>8, <2>1
       DEF Provision, ProvLoad, ProvLaunch, ProvReread, ProvActivate, ProvDestroyGuest, ProvRelease
<1>9. ASSUME NEW h \in Handlers, RestoreBlindly(h)
      PROVE  NoRowAppears
  BY <1>2, <1>9 DEF RestoreBlindly
<1> QED
  BY <1>1, <1>4, <1>6, <1>7, <1>8, <1>9
     DEF LifeNext, CallFails, LookUpFails, HealthReadFails, ProvCallFails, NodeReports, Crash, vars,
         lifeVars

LEMMA ReadersStep == LifeTypeOK /\ ReadersOK /\ [LifeNext]_vars => ReadersOK'
<1> SUFFICES ASSUME LifeTypeOK, ReadersOK, [LifeNext]_vars PROVE ReadersOK'
  OBVIOUS
<1>1. OpsFollow /\ NoRowAppears => ReadersOK'
  <2> SUFFICES ASSUME OpsFollow, NoRowAppears PROVE ReadersOK'
    OBVIOUS
  <2>1. ASSUME NEW p \in Procs, Creating(op'[p])
        PROVE  /\ ws'[op'[p].w] = NoWs
               /\ \A q \in Procs \ {p} : Creating(op'[q]) => op'[q].w # op'[p].w
    <3>1. Creating(op[p]) /\ op'[p].w = op[p].w
      BY <2>1 DEF OpsFollow, Follows
    <3>2. ws[op[p].w] = NoWs /\ op[p].w \in Workspaces
      BY <3>1 DEF ReadersOK, CreatesApart, LifeTypeOK, OpOK, Sound, Creating, Places
    <3>3. ASSUME NEW q \in Procs \ {p}, Creating(op'[q]) PROVE op'[q].w # op'[p].w
      BY <3>1, <3>3 DEF OpsFollow, Follows, ReadersOK, CreatesApart
    <3> QED BY <3>1, <3>2, <3>3 DEF NoRowAppears
  <2> QED BY <2>1 DEF ReadersOK, CreatesApart, OpsFollow, Follows
<1>2. ASSUME NEW h \in Handlers, NEW w \in Workspaces, RequestWorkspace(h, w)
      PROVE  ReadersOK'
  <2>1. \A p \in Procs : op[p].w # w
    BY <1>2 DEF RequestWorkspace, FreshWs, Unused, Mentions
  <2> QED BY <1>2, <2>1 DEF RequestWorkspace, ReadersOK, CreatesApart, LifeTypeOK
<1>3. ASSUME NEW h \in Handlers, NEW w \in Workspaces, CreateBegin(h, w)
      PROVE  ReadersOK'
  <2> DEFINE o == [Idle EXCEPT !.kind = "create", !.pc = "reserve", !.w = w, !.row = ws[w]]
  <2>1. ws[w] = NoWs /\ \A p \in Procs : op[p].w # w
    BY <1>3 DEF CreateBegin, FreshWs, Unused, Mentions
  <2>2. o.w = w /\ Early(o)
    BY DEF Idle, Early
  <2>3. h \in Procs /\ op' = [op EXCEPT ![h] = o] /\ UNCHANGED ws
    BY <1>3 DEF CreateBegin, Begin, Procs
  <2> HIDE DEF o
  <2> QED BY <2>1, <2>2, <2>3 DEF ReadersOK, CreatesApart, LifeTypeOK, OpOK
<1>4. ASSUME NEW h \in Handlers, ProvisioningWrite(h)
      PROVE  ReadersOK'
  <2>0. h \in Procs
    BY DEF Procs
  <2>1. OpsFollow
    BY <1>4, ContinueFollows DEF ContinueRequest, CreateStep
  <2>2. CASE op[h].kind = "approve" \/ UNCHANGED ws
    <3>1. NoRowAppears
      BY <1>4, <2>2 DEF ProvisioningWrite, NoRowAppears, LifeTypeOK
    <3> QED BY <1>1, <2>1, <3>1
  <2>3. CASE /\ op[h].kind = "create" /\ Done(h)
             /\ ws' = [ws EXCEPT ![op[h].w] = [status |-> "provisioning", alloc |-> op[h].alloc]]
    <3>1. Creating(op[h]) /\ ~Creating(op'[h])
      BY <1>4, <2>0, <2>3 DEF ProvisioningWrite, Creating, Done, Idle, LifeTypeOK, OpOK
    <3>2. ASSUME NEW p \in Procs, Creating(op'[p])
          PROVE  /\ ws'[op'[p].w] = NoWs
                 /\ \A q \in Procs \ {p} : Creating(op'[q]) => op'[q].w # op'[p].w
      <4>1. p # h /\ Creating(op[p]) /\ op'[p].w = op[p].w
        BY <2>1, <3>1, <3>2 DEF OpsFollow, Follows
      <4>2. ws[op[p].w] = NoWs /\ op[p].w # op[h].w /\ op[p].w \in Workspaces
        BY <2>0, <3>1, <4>1 DEF ReadersOK, CreatesApart, LifeTypeOK, OpOK, Sound, Creating, Places
      <4>3. ASSUME NEW q \in Procs \ {p}, Creating(op'[q]) PROVE op'[q].w # op'[p].w
        BY <2>1, <4>1, <4>3 DEF OpsFollow, Follows, ReadersOK, CreatesApart
      <4> QED BY <2>3, <4>1, <4>2, <4>3 DEF LifeTypeOK
    <3> QED BY <2>1, <3>2 DEF ReadersOK, CreatesApart, OpsFollow, Follows
  <2> QED BY <1>4, <2>2, <2>3 DEF ProvisioningWrite
<1>5. CASE \A h \in Handlers, w \in Workspaces : ~CreateBegin(h, w)
  <2>1. CASE Crash
    <3>1. OpsFollow
      BY <2>1 DEF Crash, OpsFollow, Follows, Early, Creating, Idle, HoldPlaces
    <3>2. NoRowAppears
      BY <2>1 DEF Crash, NoRowAppears
    <3> QED BY <1>1, <3>1, <3>2
  <2>2. CASE UNCHANGED op
    BY <1>1, <1>2, <1>4, <2>2, NobodyFollows, RowsAppear
  <2>3. OpsFollow => ReadersOK'
    BY <1>1, <1>2, <1>4, RowsAppear
  <2>4. ASSUME NEW a \in AllocIds, Provision(a) \/ ProvCallFails(a)
        PROVE  UNCHANGED op
    BY <2>4 DEF Provision, ProvLoad, ProvLaunch, ProvReread, ProvActivate, ProvCommit,
                ProvDestroyGuest, ProvRelease, ProvCallFails
  <2> QED
    BY <1>5, <2>1, <2>2, <2>3, <2>4, BeginFollows, ContinueFollows, TickFollows, FailureFollows
       DEF LifeNext, NodeReports, vars, lifeVars
<1> QED BY <1>3, <1>5

LEMMA AlwaysReaders == LifeSafety => []ReadersOK
<1>1. LifeInit => ReadersOK
  BY DEF LifeInit, ReadersOK, CreatesApart, Early, Creating, Idle, HoldPlaces
<1> QED BY <1>1, ReadersStep, LifeTypeCorrect, PTL DEF LifeSafety

\* Process p has read w before it was being destroyed, and moves.
Revives(p, w) ==
  op'[p] # op[p] /\ op[p].w = w /\ op[p].row # NoWs /\ ~Ending(op[p].row)

LEMMA ReviverWasEarly ==
  ASSUME LifeTypeOK, ReadersOK, [LifeNext]_vars,
         NEW w \in Workspaces, Ending(ws[w]), ws'[w] # NoWs, ~Ending(ws'[w])
  PROVE  \E p \in Procs : Revives(p, w)
<1>0. /\ ws[w] # NoWs /\ ws'[w] # ws[w] /\ ws[w].status \in {"destroying", "destroyed"}
      /\ ws[w].status \notin {"requested", "provisioning"}
  BY DEF Ending
<1>1. \A p \in Procs : Done(p) => op'[p] = Idle
  BY DEF Done, LifeTypeOK, OpOK
<1>2. \A p \in Procs : \A pc : Goto(p, pc) => op'[p].pc = pc
  BY DEF Goto, LifeTypeOK, OpOK, OpRecord
<1>3. ASSUME NEW p \in Procs, WriteBack(p)
      PROVE  Revives(p, w)
  <2>1. /\ op[p].pc = "write" /\ op[p].kind \in Writers /\ op[p].row \in Row /\ op[p].w \in Workspaces
        /\ op[p].kind \notin {"create", "approve"} /\ Early(op[p])
    BY <1>3, NewStatusIsStatus DEF WriteBack, LifeTypeOK, OpOK, Sound, ReadersOK
  <2>2. op[p].w = w /\ ws'[w] = WithStatus(op[p].row, NewStatus(p)) /\ AfterWrite(p)
    BY <1>0, <1>3, <2>1 DEF WriteBack, UpdateWorkspace, LifeTypeOK
  <2>3. op[p].row # NoWs /\ NewStatus(p) \in Statuses
    BY <2>1, NoWsIsNoRow, NewStatusIsStatus
  <2>4. NewStatus(p) \notin {"destroying", "destroyed"}
    BY <2>1, <2>2, <2>3, WithStatusIsRow DEF Ending
  <2>5. ~Ending(op[p].row)
    <3>1. CASE op[p].kind = "touch"
      BY <2>4, <3>1 DEF NewStatus, Ending
    <3>2. CASE op[p].kind # "touch"
      BY <2>1, <3>2 DEF Early, HoldPlaces
    <3> QED BY <3>1, <3>2
  <2>6. op'[p] # op[p]
    <3>1. CASE op' = [op EXCEPT ![p].kind = "touch", ![p].pc = "reread"]
      BY <2>1, <3>1 DEF LifeTypeOK, OpOK, OpRecord
    <3>2. CASE Done(p) \/ Goto(p, "audit") \/ Goto(p, "next_row")
      BY <1>1, <1>2, <2>1, <3>2 DEF Idle
    <3> QED BY <2>1, <2>2, <3>1, <3>2 DEF AfterWrite, Writers
  <2> QED BY <2>2, <2>3, <2>5, <2>6 DEF Revives
<1>4. ASSUME NEW h \in Handlers, BeginRequest(h)
      PROVE  FALSE
  BY <1>0, <1>4 DEF BeginRequest, RequestWorkspace, FreshWs, Unused, CreateBegin, ApproveRead,
                    ReadThenWrite, TouchRead, DestroyRead, DeleteProjectList, LifeTypeOK
<1>5. ASSUME NEW h \in Handlers, ContinueRequest(h)
      PROVE  Revives(h, w)
  <2>0. h \in Procs /\ Early(op[h]) /\ Sound(op[h])
    BY DEF Procs, ReadersOK, LifeTypeOK, OpOK
  <2>1. CASE ProvisioningWrite(h)
    <3>1. op[h].w = w /\ op[h].pc = "write" /\ Done(h) /\ op[h].kind \in {"create", "approve"}
      BY <1>0, <2>1 DEF ProvisioningWrite, LifeTypeOK
    <3>2. op[h].kind # "create"
      BY <1>0, <2>0, <3>1 DEF ReadersOK, CreatesApart, Creating
    <3>3. op[h].row # NoWs /\ ~Ending(op[h].row) /\ op'[h] # op[h]
      BY <1>1, <2>0, <3>1, <3>2 DEF Early, HoldPlaces, Idle
    <3> QED BY <3>1, <3>3 DEF Revives
  <2>2. CASE DestroyMark(h) \/ DestroyFinish(h)
    <3>1. op[h].row \in Row
      BY <2>0, <2>2 DEF DestroyMark, DestroyFinish, Sound, RowPlaces
    <3>2. /\ WithStatus(op[h].row, "destroying").status = "destroying"
          /\ WithStatus(op[h].row, "destroyed").status = "destroyed"
      BY <3>1, WithStatusIsRow DEF Statuses
    <3>3. ws'[w] = WithStatus(op[h].row, "destroying") \/ ws'[w] = WithStatus(op[h].row, "destroyed")
      BY <1>0, <2>2 DEF DestroyMark, DestroyFinish, WriteIfPresent, UpdateWorkspace, LifeTypeOK
    <3> QED BY <3>2, <3>3 DEF Ending
  <2>3. CASE DeleteProjectDrop(h)
    BY <1>0, <2>3 DEF DeleteProjectDrop
  <2>4. CASE WriteBack(h)
    BY <1>3, <2>0, <2>4
  <2>5. CASE UNCHANGED ws
    BY <1>0, <2>5
  <2> QED
    BY <1>5, <2>1, <2>2, <2>3, <2>4, <2>5
       DEF ContinueRequest, CreateStep, DestroyStep, ReserveStep, GiveBack, StartGuest, StopGuest,
           SwitchGuest, AuditDestroyRequest, TouchReread, DestroyGuest, DestroyRelease,
           WipeProjectNext, DeleteProjectNext
<1>6. ASSUME NEW p \in Tickers, Tick(p)
      PROVE  Revives(p, w)
  <2>0. p \in Procs
    BY DEF Procs
  <2>1. CASE StuckFail(p)
    BY <1>0, <2>1 DEF StuckFail, UpdateWorkspaceIfStatus, LifeTypeOK
  <2>2. CASE WriteBack(p)
    BY <1>3, <2>0, <2>2
  <2>3. CASE UNCHANGED ws
    BY <1>0, <2>3
  <2> QED
    BY <1>6, <2>1, <2>2, <2>3
       DEF Tick, IdleList, IdleStopGuest, HealthList, HealthCheck, StuckList, StuckKill, StuckFree,
           ReconcileListAllocs, ReconcileListWorkspaces, ReconcileRelease
<1>7. ASSUME NEW a \in AllocIds, Provision(a)
      PROVE  FALSE
  <2>1. ProvCommit(a)
    BY <1>0, <1>7 DEF Provision, ProvLoad, ProvLaunch, ProvReread, ProvActivate, ProvDestroyGuest,
                      ProvRelease
  <2> QED BY <1>0, <2>1 DEF ProvCommit, UpdateWorkspaceIfStatus, LifeTypeOK
<1>8. ASSUME NEW h \in Handlers, RestoreBlindly(h)
      PROVE  Revives(h, w)
  <2>1. h \in Procs /\ Early(op[h]) /\ op[h].kind = "reject_destroy" /\ op[h].pc = "write" /\ Done(h)
    BY <1>8 DEF RestoreBlindly, At, Procs, ReadersOK
  <2>2. op[h].w = w
    BY <1>0, <1>8 DEF RestoreBlindly, UpdateWorkspace, LifeTypeOK
  <2>3. op[h].row # NoWs /\ ~Ending(op[h].row) /\ op'[h] # op[h]
    BY <1>1, <2>1 DEF Early, HoldPlaces, Idle
  <2> QED BY <2>2, <2>3 DEF Revives
<1>9. ASSUME \/ \E p \in Procs : CallFails(p)
             \/ \E h \in Handlers : LookUpFails(h)
             \/ HealthReadFails
             \/ \E a \in AllocIds : ProvCallFails(a)
             \/ NodeReports \/ Crash \/ UNCHANGED vars
      PROVE  FALSE
  BY <1>0, <1>9 DEF CallFails, LookUpFails, HealthReadFails, ProvCallFails, NodeReports, Crash,
                    vars, lifeVars
<1> QED
  BY <1>4, <1>5, <1>6, <1>7, <1>8, <1>9 DEF LifeNext, Procs

\* Whatever is under way when a workspace is destroyed, only a request or a ticker
\* that has read the workspace before brings it back: no late launch, no restart, no
\* failed call, and nobody who reads it later, whatever they ask for.
THEOREM RevivalsAreOldReads == LifeSafety => OnlyEarlierReadersRevive
<1>1. LifeTypeOK /\ ReadersOK /\ [LifeNext]_vars =>
        [\A w \in Workspaces : Ending(ws[w]) /\ ws'[w] # NoWs /\ ~Ending(ws'[w]) =>
           \E p \in Procs : /\ op'[p] # op[p] /\ op[p].w = w
                            /\ op[p].row # NoWs /\ ~Ending(op[p].row)]_vars
  BY ReviverWasEarly DEF Revives
<1> QED BY <1>1, AlwaysReaders, LifeTypeCorrect, PTL DEF LifeSafety, OnlyEarlierReadersRevive

=============================================================================
