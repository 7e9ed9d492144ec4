---------------------------- MODULE Pages_proofs ----------------------------
(***************************************************************************)
(* Proofs about pages of the console, for any casts and any number of      *)
(* steps.  The scenes share the names of their variables and nothing else: *)
(* an invariant of a page is one of its scene.                             *)
(***************************************************************************)
EXTENDS Pages, FiniteSetTheorems, NaturalsInduction, WellFoundedInduction, TLAPS

\* A step of the composition is a step of the page that is looked at.
LEMMA SceneSteps ==
  ASSUME [Next]_vars
  PROVE  /\ scene' = scene
         /\ scene = "audit" => [Audit!Next]_(Audit!vars)
         /\ scene = "rows" => [LogRows!Next]_(LogRows!vars)
         /\ scene = "shell" => [Around!Next]_(Around!vars)
         /\ scene = "nodes" => [NodesAndCapacity!Next]_(NodesAndCapacity!vars)
         /\ scene = "cluster" => [Cluster!Next]_(Cluster!vars)
BY DEF Next, vars, Audit!vars, LogRows!vars, Around!vars, NodesAndCapacity!vars, Cluster!vars

----------------------------------------------------------------------------
(* The shell: the key in the clipboard                                     *)

OneProject == ShellProjects \cup {"none"}

ShellPlaces == Around!Pages \cup {"project", "project members", "machine", "invite"}

ShellCall ==
  [op : {"none", "copy", "rotate"}, st : {"idle", "sent", "ok", "lost", "refused"}, key : Nat, project : OneProject]
ShellUi ==
  [path : [place : ShellPlaces, id : OneProject], stored : OneProject, projects : SUBSET ShellProjects,
   drawer : BOOLEAN, collapsed : BOOLEAN, kept : BOOLEAN, folded : BOOLEAN, copiedId : BOOLEAN, busy : BOOLEAN,
   rotate : BOOLEAN, clip : Nat, told : {"none", "copied", "failed"}, accepting : BOOLEAN, timer : OneProject,
   left : Int]
ShellServer == [key : Nat, last : Nat, member : SUBSET ShellProjects, open : OneProject]

PackOps == {"copy", "rotate"}
ShellOps == PackOps \cup {"invite", "projects"}

ShellTypeOK ==
  /\ server \in ShellServer /\ ui \in ShellUi /\ calls \in [ShellOps -> ShellCall]

\* One of the two requests for a pack at a time, none behind the dialog that asks
\* to rotate; an answer on its way carries the key that works.
PacksOK(s, u, k) ==
  /\ \A p \in PackOps : k[p].st # "idle" => u.busy
  /\ k["copy"].st = "idle" \/ k["rotate"].st = "idle"
  /\ u.rotate => ~u.busy
  /\ \A p \in PackOps : k[p].st = "ok" => k[p].key = s.key
  /\ u.told = "copied" /\ k["copy"].st = "idle" /\ k["rotate"].st = "idle" => u.clip = s.key

PackInv == ShellTypeOK /\ PacksOK(server, ui, calls)

LEMMA PackStart ==
  ASSUME Around!Init
  PROVE  PackInv
<1>1. cast.member \subseteq ShellProjects /\ cast.invited \in OneProject /\ cast.steps \in Nat
  BY ShellAssumption DEF Around!Init, OneProject
<1>2. server \in ShellServer
  BY <1>1 DEF Around!Init, ShellServer
<1>3. ui \in ShellUi
  <2>1. Around!At("workspaces", "none") \in [place : ShellPlaces, id : OneProject]
    BY DEF Around!At, OneProject, ShellPlaces, Around!Pages
  <2> QED BY <1>1, <2>1 DEF Around!Init, Around!None, ShellUi, OneProject
<1>4. calls \in [ShellOps -> ShellCall]
  BY DEF Around!Init, Around!NoCall, Around!None, ShellOps, PackOps, ShellCall, OneProject
<1>5. PacksOK(server, ui, calls)
  BY DEF Around!Init, Around!NoCall, Around!None, PacksOK, PackOps
<1> QED BY <1>2, <1>3, <1>4, <1>5 DEF PackInv, ShellTypeOK

LEMMA GoIsUi ==
  ASSUME NEW u \in ShellUi, NEW path \in [place : ShellPlaces, id : OneProject]
  PROVE  /\ Around!Go(u, path) \in ShellUi
         /\ Around!Go(u, path).busy = u.busy /\ Around!Go(u, path).told = u.told
         /\ Around!Go(u, path).clip = u.clip /\ Around!Go(u, path).rotate = u.rotate
BY DEF Around!Go, Around!None, ShellUi, OneProject

LEMMA StepIsUi ==
  ASSUME NEW u \in ShellUi
  PROVE  /\ Around!Step(u) \in ShellUi
         /\ Around!Step(u).busy = u.busy /\ Around!Step(u).told = u.told
         /\ Around!Step(u).clip = u.clip /\ Around!Step(u).rotate = u.rotate /\ Around!Step(u).path = u.path
BY DEF Around!Step, ShellUi

\* What the person does that asks for no pack: the page and its bars, and no more.
MovesOnly(u) ==
  /\ u \in ShellUi /\ u.busy = ui.busy /\ u.told = ui.told /\ u.clip = ui.clip
  /\ u.rotate => ui.rotate \/ ~ui.busy

LEMMA BarSteps ==
  ASSUME PackInv, \/ Around!ToggleDrawer \/ Around!ToggleCollapsed \/ Around!BackToList
                  \/ Around!FoldMachineBar \/ Around!CopyId \/ Around!OpenRotate \/ Around!DismissRotate
                  \/ Around!OpenInvite \/ Around!TimerFires
                  \/ (\E page \in Around!Pages : Around!Navigate(page))
                  \/ (\E p \in ShellProjects : Around!SwitchProject(p) \/ Around!OpenMachine(p))
  PROVE  MovesOnly(ui') /\ UNCHANGED <<server, calls, cast>>
<1> DEFINE s == Around!Step(ui)
           Place == [place : ShellPlaces, id : OneProject]
<1>1. /\ ui \in ShellUi /\ s \in ShellUi /\ s.busy = ui.busy /\ s.told = ui.told /\ s.clip = ui.clip
      /\ s.rotate = ui.rotate /\ ui.path \in Place
  BY StepIsUi DEF PackInv, ShellTypeOK, ShellUi
<1>2. \A pl \in ShellPlaces, id \in OneProject : Around!At(pl, id) \in Place
  BY DEF Around!At
<1>3. \A path \in Place : MovesOnly(Around!Go(s, path))
  BY <1>1, GoIsUi DEF MovesOnly
<1> HIDE DEF s
<1>4. CASE Around!ToggleDrawer
  BY <1>1, <1>4 DEF Around!ToggleDrawer, MovesOnly, ShellUi, s
<1>5. CASE Around!ToggleCollapsed
  <2>1. PICK kept \in BOOLEAN : kept = ~ui.collapsed
    BY <1>1 DEF ShellUi
  <2>2. ui' = [s EXCEPT !.collapsed = ~s.collapsed, !.kept = kept] /\ UNCHANGED <<server, calls, cast>>
    BY <1>5, <2>1 DEF Around!ToggleCollapsed, s
  <2> QED BY <1>1, <2>2 DEF MovesOnly, ShellUi
<1>6. CASE Around!BackToList
  <2>1. Around!At("workspaces", ui.path.id) \in Place
    BY <1>1, <1>2 DEF ShellPlaces, Around!Pages
  <2> QED BY <1>3, <1>6, <2>1 DEF Around!BackToList, s
<1>7. CASE Around!FoldMachineBar
  BY <1>1, <1>7 DEF Around!FoldMachineBar, MovesOnly, ShellUi, s
<1>8. CASE Around!CopyId
  BY <1>1, <1>8 DEF Around!CopyId, MovesOnly, ShellUi, s
<1>9. CASE Around!OpenRotate
  BY <1>1, <1>9 DEF Around!OpenRotate, Around!CanRotate, MovesOnly, ShellUi, s
<1>10. CASE Around!DismissRotate
  BY <1>1, <1>10 DEF Around!DismissRotate, MovesOnly, ShellUi, s
<1>11. CASE Around!OpenInvite
  <2>1. MovesOnly(Around!Go(s, Around!At("invite", "none")))
    BY <1>2, <1>3 DEF OneProject, ShellPlaces
  <2> QED BY <1>11, <2>1 DEF Around!OpenInvite, Around!None, MovesOnly, ShellUi, s
<1>12. CASE Around!TimerFires
  <2>1. Around!At("project", ui.timer) \in Place
    BY <1>1, <1>2 DEF ShellUi, ShellPlaces
  <2> QED BY <1>1, <1>12, <2>1 DEF Around!TimerFires, Around!None, MovesOnly, ShellUi, OneProject
<1>13. ASSUME NEW page \in Around!Pages, Around!Navigate(page)
       PROVE  MovesOnly(ui') /\ UNCHANGED <<server, calls, cast>>
  <2>1. MovesOnly(Around!Go(s, Around!At(page, "none")))
    BY <1>2, <1>3 DEF OneProject, ShellPlaces
  <2> QED BY <1>13, <2>1 DEF Around!Navigate, Around!None, MovesOnly, ShellUi, s
<1>14. ASSUME NEW p \in ShellProjects, Around!SwitchProject(p)
       PROVE  MovesOnly(ui') /\ UNCHANGED <<server, calls, cast>>
  <2>1. PICK place \in ShellPlaces : ui' = [Around!Go(s, Around!At(place, p)) EXCEPT !.stored = p]
    BY <1>14 DEF Around!SwitchProject, ShellPlaces, Around!Pages, s
  <2>2. MovesOnly(Around!Go(s, Around!At(place, p)))
    BY <1>2, <1>3 DEF OneProject
  <2> QED BY <1>14, <2>1, <2>2 DEF Around!SwitchProject, MovesOnly, ShellUi, OneProject
<1>15. ASSUME NEW p \in ShellProjects, Around!OpenMachine(p)
       PROVE  MovesOnly(ui') /\ UNCHANGED <<server, calls, cast>>
  <2> DEFINE t == [s EXCEPT !.folded = FALSE, !.copiedId = FALSE]
  <2>1. t \in ShellUi /\ t.busy = s.busy /\ t.told = s.told /\ t.clip = s.clip /\ t.rotate = s.rotate
    BY <1>1 DEF ShellUi
  <2>2. ui' = Around!Go(t, Around!At("machine", p)) /\ UNCHANGED <<server, calls, cast>>
    BY <1>15 DEF Around!OpenMachine, s
  <2> HIDE DEF t
  <2>3. Around!At("machine", p) \in Place
    BY <1>2 DEF OneProject, ShellPlaces
  <2> QED BY <1>1, <2>1, <2>2, <2>3, GoIsUi DEF MovesOnly
<1> QED BY <1>4, <1>5, <1>6, <1>7, <1>8, <1>9, <1>10, <1>11, <1>12, <1>13, <1>14, <1>15

\* The invitation and the list of projects use calls of their own.
LEMMA OtherCallSteps ==
  ASSUME PackInv, \/ Around!SubmitToken \/ Around!ServeInvite \/ Around!InviteReturns
                  \/ Around!AskProjects \/ Around!ProjectsReturn
  PROVE  /\ MovesOnly(ui') /\ server' \in ShellServer /\ server'.key = server.key /\ cast' = cast
         /\ calls' \in [ShellOps -> ShellCall] /\ \A p \in PackOps : calls'[p] = calls[p]
<1>1. /\ ui \in ShellUi /\ server \in ShellServer /\ calls \in [ShellOps -> ShellCall]
      /\ "invite" \in ShellOps \ PackOps /\ "projects" \in ShellOps \ PackOps
  BY DEF PackInv, ShellTypeOK, ShellOps, PackOps
<1>2. Around!Step(ui) \in ShellUi /\ MovesOnly(Around!Step(ui)) /\ MovesOnly(ui)
  BY <1>1, StepIsUi DEF MovesOnly
<1>3. Around!NoCall \in ShellCall
  BY DEF Around!NoCall, Around!None, ShellCall, OneProject
<1>4. CASE Around!SubmitToken
  <2> DEFINE k == [calls["invite"] EXCEPT !.st = "sent"]
  <2>1. k \in ShellCall
    BY <1>1 DEF ShellCall
  <2>2. calls' = [calls EXCEPT !["invite"] = k] /\ server' = server /\ cast' = cast
        /\ ui' = [Around!Step(ui) EXCEPT !.accepting = TRUE]
    BY <1>4 DEF Around!SubmitToken
  <2> HIDE DEF k
  <2>3. MovesOnly(ui')
    BY <1>2, <2>2 DEF MovesOnly, ShellUi
  <2> QED BY <1>1, <2>1, <2>2, <2>3
<1>5. CASE Around!ServeInvite
  <2>1. PICK st \in {"refused", "ok"} :
          calls' = [calls EXCEPT !["invite"].st = st, !["invite"].project = server.open]
    BY <1>5 DEF Around!ServeInvite
  <2> DEFINE k == [calls["invite"] EXCEPT !.st = st, !.project = server.open]
  <2>2. k \in ShellCall /\ calls' = [calls EXCEPT !["invite"] = k]
    BY <1>1, <2>1 DEF ShellCall, ShellServer
  <2>3. server' \in ShellServer /\ server'.key = server.key
    <3>1. CASE server' = server
      BY <1>1, <3>1
    <3>2. CASE server.open # "none" /\
               server' = [server EXCEPT !.member = @ \cup {server.open}, !.open = "none"]
      BY <1>1, <3>2 DEF ShellServer, OneProject
    <3> QED BY <1>5, <3>1, <3>2 DEF Around!ServeInvite, Around!None
  <2> HIDE DEF k
  <2>4. UNCHANGED <<ui, cast>>
    BY <1>5 DEF Around!ServeInvite
  <2> QED BY <1>1, <1>2, <2>2, <2>3, <2>4
<1>6. CASE Around!InviteReturns
  <2>1. /\ calls' = [calls EXCEPT !["invite"] = Around!NoCall] /\ UNCHANGED <<server, cast>>
        /\ \E t \in OneProject : ui' = [ui EXCEPT !.accepting = FALSE, !.timer = t]
    <3>1. calls["invite"].project \in OneProject /\ ui.timer \in OneProject
      BY <1>1 DEF ShellCall, ShellUi
    <3> QED BY <1>6, <3>1 DEF Around!InviteReturns
  <2>2. MovesOnly(ui')
    BY <1>1, <2>1 DEF MovesOnly, ShellUi
  <2> QED BY <1>1, <1>3, <2>1, <2>2
<1>7. CASE Around!AskProjects
  <2> DEFINE k == [calls["projects"] EXCEPT !.st = "sent"]
  <2>1. k \in ShellCall
    BY <1>1 DEF ShellCall
  <2>2. calls' = [calls EXCEPT !["projects"] = k] /\ UNCHANGED <<server, cast>> /\ ui' = Around!Step(ui)
    BY <1>7 DEF Around!AskProjects
  <2> HIDE DEF k
  <2> QED BY <1>1, <1>2, <2>1, <2>2
<1>8. CASE Around!ProjectsReturn
  <2>1. ui' = [ui EXCEPT !.projects = server.member] /\ UNCHANGED <<server, cast>>
        /\ calls' = [calls EXCEPT !["projects"] = Around!NoCall]
    BY <1>8 DEF Around!ProjectsReturn
  <2>2. MovesOnly(ui')
    BY <1>1, <2>1 DEF MovesOnly, ShellUi, ShellServer
  <2> QED BY <1>1, <1>3, <2>1, <2>2
<1> QED BY <1>4, <1>5, <1>6, <1>7, <1>8

\* Asking for a pack, when none is asked for yet.
LEMMA AskStep ==
  ASSUME PackInv, NEW op \in PackOps, Around!Ask(op), ~ui.busy
  PROVE  PackInv'
<1> DEFINE k == [Around!NoCall EXCEPT !.op = op, !.st = "sent"]
<1>1. /\ k \in ShellCall /\ k.st = "sent" /\ calls \in [ShellOps -> ShellCall] /\ op \in ShellOps
      /\ Around!Step(ui) \in ShellUi /\ server \in ShellServer
  BY StepIsUi DEF PackInv, ShellTypeOK, Around!NoCall, Around!None, ShellCall, ShellOps, PackOps, OneProject
<1>2. /\ calls' = [calls EXCEPT ![op] = k] /\ server' = server
      /\ ui' = [Around!Step(ui) EXCEPT !.busy = TRUE, !.rotate = FALSE]
  BY DEF Around!Ask
<1> HIDE DEF k
<1>3. ui' \in ShellUi /\ ui'.busy /\ ~ui'.rotate
  BY <1>1, <1>2 DEF ShellUi
<1>4. /\ calls' \in [ShellOps -> ShellCall] /\ calls'[op] = k
      /\ \A p \in PackOps \ {op} : calls'[p] = calls[p] /\ calls[p].st = "idle"
  BY <1>1, <1>2 DEF PackInv, PacksOK, ShellOps
<1>5. PacksOK(server, ui', calls')
  BY <1>1, <1>3, <1>4 DEF PacksOK, PackOps
<1> QED BY <1>1, <1>2, <1>3, <1>4, <1>5 DEF PackInv, ShellTypeOK

LEMMA PackReturnsStep ==
  ASSUME PackInv, NEW op \in PackOps, Around!PackReturns(op)
  PROVE  PackInv'
<1>1. /\ calls \in [ShellOps -> ShellCall] /\ op \in ShellOps /\ ui \in ShellUi /\ server \in ShellServer
      /\ calls[op].st \in {"ok", "lost"} /\ calls[op] \in ShellCall
  BY DEF PackInv, ShellTypeOK, ShellOps, Around!PackReturns
<1>2. ui.busy /\ ~ui.rotate /\ \A p \in PackOps \ {op} : calls[p].st = "idle"
  BY <1>1 DEF PackInv, PacksOK, PackOps
<1>3. calls' = [calls EXCEPT ![op] = Around!NoCall] /\ server' = server
  BY DEF Around!PackReturns
<1>4. Around!NoCall \in ShellCall /\ Around!NoCall.st = "idle"
  BY DEF Around!NoCall, Around!None, ShellCall, OneProject
<1>5. calls' \in [ShellOps -> ShellCall] /\ \A p \in PackOps : calls'[p].st = "idle"
  BY <1>1, <1>2, <1>3, <1>4
<1>6. /\ ui' \in ShellUi /\ ~ui'.rotate /\ (ui'.told = "copied" => ui'.clip = server.key)
  <2>1. CASE calls[op].st = "ok" /\ ui' = [ui EXCEPT !.busy = FALSE, !.clip = calls[op].key, !.told = "copied"]
    <3>1. calls[op].key \in Nat /\ calls[op].key = server.key
      BY <1>1, <2>1 DEF ShellCall, PackInv, PacksOK
    <3> QED BY <1>1, <1>2, <2>1, <3>1 DEF ShellUi
  <2>2. CASE ui' = [ui EXCEPT !.busy = FALSE, !.told = "failed"]
    BY <1>1, <1>2, <2>2 DEF ShellUi
  <2> QED BY <2>1, <2>2 DEF Around!PackReturns
<1>7. PacksOK(server, ui', calls')
  BY <1>5, <1>6 DEF PacksOK, PackOps
<1> QED BY <1>1, <1>3, <1>5, <1>6, <1>7 DEF PackInv, ShellTypeOK

LEMMA ServePackStep ==
  ASSUME PackInv, NEW op \in PackOps, Around!ServePack(op)
  PROVE  PackInv'
<1>1. /\ calls \in [ShellOps -> ShellCall] /\ op \in ShellOps /\ ui \in ShellUi /\ server \in ShellServer
      /\ calls[op].st = "sent" /\ calls[op] \in ShellCall
  BY DEF PackInv, ShellTypeOK, ShellOps, Around!ServePack
<1>2. ui.busy /\ ~ui.rotate /\ \A p \in PackOps \ {op} : calls[p].st = "idle"
  BY <1>1 DEF PackInv, PacksOK, PackOps
<1>3. PICK key \in Nat, last \in Nat :
        /\ server' = [server EXCEPT !.key = key, !.last = last]
        /\ calls' = [calls EXCEPT ![op].st = "ok", ![op].key = key] /\ ui' = ui
  <2> DEFINE fresh == op = "rotate" \/ server.key = 0
  <2>1. CASE fresh
    <3>1. PICK n \in Nat : n = server.last + 1
      BY <1>1 DEF ShellServer
    <3>2. /\ server' = [server EXCEPT !.key = n, !.last = n]
          /\ calls' = [calls EXCEPT ![op].st = "ok", ![op].key = n] /\ ui' = ui
      BY <2>1, <3>1 DEF Around!ServePack
    <3> QED BY <3>2
  <2>2. CASE ~fresh
    <3>1. /\ server' = [server EXCEPT !.key = server.key, !.last = server.last]
          /\ calls' = [calls EXCEPT ![op].st = "ok", ![op].key = server.key] /\ ui' = ui
      BY <2>2 DEF Around!ServePack
    <3> QED BY <1>1, <3>1 DEF ShellServer
  <2> QED BY <2>1, <2>2
<1> DEFINE k == [calls[op] EXCEPT !.st = "ok", !.key = key]
<1>4. k \in ShellCall /\ k.st = "ok" /\ k.key = key /\ calls' = [calls EXCEPT ![op] = k]
  BY <1>1, <1>3 DEF ShellCall
<1> HIDE DEF k
<1>5. server' \in ShellServer /\ server'.key = key
  BY <1>1, <1>3 DEF ShellServer
<1>6. /\ calls' \in [ShellOps -> ShellCall] /\ calls'[op] = k
      /\ \A p \in PackOps \ {op} : calls'[p] = calls[p]
  BY <1>1, <1>4 DEF ShellOps
<1>7. PacksOK(server', ui, calls')
  BY <1>2, <1>4, <1>5, <1>6 DEF PacksOK, PackOps
<1> QED BY <1>1, <1>3, <1>5, <1>6, <1>7 DEF PackInv, ShellTypeOK

LEMMA LosePackStep ==
  ASSUME PackInv, NEW op \in PackOps, Around!LosePack(op)
  PROVE  PackInv'
<1>1. /\ calls \in [ShellOps -> ShellCall] /\ op \in ShellOps /\ ui \in ShellUi /\ server \in ShellServer
      /\ calls[op].st \in {"sent", "ok"} /\ calls[op] \in ShellCall
  BY DEF PackInv, ShellTypeOK, ShellOps, Around!LosePack
<1> DEFINE k == [calls[op] EXCEPT !.st = "lost"]
<1>2. k \in ShellCall /\ k.st = "lost"
  BY <1>1 DEF ShellCall
<1>3. calls' = [calls EXCEPT ![op] = k] /\ UNCHANGED <<server, ui>>
  BY DEF Around!LosePack
<1> HIDE DEF k
<1>4. /\ calls' \in [ShellOps -> ShellCall] /\ calls'[op] = k
      /\ \A p \in PackOps \ {op} : calls'[p] = calls[p]
  BY <1>1, <1>2, <1>3 DEF ShellOps
<1>5. PacksOK(server, ui, calls')
  BY <1>1, <1>2, <1>4 DEF PackInv, PacksOK, PackOps
<1> QED BY <1>1, <1>3, <1>4, <1>5 DEF PackInv, ShellTypeOK

LEMMA PackStep == PackInv /\ [Around!Next]_(Around!vars) => PackInv'
<1> SUFFICES ASSUME PackInv, [Around!Next]_(Around!vars) PROVE PackInv'
  OBVIOUS
<1>1. ASSUME MovesOnly(ui'), server' \in ShellServer, server'.key = server.key,
             calls' \in [ShellOps -> ShellCall], \A p \in PackOps : calls'[p] = calls[p]
      PROVE  PackInv'
  <2>1. PacksOK(server', ui', calls')
    BY <1>1 DEF PackInv, PacksOK, MovesOnly, PackOps
  <2> QED BY <1>1, <2>1 DEF PackInv, ShellTypeOK, MovesOnly
<1>2. server \in ShellServer /\ calls \in [ShellOps -> ShellCall]
  BY DEF PackInv, ShellTypeOK
<1>3. CASE UNCHANGED Around!vars
  BY <1>3 DEF Around!vars, PackInv, ShellTypeOK, PacksOK
<1>4. CASE Around!CopyPack
  BY <1>4, AskStep DEF Around!CopyPack, PackOps
<1>5. CASE Around!ConfirmRotate
  <2>1. ~ui.busy
    BY <1>5 DEF Around!ConfirmRotate, PackInv, PacksOK
  <2> QED BY <1>5, <2>1, AskStep DEF Around!ConfirmRotate, PackOps
<1>6. CASE \E op \in PackOps : Around!PackReturns(op) \/ Around!ServePack(op) \/ Around!LosePack(op)
  BY <1>6, PackReturnsStep, ServePackStep, LosePackStep
<1>7. CASE Around!SubmitToken \/ Around!ServeInvite \/ Around!InviteReturns \/ Around!AskProjects
           \/ Around!ProjectsReturn
  BY <1>1, <1>7, OtherCallSteps
<1>8. CASE \/ Around!ToggleDrawer \/ Around!ToggleCollapsed \/ Around!BackToList
           \/ Around!FoldMachineBar \/ Around!CopyId \/ Around!OpenRotate \/ Around!DismissRotate
           \/ Around!OpenInvite \/ Around!TimerFires
           \/ (\E page \in Around!Pages : Around!Navigate(page))
           \/ (\E p \in ShellProjects : Around!SwitchProject(p) \/ Around!OpenMachine(p))
  BY <1>1, <1>2, <1>8, BarSteps
<1> QED BY <1>3, <1>4, <1>5, <1>6, <1>7, <1>8 DEF Around!Next, PackOps

\* Whatever is rotated, lost or refused by the clipboard: a pack that the message
\* says was copied holds the key that works, once nothing is under way.
THEOREM CopiedPacksWork == Spec => []CopiedPackWorks
<1> DEFINE Inv == scene = "shell" => PackInv
<1>1. Init => Inv
  BY PackStart DEF Init
<1>2. Inv /\ [Next]_vars => Inv'
  BY SceneSteps, PackStep
<1>3. Inv => CopiedPackWorks
  BY DEF PackInv, PacksOK, CopiedPackWorks, Around!CopiedPackWorks
<1> QED BY <1>1, <1>2, <1>3, PTL DEF Spec

----------------------------------------------------------------------------
(* The nodes: every node of the list is counted once                       *)

\* A node is ready when it is healthy, and otherwise degraded or offline, whoever
\* of the heartbeat, the ticker and the probe wrote its row.
NodeOK(row) ==
  /\ {"status", "ready", "path", "used"} \subseteq DOMAIN row
  /\ \/ row.status = "healthy" /\ row.ready = TRUE
     \/ row.status \in {"degraded", "offline"} /\ row.ready = FALSE

NodesOK(rows) == DOMAIN rows = PageNodes /\ \A n \in PageNodes : NodeOK(rows[n])

NodesInv ==
  /\ {"nodes", "beat", "tick", "heard", "left"} \subseteq DOMAIN server
  /\ NodesOK(server.nodes) /\ NodesOK(server.tick)
  /\ {"rows", "seen"} \subseteq DOMAIN ui /\ ui.seen \subseteq PageNodes /\ NodesOK(ui.rows)
  /\ DOMAIN calls = Slots
  /\ \A c \in Slots : {"op", "st", "lan", "rows"} \subseteq DOMAIN calls[c] /\ NodesOK(calls[c].rows)

\* What the page and its calls hold of the nodes.
PageKept ==
  /\ {"rows", "seen"} \subseteq DOMAIN ui' /\ ui'.rows = ui.rows /\ ui'.seen = ui.seen
CallsKept ==
  /\ DOMAIN calls' = Slots
  /\ \A c \in Slots : {"op", "st", "lan", "rows"} \subseteq DOMAIN calls'[c] /\ NodesOK(calls'[c].rows)

LEMMA NewRowsAreOK ==
  /\ NodesOK(NodesAndCapacity!NoTick)
  /\ {"op", "st", "lan", "rows"} \subseteq DOMAIN NodesAndCapacity!NoCall /\ NodesOK(NodesAndCapacity!NoCall.rows)
  /\ \A op, lan : /\ {"op", "st", "lan", "rows"} \subseteq DOMAIN NodesAndCapacity!Sent(op, lan)
                  /\ NodesOK(NodesAndCapacity!Sent(op, lan).rows)
<1>1. NodeOK(NodesAndCapacity!NewRow)
  BY DEF NodeOK, NodesAndCapacity!NewRow
<1>2. NodesOK(NodesAndCapacity!NoTick)
  BY <1>1 DEF NodesOK, NodesAndCapacity!NoTick
<1>3. {"op", "st", "lan", "rows"} \subseteq DOMAIN NodesAndCapacity!NoCall /\ NodesOK(NodesAndCapacity!NoCall.rows)
  BY <1>2 DEF NodesAndCapacity!NoCall
<1>4. ASSUME NEW op, NEW lan
      PROVE  /\ {"op", "st", "lan", "rows"} \subseteq DOMAIN NodesAndCapacity!Sent(op, lan)
             /\ NodesOK(NodesAndCapacity!Sent(op, lan).rows)
  <2>1. NodesAndCapacity!Sent(op, lan).rows = NodesAndCapacity!NoCall.rows
    BY DEF NodesAndCapacity!Sent, NodesAndCapacity!NoCall
  <2>2. {"op", "st", "lan", "rows"} \subseteq DOMAIN NodesAndCapacity!Sent(op, lan)
    BY DEF NodesAndCapacity!Sent, NodesAndCapacity!NoCall
  <2> QED BY <1>3, <2>1, <2>2
<1> QED BY <1>2, <1>3, <1>4

LEMMA OneAnswer ==
  ASSUME NodesInv, NEW c \in Slots,
         \/ calls' = [calls EXCEPT ![c] = NodesAndCapacity!NoCall]
         \/ \E op, lan : calls' = [calls EXCEPT ![c] = NodesAndCapacity!Sent(op, lan)]
         \/ calls' = NodesAndCapacity!Asks(c)
  PROVE  CallsKept
<1> DEFINE CallOK(k) == {"op", "st", "lan", "rows"} \subseteq DOMAIN k /\ NodesOK(k.rows)
<1>1. DOMAIN calls = Slots /\ \A d \in Slots : CallOK(calls[d])
  BY DEF NodesInv
<1>2. CallOK(NodesAndCapacity!NoCall) /\ \A op, lan : CallOK(NodesAndCapacity!Sent(op, lan))
  BY NewRowsAreOK
<1> HIDE DEF CallOK
<1>3. DOMAIN calls' = Slots /\ \A d \in Slots : CallOK(calls'[d])
  <2>1. CASE calls' = [calls EXCEPT ![c] = NodesAndCapacity!NoCall]
    BY <1>1, <1>2, <2>1
  <2>2. CASE \E op, lan : calls' = [calls EXCEPT ![c] = NodesAndCapacity!Sent(op, lan)]
    BY <1>1, <1>2, <2>2
  <2>3. CASE calls' = NodesAndCapacity!Asks(c)
    BY <1>1, <1>2, <2>3 DEF NodesAndCapacity!Asks
  <2> QED BY <2>1, <2>2, <2>3
<1> QED BY <1>3 DEF CallOK, CallsKept

LEMMA PageOfNodesSteps ==
  ASSUME NodesInv,
         \/ NodesAndCapacity!CloseJoin \/ NodesAndCapacity!CopyCommand \/ NodesAndCapacity!CopyFades
         \/ \E c \in Slots :
              \/ NodesAndCapacity!Turn(c) \/ NodesAndCapacity!Load(c) \/ NodesAndCapacity!Reconcile(c)
              \/ NodesAndCapacity!ReconcileReturns(c) \/ NodesAndCapacity!OpenJoin(c)
              \/ NodesAndCapacity!GenerateReturns(c) \/ \E lan \in BOOLEAN : NodesAndCapacity!Generate(c, lan)
  PROVE  NodesInv'
<1>1. PICK s : s = NodesAndCapacity!Step(ui)
  OBVIOUS
<1>2. {"rows", "seen"} \subseteq DOMAIN s /\ s.rows = ui.rows /\ s.seen = ui.seen
  BY <1>1 DEF NodesAndCapacity!Step, NodesInv
<1>3. CASE NodesAndCapacity!CloseJoin \/ NodesAndCapacity!CopyCommand \/ NodesAndCapacity!CopyFades
  <2>1. PageKept
    BY <1>3 DEF NodesInv, PageKept, NodesAndCapacity!CloseJoin, NodesAndCapacity!CopyCommand, NodesAndCapacity!CopyFades
  <2>2. UNCHANGED <<server, calls>>
    BY <1>3 DEF NodesAndCapacity!CloseJoin, NodesAndCapacity!CopyCommand, NodesAndCapacity!CopyFades
  <2> QED BY <2>1, <2>2 DEF NodesInv, PageKept
<1>4. ASSUME NEW c \in Slots,
             \/ NodesAndCapacity!Turn(c) \/ NodesAndCapacity!Load(c) \/ NodesAndCapacity!Reconcile(c)
             \/ NodesAndCapacity!ReconcileReturns(c) \/ NodesAndCapacity!OpenJoin(c)
             \/ NodesAndCapacity!GenerateReturns(c) \/ \E lan \in BOOLEAN : NodesAndCapacity!Generate(c, lan)
      PROVE  NodesInv'
  <2>1. UNCHANGED server
    BY <1>4 DEF NodesAndCapacity!Turn, NodesAndCapacity!Load, NodesAndCapacity!Reconcile, NodesAndCapacity!ReconcileReturns,
                NodesAndCapacity!OpenJoin, NodesAndCapacity!GenerateReturns, NodesAndCapacity!Generate
  <2>2. PageKept
    <3>1. CASE NodesAndCapacity!Turn(c)
      BY <1>1, <1>2, <3>1 DEF PageKept, NodesAndCapacity!Turn
    <3>2. CASE NodesAndCapacity!Load(c)
      BY <1>1, <1>2, <3>2 DEF PageKept, NodesAndCapacity!Load
    <3>3. CASE NodesAndCapacity!Reconcile(c)
      BY <1>1, <1>2, <3>3 DEF PageKept, NodesAndCapacity!Reconcile
    <3>4. CASE NodesAndCapacity!ReconcileReturns(c)
      BY <3>4 DEF NodesInv, PageKept, NodesAndCapacity!ReconcileReturns
    <3>5. CASE NodesAndCapacity!OpenJoin(c)
      BY <1>1, <1>2, <3>5 DEF PageKept, NodesAndCapacity!OpenJoin
    <3>6. CASE NodesAndCapacity!GenerateReturns(c)
      BY <3>6 DEF NodesInv, PageKept, NodesAndCapacity!GenerateReturns
    <3>7. ASSUME NEW lan \in BOOLEAN, NodesAndCapacity!Generate(c, lan)
          PROVE  PageKept
      BY <1>1, <1>2, <3>7 DEF PageKept, NodesAndCapacity!Generate
    <3> QED BY <1>4, <3>1, <3>2, <3>3, <3>4, <3>5, <3>6, <3>7
  <2>3. \/ calls' = [calls EXCEPT ![c] = NodesAndCapacity!NoCall]
        \/ \E op, lan : calls' = [calls EXCEPT ![c] = NodesAndCapacity!Sent(op, lan)]
        \/ calls' = NodesAndCapacity!Asks(c)
    BY <1>4 DEF NodesAndCapacity!Turn, NodesAndCapacity!Load, NodesAndCapacity!Reconcile, NodesAndCapacity!ReconcileReturns,
                NodesAndCapacity!OpenJoin, NodesAndCapacity!GenerateReturns, NodesAndCapacity!Generate
  <2>4. CallsKept
    BY <2>3, OneAnswer
  <2> QED BY <2>1, <2>2, <2>4 DEF NodesInv, PageKept, CallsKept
<1> QED BY <1>3, <1>4

LEMMA NodesReturnsStep ==
  ASSUME NodesInv, NEW c \in Slots, NodesAndCapacity!ListReturns(c)
  PROVE  NodesInv'
<1>1. CallsKept /\ UNCHANGED server
  BY OneAnswer DEF NodesAndCapacity!ListReturns
<1>2. {"rows", "seen"} \subseteq DOMAIN ui' /\ ui'.seen \subseteq PageNodes /\ NodesOK(ui'.rows)
  <2>1. CASE ui' = [ui EXCEPT !.loading = FALSE]
    BY <2>1 DEF NodesInv
  <2>2. CASE \E free : ui' = [ui EXCEPT !.rows = calls[c].rows, !.seen = PageNodes, !.loading = FALSE, !.free = free]
    <3>1. PICK free : ui' = [ui EXCEPT !.rows = calls[c].rows, !.seen = PageNodes, !.loading = FALSE, !.free = free]
      BY <2>2
    <3> QED BY <3>1 DEF NodesInv
  <2> QED BY <2>1, <2>2 DEF NodesAndCapacity!ListReturns
<1> QED BY <1>1, <1>2 DEF NodesInv, CallsKept

\* What the server makes of a row.
LEMMA AgedIsOK ==
  ASSUME NEW row, NodeOK(row), NEW age, NEW n
  PROVE  NodeOK(NodesAndCapacity!Probed(NodesAndCapacity!Aged(row, age), n))
<1>1. PICK path : path = IF row.path \in {"degraded", "offline", "stale"} THEN "p2p" ELSE row.path
  OBVIOUS
<1>2. PICK aged : aged = NodesAndCapacity!Aged(row, age)
  OBVIOUS
<1>3. \/ aged = [row EXCEPT !.status = "healthy", !.ready = TRUE, !.path = path]
      \/ aged = [row EXCEPT !.status = "degraded", !.ready = FALSE, !.path = "degraded"]
      \/ aged = [row EXCEPT !.status = "offline", !.ready = FALSE, !.path = "offline"]
  BY <1>1, <1>2 DEF NodesAndCapacity!Aged, NodeOK
<1>4. NodeOK(aged)
  <2>1. CASE aged = [row EXCEPT !.status = "healthy", !.ready = TRUE, !.path = path]
    BY <2>1 DEF NodeOK
  <2>2. CASE aged = [row EXCEPT !.status = "degraded", !.ready = FALSE, !.path = "degraded"]
    BY <2>2 DEF NodeOK
  <2>3. CASE aged = [row EXCEPT !.status = "offline", !.ready = FALSE, !.path = "offline"]
    BY <2>3 DEF NodeOK
  <2> QED BY <1>3, <2>1, <2>2, <2>3
<1>5. PICK probed : probed = [aged EXCEPT !.status = "offline", !.ready = FALSE, !.path = "offline"]
  OBVIOUS
<1>6. NodeOK(probed)
  BY <1>4, <1>5 DEF NodeOK
<1> QED BY <1>2, <1>4, <1>5, <1>6 DEF NodesAndCapacity!Probed

LEMMA ClusterSteps ==
  ASSUME NodesInv,
         \/ NodesAndCapacity!TickList
         \/ \E n \in PageNodes : \/ NodesAndCapacity!Silence(n) \/ NodesAndCapacity!TickWrite(n)
                                 \/ \E path \in {"p2p", "relay"} : NodesAndCapacity!Heartbeat(n, path)
  PROVE  NodesInv'
<1>1. UNCHANGED <<ui, calls>>
  BY DEF NodesAndCapacity!TickList, NodesAndCapacity!Silence, NodesAndCapacity!TickWrite, NodesAndCapacity!Heartbeat
<1>2. ASSUME NEW nodes, NodesOK(nodes), NEW tick, NodesOK(tick), NEW beat, NEW heard, NEW left,
             server' = [server EXCEPT !.nodes = nodes, !.tick = tick, !.beat = beat, !.heard = heard, !.left = left]
      PROVE  NodesInv'
  BY <1>1, <1>2 DEF NodesInv
<1>3. NodesOK(server.nodes) /\ NodesOK(server.tick) /\ {"nodes", "beat", "tick", "heard", "left"} \subseteq DOMAIN server
  BY DEF NodesInv
<1>4. CASE NodesAndCapacity!TickList
  <2>1. PICK tick : tick = [n \in PageNodes |->
                       NodesAndCapacity!Probed(NodesAndCapacity!Aged(server.nodes[n], server.beat[n]), n)]
    OBVIOUS
  <2>2. NodesOK(tick)
    BY <1>3, <2>1, AgedIsOK DEF NodesOK
  <2>3. PICK left : left = {n \in PageNodes : tick[n] # server.nodes[n]}
    OBVIOUS
  <2>4. server' = [server EXCEPT !.tick = tick, !.heard = server.beat, !.left = left]
    BY <1>4, <2>1, <2>3 DEF NodesAndCapacity!TickList
  <2> QED BY <1>1, <2>2, <2>4 DEF NodesInv
<1>5. ASSUME NEW n \in PageNodes, NodesAndCapacity!Silence(n)
      PROVE  NodesInv'
  <2>1. {"nodes", "beat", "tick", "heard", "left"} \subseteq DOMAIN server'
        /\ server'.nodes = server.nodes /\ server'.tick = server.tick
    BY <1>3, <1>5 DEF NodesAndCapacity!Silence
  <2> QED BY <1>1, <2>1 DEF NodesInv
<1>6. ASSUME NEW n \in PageNodes, NodesAndCapacity!TickWrite(n)
      PROVE  NodesInv'
  <2>1. PICK nodes : nodes = [server.nodes EXCEPT ![n] = server.tick[n]]
    OBVIOUS
  <2>2. NodesOK(nodes)
    BY <1>3, <2>1 DEF NodesOK
  <2>3. PICK age : server' = [server EXCEPT !.left = @ \ {n}, !.nodes[n] = server.tick[n], !.beat[n] = age]
    BY <1>6 DEF NodesAndCapacity!TickWrite
  <2>4. {"nodes", "beat", "tick", "heard", "left"} \subseteq DOMAIN server'
        /\ server'.nodes = nodes /\ server'.tick = server.tick
    BY <1>3, <2>1, <2>3
  <2> QED BY <1>1, <2>2, <2>4 DEF NodesInv
<1>7. ASSUME NEW n \in PageNodes, NEW path, NodesAndCapacity!Heartbeat(n, path)
      PROVE  NodesInv'
  <2>3. server' = [server EXCEPT !.beat[n] = "fresh", !.nodes[n].status = "healthy",
                     !.nodes[n].ready = TRUE, !.nodes[n].path = path]
    BY <1>7 DEF NodesAndCapacity!Heartbeat
  <2>4. {"nodes", "beat", "tick", "heard", "left"} \subseteq DOMAIN server' /\ server'.tick = server.tick
    BY <1>3, <2>3
  <2>5. DOMAIN server'.nodes = PageNodes /\ \A m \in PageNodes \ {n} : server'.nodes[m] = server.nodes[m]
    BY <1>3, <2>3 DEF NodesOK
  <2>6. /\ {"status", "ready", "path", "used"} \subseteq DOMAIN server'.nodes[n]
        /\ server'.nodes[n].status = "healthy" /\ server'.nodes[n].ready = TRUE
    BY <1>3, <2>3 DEF NodesOK, NodeOK
  <2>7. NodesOK(server'.nodes)
    BY <1>3, <2>5, <2>6 DEF NodesOK, NodeOK
  <2> QED BY <1>1, <1>3, <2>4, <2>7 DEF NodesInv
<1> QED BY <1>4, <1>5, <1>6, <1>7

LEMMA NodesServe ==
  ASSUME NodesInv, NEW c \in Slots, NodesAndCapacity!Serve(c)
  PROVE  NodesInv'
<1>1. PICK st : calls' = [calls EXCEPT ![c].st = st, ![c].rows = server.nodes]
  BY DEF NodesAndCapacity!Serve
<1>2. PICK k : k = [calls[c] EXCEPT !.st = st, !.rows = server.nodes]
  OBVIOUS
<1>3. calls' = [calls EXCEPT ![c] = k]
  BY <1>1, <1>2 DEF NodesInv
<1>4. {"op", "st", "lan", "rows"} \subseteq DOMAIN k /\ NodesOK(k.rows)
  BY <1>2 DEF NodesInv
<1> QED BY <1>3, <1>4 DEF NodesInv, NodesAndCapacity!Serve

LEMMA NodesStart == NodesAndCapacity!Init => NodesInv
<1> SUFFICES ASSUME NodesAndCapacity!Init PROVE NodesInv
  OBVIOUS
<1>1. PICK nodes : nodes = [n \in PageNodes |-> [NodesAndCapacity!NewRow EXCEPT !.used = cast.used]]
  OBVIOUS
<1>2. NodesOK(nodes)
  BY <1>1 DEF NodesOK, NodeOK, NodesAndCapacity!NewRow
<1>3. server.nodes = nodes /\ server.tick = NodesAndCapacity!NoTick
      /\ {"nodes", "beat", "tick", "heard", "left"} \subseteq DOMAIN server
  BY <1>1 DEF NodesAndCapacity!Init
<1>4. {"rows", "seen"} \subseteq DOMAIN ui /\ ui.rows = server.nodes /\ ui.seen = {}
  BY DEF NodesAndCapacity!Init
<1>5. calls = [c \in Slots |-> NodesAndCapacity!NoCall]
  BY DEF NodesAndCapacity!Init
<1> QED BY <1>2, <1>3, <1>4, <1>5, NewRowsAreOK DEF NodesInv

LEMMA NodesStep ==
  NodesInv /\ [NodesAndCapacity!Next]_(NodesAndCapacity!vars) => NodesInv'
<1> SUFFICES ASSUME NodesInv, [NodesAndCapacity!Next]_(NodesAndCapacity!vars) PROVE NodesInv'
  OBVIOUS
<1>1. CASE UNCHANGED NodesAndCapacity!vars
  BY <1>1 DEF NodesAndCapacity!vars, NodesInv
<1>2. CASE NodesAndCapacity!Next
  BY <1>2, PageOfNodesSteps, NodesReturnsStep, ClusterSteps, NodesServe DEF NodesAndCapacity!Next
<1> QED BY <1>1, <1>2

\* The page counts as everybody counts.
LEMMA SameCount ==
  ASSUME NEW S
  PROVE  NodesAndCapacity!Cardinality(S) = Cardinality(S)
BY DEF NodesAndCapacity!Cardinality, Cardinality

LEMMA PartsAddUp ==
  ASSUME NEW S, IsFiniteSet(S), NEW R, NEW D, NEW O,
         R \cup D \cup O = S, R \cap D = {}, (R \cup D) \cap O = {}
  PROVE  Cardinality(R) + Cardinality(D) + Cardinality(O) = Cardinality(S)
<1>1. R \subseteq S /\ D \subseteq S /\ O \subseteq S
  OBVIOUS
<1>2. IsFiniteSet(R) /\ IsFiniteSet(D) /\ IsFiniteSet(O)
  BY <1>1, FS_Subset
<1>3. Cardinality({}) = 0
  BY FS_EmptySet
<1>4. IsFiniteSet(R \cup D) /\ Cardinality(R \cup D) = Cardinality(R) + Cardinality(D) - Cardinality(R \cap D)
  BY <1>2, FS_Union
<1>5. Cardinality((R \cup D) \cup O) = Cardinality(R \cup D) + Cardinality(O) - Cardinality((R \cup D) \cap O)
  BY <1>2, <1>4, FS_Union
<1>6. Cardinality(R) \in Nat /\ Cardinality(D) \in Nat /\ Cardinality(O) \in Nat
  BY <1>2, FS_CardinalityType
<1>7. PICK r, d, o, rd, all : /\ r = Cardinality(R) /\ d = Cardinality(D) /\ o = Cardinality(O)
                              /\ rd = Cardinality(R \cup D) /\ all = Cardinality(S)
  OBVIOUS
<1>8. rd = r + d - 0
  BY <1>3, <1>4, <1>7
<1>9. all = rd + o - 0
  BY <1>3, <1>5, <1>7
<1> QED BY <1>6, <1>7, <1>8, <1>9

\* The three counters part the list.
LEMMA CountedOnce ==
  ASSUME NodesInv
  PROVE  NodesAndCapacity!EachNodeCountedOnce
<1>0. PICK R, D, O : /\ R = NodesAndCapacity!ReadyNodes /\ D = NodesAndCapacity!DegradedNodes
                     /\ O = NodesAndCapacity!OfflineNodes
  OBVIOUS
<1>1. \A n \in ui.seen : NodeOK(ui.rows[n])
  BY DEF NodesInv, NodesOK
<1>2. /\ \A n \in R : n \in ui.seen /\ ui.rows[n].ready = TRUE
      /\ \A n \in D : n \in ui.seen /\ ui.rows[n].status = "degraded"
      /\ \A n \in O : n \in ui.seen /\ ui.rows[n].status = "offline"
      /\ \A n \in ui.seen : /\ ui.rows[n].ready = TRUE => n \in R
                            /\ ui.rows[n].status = "degraded" => n \in D
                            /\ ui.rows[n].status = "offline" => n \in O
  BY <1>0, <1>1 DEF NodeOK, NodesAndCapacity!ReadyNodes, NodesAndCapacity!DegradedNodes, NodesAndCapacity!OfflineNodes
<1>3. R \cup D \cup O = ui.seen /\ R \cap D = {} /\ (R \cup D) \cap O = {}
  BY <1>1, <1>2 DEF NodeOK
<1>4. IsFiniteSet(ui.seen)
  BY ClusterAssumption, FS_Subset DEF NodesInv
<1>5. Cardinality(R) + Cardinality(D) + Cardinality(O) = Cardinality(ui.seen)
  BY <1>3, <1>4, PartsAddUp
<1>6. /\ NodesAndCapacity!Counters.online = Cardinality(R) /\ NodesAndCapacity!Counters.degraded = Cardinality(D)
      /\ NodesAndCapacity!Counters.offline = Cardinality(O)
  BY <1>0, SameCount DEF NodesAndCapacity!Counters
<1>7. ASSUME NEW n \in ui.seen
      PROVE  /\ NodesAndCapacity!DrawnRow(n).label =
                  CASE n \in R -> "online" [] n \in D \ R -> "degraded" [] OTHER -> "offline"
             /\ NodesAndCapacity!DrawnRow(n).colour = "ok" => n \in R
  <2>1. PICK row : row = ui.rows[n]
    OBVIOUS
  <2>2. /\ NodesAndCapacity!DrawnRow(n).label = NodesAndCapacity!HealthLabel(row)
        /\ NodesAndCapacity!DrawnRow(n).colour = NodesAndCapacity!HealthVariant(row)
    BY <2>1 DEF NodesAndCapacity!DrawnRow
  <2>3. CASE row.status = "healthy" /\ row.ready = TRUE
    BY <1>2, <2>1, <2>2, <2>3 DEF NodesAndCapacity!HealthLabel, NodesAndCapacity!HealthVariant,
       NodesAndCapacity!Down
  <2>4. CASE row.status = "degraded" /\ row.ready = FALSE
    <3>1. n \notin R /\ n \in D
      BY <1>2, <2>1, <2>4
    <3>2. NodesAndCapacity!HealthLabel(row) = "degraded"
      BY <2>4 DEF NodesAndCapacity!HealthLabel
    <3>3. NodesAndCapacity!HealthVariant(row) = "danger"
      BY <2>4 DEF NodesAndCapacity!HealthVariant, NodesAndCapacity!Down
    <3> QED BY <2>2, <3>1, <3>2, <3>3
  <2>5. CASE row.status = "offline" /\ row.ready = FALSE
    BY <1>2, <2>1, <2>2, <2>5 DEF NodesAndCapacity!HealthLabel, NodesAndCapacity!HealthVariant,
       NodesAndCapacity!Down
  <2> QED BY <1>1, <2>1, <2>3, <2>4, <2>5 DEF NodeOK
<1> QED BY <1>0, <1>5, <1>6, <1>7, SameCount DEF NodesAndCapacity!EachNodeCountedOnce

----------------------------------------------------------------------------
(* The namespace of a machine: all is well only when it has been           *)

SetFields(set) == {"there", "desired", "pod", "was"} \subseteq DOMAIN set

\* A pod that is ready was ready.
SetOK(set) == SetFields(set) /\ (set.pod = "Ready" => set.was = TRUE)

CountsOK(status) ==
  /\ {"total", "updated", "ready"} \subseteq DOMAIN status
  /\ status.total \in Nat /\ status.updated \in Nat /\ status.ready \in Nat

\* The counts of the controller's last pass, while its generation is the asked one: no
\* more pods than ready ones, and one of the last template, so that one was ready.
ObjectsOK(s) ==
  /\ {"revision", "desired", "lag", "events", "sets", "status"} \subseteq DOMAIN s
  /\ s.revision \in ClusterRevisions /\ s.desired \in {0, 1} /\ s.lag \in BOOLEAN
  /\ CountsOK(s.status)
  /\ DOMAIN s.sets = ClusterRevisions /\ \A r \in ClusterRevisions : SetOK(s.sets[r])
  /\ s.lag = FALSE /\ s.status.total <= s.status.ready /\ s.status.updated >= 1 => s.sets[s.revision].was = TRUE

\* What was read of a deployment that counts as ready.
ReadOK(o) == Cluster!DeploymentReady(o.deployment) => o.truth.was = TRUE

CallReads(k) == {"st", "read"} \subseteq DOMAIN k /\ (k.st = "listed" => ReadOK(k.read))

ShownOK(status) ==
  \/ status = Cluster!EmptyStatus
  \/ \E o, events : ReadOK(o) /\ status = Cluster!Finalize(o, events)

ClusterInv ==
  /\ ObjectsOK(server)
  /\ {"status", "loading", "left"} \subseteq DOMAIN ui /\ ShownOK(ui.status)
  /\ DOMAIN calls = ClusterSlots /\ \A c \in ClusterSlots : CallReads(calls[c])

\* A step of the cluster.
LEMMA ClusterMoves ==
  ASSUME ClusterInv, ObjectsOK(server'), UNCHANGED calls,
         \/ UNCHANGED ui
         \/ Cluster!Acts
  PROVE  ClusterInv'
BY DEF ClusterInv, Cluster!Acts

\* A set that changes keeps what it was.
LEMMA SetMoves ==
  ASSUME ObjectsOK(server), NEW r \in ClusterRevisions, NEW set, SetOK(set),
         server.sets[r].was = TRUE => set.was = TRUE,
         NEW events, server' = [server EXCEPT !.sets = [server.sets EXCEPT ![r] = set], !.events = events]
  PROVE  ObjectsOK(server')
<1>1. PICK sets : sets = [server.sets EXCEPT ![r] = set]
  OBVIOUS
<1>2. DOMAIN sets = ClusterRevisions /\ \A q \in ClusterRevisions : SetOK(sets[q])
  BY <1>1 DEF ObjectsOK
<1>3. \A q \in ClusterRevisions : server.sets[q].was = TRUE => sets[q].was = TRUE
  BY <1>1 DEF ObjectsOK
<1>4. server' = [server EXCEPT !.sets = sets, !.events = events]
  BY <1>1
<1>5. /\ server'.revision = server.revision /\ server'.desired = server.desired /\ server'.lag = server.lag
      /\ server'.status = server.status /\ server'.sets = sets /\ DOMAIN server' = DOMAIN server
  BY <1>4 DEF ObjectsOK
<1> QED BY <1>2, <1>3, <1>5 DEF ObjectsOK

LEMMA PodsMove ==
  ASSUME ClusterInv, NEW r \in ClusterRevisions,
         Cluster!SetWorks(r) \/ Cluster!PodMoves(r) \/ Cluster!PodFails(r)
  PROVE  ClusterInv'
<1>1. ObjectsOK(server) /\ UNCHANGED calls /\ (UNCHANGED ui \/ Cluster!Acts)
  BY DEF ClusterInv, Cluster!SetWorks, Cluster!PodMoves, Cluster!PodFails
<1>2. PICK old : old = server.sets[r] /\ SetOK(old)
  BY <1>1 DEF ObjectsOK
<1>3. CASE Cluster!SetWorks(r)
  <2>1. PICK pod : pod = (IF old.pod = "none" THEN "Waiting" ELSE "none")
    OBVIOUS
  <2>2. PICK set : set = [old EXCEPT !.pod = pod]
    OBVIOUS
  <2>3. SetOK(set) /\ set.was = old.was
    BY <1>2, <2>1, <2>2 DEF SetOK, SetFields
  <2>4. server' = [server EXCEPT !.sets[r].pod = pod]
    BY <1>2, <1>3, <2>1 DEF Cluster!SetWorks
  <2>5. server' = [server EXCEPT !.sets = [server.sets EXCEPT ![r] = set], !.events = server.events]
    BY <1>1, <1>2, <2>2, <2>4 DEF ObjectsOK
  <2> QED BY <1>1, <1>2, <2>3, <2>5, SetMoves, ClusterMoves
<1>4. CASE Cluster!PodMoves(r)
  <2>1. PICK pod : pod = (IF old.pod = "Started" THEN "Ready" ELSE "Started")
    OBVIOUS
  <2>2. PICK was : was = (old.was \/ old.pod = "Started")
    OBVIOUS
  <2>3. PICK set : set = [old EXCEPT !.pod = pod, !.was = was]
    OBVIOUS
  <2>4. SetOK(set) /\ (old.was = TRUE => set.was = TRUE)
    BY <1>2, <2>1, <2>2, <2>3 DEF SetOK, SetFields
  <2>5. server' = [server EXCEPT !.sets[r].pod = pod, !.sets[r].was = was]
    BY <1>2, <1>4, <2>1, <2>2 DEF Cluster!PodMoves
  <2>6. server' = [server EXCEPT !.sets = [server.sets EXCEPT ![r] = set], !.events = server.events]
    BY <1>1, <1>2, <2>3, <2>5 DEF ObjectsOK
  <2> QED BY <1>1, <1>2, <2>4, <2>6, SetMoves, ClusterMoves
<1>5. CASE Cluster!PodFails(r)
  <2>1. PICK phase : /\ phase # "Ready"
                     /\ server' = [server EXCEPT !.sets[r].pod = phase, !.events = @ \cup {<<"pod", r>>}]
    BY <1>5 DEF Cluster!PodFails
  <2>2. PICK set : set = [old EXCEPT !.pod = phase]
    OBVIOUS
  <2>3. PICK events : events = server.events \cup {<<"pod", r>>}
    OBVIOUS
  <2>4. SetOK(set) /\ set.was = old.was
    BY <1>2, <2>1, <2>2 DEF SetOK, SetFields
  <2>5. server' = [server EXCEPT !.sets = [server.sets EXCEPT ![r] = set], !.events = events]
    BY <1>1, <1>2, <2>1, <2>2, <2>3 DEF ObjectsOK
  <2> QED BY <1>1, <1>2, <2>4, <2>5, SetMoves, ClusterMoves
<1> QED BY <1>3, <1>4, <1>5

LEMMA AskedSteps ==
  ASSUME ClusterInv,
         \/ Cluster!Rollout \/ Cluster!Scale
         \/ \E r \in ClusterRevisions : Cluster!SetFails(r)
         \/ \E event : Cluster!Warn(event)
  PROVE  ClusterInv'
<1>1. ObjectsOK(server) /\ UNCHANGED calls /\ Cluster!Acts
  BY DEF ClusterInv, Cluster!Rollout, Cluster!Scale, Cluster!SetFails, Cluster!Warn
<1>2. CASE Cluster!Rollout
  <2>1. PICK revision : revision = server.revision + 1 /\ revision \in ClusterRevisions
    BY <1>2 DEF Cluster!Rollout
  <2>2. server' = [server EXCEPT !.revision = revision, !.lag = TRUE]
    BY <1>2, <2>1 DEF Cluster!Rollout
  <2>3. ObjectsOK(server')
    BY <1>1, <2>1, <2>2 DEF ObjectsOK
  <2> QED BY <1>1, <2>3, ClusterMoves
<1>3. CASE Cluster!Scale
  <2>1. server.desired \in {0, 1}
    BY DEF ClusterInv, ObjectsOK
  <2>2. PICK desired : desired = 1 - server.desired /\ desired \in {0, 1}
    BY <2>1
  <2>3. server' = [server EXCEPT !.desired = desired, !.lag = TRUE]
    BY <1>3, <2>2 DEF Cluster!Scale
  <2>4. ObjectsOK(server')
    BY <1>1, <2>1, <2>2, <2>3 DEF ObjectsOK
  <2> QED BY <1>1, <2>4, ClusterMoves
<1>4. CASE (\E r \in ClusterRevisions : Cluster!SetFails(r)) \/ \E event : Cluster!Warn(event)
  <2>1. PICK events : server' = [server EXCEPT !.events = events]
    BY <1>4 DEF Cluster!SetFails, Cluster!Warn
  <2>2. ObjectsOK(server')
    BY <1>1, <2>1 DEF ObjectsOK
  <2> QED BY <1>1, <2>2, ClusterMoves
<1> QED BY <1>2, <1>3, <1>4

\* The panel counts as everybody counts.
LEMMA SameSize ==
  ASSUME NEW S
  PROVE  Cluster!Cardinality(S) = Cardinality(S)
BY DEF Cluster!Cardinality, Cardinality

\* If no more pods are there than are ready, all that are there are ready.
LEMMA AllReady ==
  ASSUME NEW sets, NEW now \in ClusterRevisions,
         Cardinality({r \in ClusterRevisions : sets[r].pod # "none"})
           <= Cardinality({r \in ClusterRevisions : sets[r].pod = "Ready"}),
         sets[now].pod # "none"
  PROVE  sets[now].pod = "Ready"
<1>1. PICK there, ready : /\ there = {r \in ClusterRevisions : sets[r].pod # "none"}
                          /\ ready = {r \in ClusterRevisions : sets[r].pod = "Ready"}
  OBVIOUS
<1>2. ready \subseteq there /\ IsFiniteSet(there)
  BY <1>1, ClusterAssumption, FS_Subset
<1>3. Cardinality(ready) <= Cardinality(there) /\ (Cardinality(ready) = Cardinality(there) => ready = there)
  BY <1>2, FS_Subset
<1>4. Cardinality(ready) \in Nat /\ Cardinality(there) \in Nat
  BY <1>2, FS_Subset, FS_CardinalityType
<1>5. ready = there
  BY <1>1, <1>3, <1>4
<1> QED BY <1>1, <1>5

LEMMA PassStep ==
  ASSUME ClusterInv, Cluster!Sync
  PROVE  ClusterInv'
<1>0. ObjectsOK(server)
  BY DEF ClusterInv
<1>1. PICK now : now = server.revision /\ now \in ClusterRevisions
  BY <1>0 DEF ObjectsOK
<1>2. PICK sets : sets = [r \in ClusterRevisions |->
                 IF r = now THEN [server.sets[r] EXCEPT !.there = TRUE, !.desired = server.desired]
                 ELSE IF server.desired = 0 \/ server.sets[now].pod = "Ready"
                 THEN [server.sets[r] EXCEPT !.desired = 0] ELSE server.sets[r]]
  OBVIOUS
<1>3. DOMAIN sets = ClusterRevisions
  BY <1>2
<1>4. ASSUME NEW r \in ClusterRevisions
      PROVE  SetOK(sets[r])
  <2>1. PICK old : old = server.sets[r] /\ SetOK(old)
    BY <1>0 DEF ObjectsOK
  <2>2. \/ sets[r] = [old EXCEPT !.there = TRUE, !.desired = server.desired]
        \/ sets[r] = [old EXCEPT !.desired = 0] \/ sets[r] = old
    BY <1>2, <2>1
  <2> QED BY <2>1, <2>2 DEF SetOK, SetFields
<1>5. PICK total, updated, ready :
        /\ total = Cardinality({r \in ClusterRevisions : sets[r].pod # "none"})
        /\ updated = (IF sets[now].pod # "none" THEN 1 ELSE 0)
        /\ ready = Cardinality({r \in ClusterRevisions : sets[r].pod = "Ready"})
  OBVIOUS
<1>6. total \in Nat /\ updated \in Nat /\ ready \in Nat
  <2>1. /\ IsFiniteSet({r \in ClusterRevisions : sets[r].pod # "none"})
        /\ IsFiniteSet({r \in ClusterRevisions : sets[r].pod = "Ready"})
    BY ClusterAssumption, FS_Subset
  <2> QED BY <1>5, <2>1, FS_CardinalityType
<1>7. total <= ready /\ updated >= 1 => sets[now].was = TRUE
  <2> SUFFICES ASSUME total <= ready, updated >= 1 PROVE sets[now].was = TRUE
    OBVIOUS
  <2>1. sets[now].pod # "none"
    BY <1>5
  <2>2. sets[now].pod = "Ready"
    BY <1>1, <1>5, <2>1, AllReady
  <2> QED BY <1>1, <1>4, <2>2 DEF SetOK
<1>8. PICK status : status = [total |-> total, updated |-> updated, ready |-> ready]
  OBVIOUS
<1>9. CountsOK(status) /\ status.total = total /\ status.updated = updated /\ status.ready = ready
  BY <1>6, <1>8 DEF CountsOK
<1>10. server' = [server EXCEPT !.lag = FALSE, !.sets = sets, !.status = status]
  BY <1>1, <1>2, <1>5, <1>8, SameSize DEF Cluster!Sync
<1>11. /\ server'.revision = now /\ server'.desired = server.desired /\ server'.lag = FALSE
       /\ server'.status = status /\ server'.sets = sets /\ DOMAIN server' = DOMAIN server
  BY <1>0, <1>1, <1>10 DEF ObjectsOK
<1>12. ObjectsOK(server')
  BY <1>0, <1>1, <1>3, <1>4, <1>7, <1>9, <1>11 DEF ObjectsOK
<1>13. UNCHANGED <<ui, calls>>
  BY DEF Cluster!Sync
<1> QED BY <1>12, <1>13, ClusterMoves

\* What the server reads of a deployment is as true as its counts.
LEMMA ReadIsOK ==
  ASSUME ObjectsOK(server)
  PROVE  ReadOK(Cluster!ReadObjects)
<1>1. PICK d : d = Cluster!ReadObjects.deployment
  OBVIOUS
<1>2. /\ d.desired = server.desired /\ d.lag = server.lag /\ d.total = server.status.total
      /\ d.updated = server.status.updated /\ d.ready = server.status.ready
  BY <1>1 DEF Cluster!ReadObjects
<1>3. Cluster!ReadObjects.truth.was = server.sets[server.revision].was
  BY DEF Cluster!ReadObjects
<1>4. Cluster!DeploymentReady(d) =>
        d.desired > 0 /\ d.total <= d.ready /\ d.updated >= d.desired /\ ~d.lag
  BY DEF Cluster!DeploymentReady, Cluster!RolledOut
<1>5. Cluster!DeploymentReady(d) => server.lag = FALSE
  BY <1>2, <1>4 DEF ObjectsOK
<1>6. Cluster!DeploymentReady(d) => server.status.total <= server.status.ready /\ server.status.updated >= 1
  BY <1>2, <1>4 DEF ObjectsOK, CountsOK
<1> QED BY <1>1, <1>3, <1>5, <1>6 DEF ReadOK, ObjectsOK

LEMMA PanelSteps ==
  ASSUME ClusterInv, NEW c \in ClusterSlots, Cluster!LoadStatus(c) \/ Cluster!ServeObjects(c) \/ Cluster!StatusReturns(c)
  PROVE  ClusterInv'
<1>1. UNCHANGED server
  BY DEF Cluster!LoadStatus, Cluster!ServeObjects, Cluster!StatusReturns
<1>2. ASSUME NEW k, CallReads(k), calls' = [calls EXCEPT ![c] = k],
             {"status", "loading", "left"} \subseteq DOMAIN ui', ShownOK(ui'.status)
      PROVE  ClusterInv'
  BY <1>1, <1>2 DEF ClusterInv
<1>3. CASE Cluster!LoadStatus(c)
  <2>1. PICK k : k = [calls[c] EXCEPT !.st = "sent"]
    OBVIOUS
  <2>2. CallReads(k) /\ calls' = [calls EXCEPT ![c] = k]
    BY <1>3, <2>1 DEF Cluster!LoadStatus, CallReads, ClusterInv
  <2>3. {"status", "loading", "left"} \subseteq DOMAIN ui' /\ ui'.status = ui.status
    BY <1>3 DEF Cluster!LoadStatus, ClusterInv
  <2> QED BY <1>2, <2>2, <2>3 DEF ClusterInv
<1>4. CASE Cluster!ServeObjects(c)
  <2>1. PICK k : k = [st |-> "listed", read |-> Cluster!ReadObjects]
    OBVIOUS
  <2>2. CallReads(k)
    BY <2>1, ReadIsOK DEF CallReads, ClusterInv
  <2>3. calls' = [calls EXCEPT ![c] = k] /\ ui' = ui
    BY <1>4, <2>1 DEF Cluster!ServeObjects
  <2> QED BY <1>2, <2>2, <2>3 DEF ClusterInv
<1>5. CASE Cluster!StatusReturns(c)
  <2>1. CallReads(Cluster!NoCall)
    BY DEF CallReads, Cluster!NoCall
  <2>2. calls' = [calls EXCEPT ![c] = Cluster!NoCall]
    BY <1>5 DEF Cluster!StatusReturns
  <2>3. ReadOK(calls[c].read)
    BY <1>5 DEF Cluster!StatusReturns, ClusterInv, CallReads
  <2>4. PICK status : /\ \/ status = Cluster!EmptyStatus
                         \/ \E events : status = Cluster!Finalize(calls[c].read, events)
                      /\ ui' = [ui EXCEPT !.status = status, !.loading = FALSE]
    BY <1>5 DEF Cluster!StatusReturns
  <2>5. ShownOK(status)
    BY <2>3, <2>4 DEF ShownOK
  <2>6. {"status", "loading", "left"} \subseteq DOMAIN ui' /\ ui'.status = status
    BY <2>4 DEF ClusterInv
  <2> QED BY <1>2, <2>1, <2>2, <2>5, <2>6
<1> QED BY <1>3, <1>4, <1>5

LEMMA ClusterStart == Cluster!Init => ClusterInv
<1> SUFFICES ASSUME Cluster!Init PROVE ClusterInv
  OBVIOUS
<1>1. ObjectsOK(server)
  <2>1. server = [revision |-> 1, desired |-> 1, lag |-> TRUE, events |-> {},
                  sets |-> [r \in ClusterRevisions |-> Cluster!NoSet], status |-> [total |-> 0, updated |-> 0, ready |-> 0]]
    BY DEF Cluster!Init
  <2>2. SetOK(Cluster!NoSet)
    BY DEF SetOK, SetFields, Cluster!NoSet
  <2> QED BY <2>1, <2>2, ClusterAssumption DEF ObjectsOK, CountsOK
<1>2. {"status", "loading", "left"} \subseteq DOMAIN ui /\ ShownOK(ui.status)
  BY DEF Cluster!Init, ShownOK
<1>3. DOMAIN calls = ClusterSlots /\ \A c \in ClusterSlots : CallReads(calls[c])
  <2>1. CallReads(Cluster!NoCall) /\ CallReads([Cluster!NoCall EXCEPT !.st = "sent"])
    BY DEF CallReads, Cluster!NoCall
  <2>2. PICK first : calls = [c \in ClusterSlots |-> IF c = first THEN [Cluster!NoCall EXCEPT !.st = "sent"] ELSE Cluster!NoCall]
    BY DEF Cluster!Init
  <2> QED BY <2>1, <2>2
<1> QED BY <1>1, <1>2, <1>3 DEF ClusterInv

LEMMA ClusterStep ==
  ClusterInv /\ [Cluster!Next]_(Cluster!vars) => ClusterInv'
<1> SUFFICES ASSUME ClusterInv, [Cluster!Next]_(Cluster!vars) PROVE ClusterInv'
  OBVIOUS
<1>1. CASE UNCHANGED Cluster!vars
  BY <1>1 DEF Cluster!vars, ClusterInv
<1>2. CASE Cluster!Next
  BY <1>2, PodsMove, AskedSteps, PassStep, PanelSteps DEF Cluster!Next
<1> QED BY <1>1, <1>2

\* What the panel makes of a status.
LEMMA StatusSaysSo ==
  ASSUME ClusterInv
  PROVE  Cluster!EventsSortedAlike /\ Cluster!HealthyMeansRolledOut
<1>1. CASE ui.status = Cluster!EmptyStatus
  <2>1. /\ ui.status.objects = {} /\ ui.status.events = {} /\ ui.status.history = {} /\ ui.status.warnings = {}
    BY <1>1 DEF Cluster!EmptyStatus
  <2>2. Cluster!HealthyMeansRolledOut
    BY <2>1 DEF Cluster!HealthyMeansRolledOut, Cluster!Healthy
  <2>3. Cluster!WarningEvents = {} /\ Cluster!HistoryEvents = {}
    BY <2>1 DEF Cluster!WarningEvents, Cluster!HistoryEvents
  <2> QED BY <2>1, <2>2, <2>3 DEF Cluster!EventsSortedAlike, Cluster!HistoryNotes
<1>2. ASSUME NEW o, NEW events, ReadOK(o), ui.status = Cluster!Finalize(o, events)
      PROVE  Cluster!EventsSortedAlike /\ Cluster!HealthyMeansRolledOut
  <2>1. PICK stale : stale = {e \in events : Cluster!Stale(o, e)}
    OBVIOUS
  <2>2. PICK sets : sets = {<<r, Cluster!Active(o.sets[r])>> : r \in DOMAIN o.sets}
    OBVIOUS
  <2>3. /\ ui.status.objects = {o} /\ ui.status.sets = sets /\ ui.status.history = stale
        /\ ui.status.events = {<<e, e \in stale>> : e \in events}
        /\ ui.status.ready = IF Cluster!DeploymentReady(o.deployment) THEN 1 ELSE 0
        /\ events \ stale \subseteq ui.status.warnings
    BY <1>2, <2>1, <2>2 DEF Cluster!Finalize
  <2>4. Cluster!HealthyMeansRolledOut
    BY <1>2, <2>3 DEF Cluster!HealthyMeansRolledOut, Cluster!Healthy, ReadOK
  <2>5. \A e \in events : e[1] = "replicaset" /\ <<e[2], TRUE>> \notin sets => e \in stale
    <3> SUFFICES ASSUME NEW e \in events, e[1] = "replicaset", <<e[2], TRUE>> \notin sets PROVE Cluster!Stale(o, e)
      BY <2>1
    <3>1. e[2] \in DOMAIN o.sets => ~Cluster!Active(o.sets[e[2]])
      BY <2>2 DEF Cluster!Active
    <3> QED BY <3>1 DEF Cluster!Stale
  <2>6. ASSUME NEW e \in events
        PROVE  Cluster!EventIsStale(e, e \in stale, sets) <=> e \in stale
    BY <2>5 DEF Cluster!EventIsStale
  <2>7. {e[1] : e \in Cluster!WarningEvents} \subseteq events \ stale
    BY <2>3, <2>6 DEF Cluster!WarningEvents
  <2>8. {e[1] : e \in Cluster!HistoryEvents} = stale
    <3>1. ASSUME NEW e \in events
          PROVE  LET drawn == <<e, e \in stale>>
                 IN drawn \in ui.status.events /\ drawn[1] = e /\ drawn[2] = (e \in stale)
      BY <2>3
    <3>2. \A x \in Cluster!HistoryEvents : x[1] \in stale
      BY <2>3, <2>6 DEF Cluster!HistoryEvents
    <3>3. ASSUME NEW e \in stale
          PROVE  \E x \in Cluster!HistoryEvents : x[1] = e
      <4>1. e \in events /\ Cluster!EventIsStale(e, e \in stale, sets)
        BY <2>1, <2>6
      <4>2. PICK x : x = <<e, e \in stale>>
        OBVIOUS
      <4>3. x \in ui.status.events /\ x[1] = e /\ x[2] = (e \in stale)
        BY <3>1, <4>1, <4>2
      <4>4. x \in Cluster!HistoryEvents
        BY <2>3, <4>1, <4>3 DEF Cluster!HistoryEvents
      <4> QED BY <4>3, <4>4
    <3> QED BY <3>2, <3>3
  <2> QED BY <2>3, <2>4, <2>7, <2>8 DEF Cluster!EventsSortedAlike, Cluster!HistoryNotes
<1> QED BY <1>1, <1>2 DEF ClusterInv, ShownOK

----------------------------------------------------------------------------
(* The rows of the log: what they are called, and what they tell           *)

Below == {ss \in Nat \X Nat : ss[1] < ss[2]}

\* A set of numbers has a least one.
LEMMA LeastNat ==
  ASSUME NEW S \in SUBSET Nat, S # {}
  PROVE  \E i \in S : \A j \in S : i <= j
<1>1. IsWellFoundedOn(Below, Nat)
  BY NatLessThanWellFounded DEF OpToRel, Below
<1>2. PICK i \in S : \A j \in S : ~ (<<j, i>> \in Below)
  BY <1>1, WFMin
<1>3. ASSUME NEW j \in S
      PROVE  i <= j
  <2>1. <<j, i>> \in Nat \X Nat /\ <<j, i>>[1] = j /\ <<j, i>>[2] = i
    OBVIOUS
  <2>2. j \in Nat /\ i \in Nat
    OBVIOUS
  <2>3. ~ (j < i)
    BY <1>2, <2>1 DEF Below
  <2> QED BY <2>2, <2>3
<1> QED BY <1>3

\* The first of some keys that say something, or nothing if none does.
LEMMA FirstSaid ==
  ASSUME NEW meta, NEW keys, DOMAIN keys \subseteq Nat
  PROVE  \/ LogRows!First(meta, keys) = LogRows!None /\ \A i \in DOMAIN keys : meta[keys[i]] = LogRows!None
         \/ \E i \in DOMAIN keys : meta[keys[i]] # LogRows!None /\ LogRows!First(meta, keys) = meta[keys[i]]
<1> DEFINE S == {i \in DOMAIN keys : meta[keys[i]] # LogRows!None}
           Is(i) == i \in DOMAIN keys /\ meta[keys[i]] # LogRows!None
                    /\ \A j \in DOMAIN keys : j < i => meta[keys[j]] = LogRows!None
<1>1. CASE S = {}
  BY <1>1 DEF LogRows!First
<1>2. CASE S # {}
  <2>1. PICK i \in S : \A j \in S : i <= j
    BY <1>2, LeastNat
  <2>2. \A j \in DOMAIN keys : j < i => j \notin S
    BY <2>1
  <2>3. Is(i)
    BY <2>1, <2>2
  <2>4. LogRows!First(meta, keys) = meta[keys[CHOOSE k \in DOMAIN keys :
          meta[keys[k]] # LogRows!None /\ \A j \in DOMAIN keys : j < k => meta[keys[j]] = LogRows!None]]
    BY <1>2 DEF LogRows!First
  <2> DEFINE k == CHOOSE k \in DOMAIN keys :
          meta[keys[k]] # LogRows!None /\ \A j \in DOMAIN keys : j < k => meta[keys[j]] = LogRows!None
  <2>5. k \in DOMAIN keys /\ meta[keys[k]] # LogRows!None
    BY <2>3
  <2> QED BY <2>4, <2>5
<1> QED BY <1>1, <1>2

\* The same of a list of names, which ends with the id.
LEMMA FirstName ==
  ASSUME NEW names, DOMAIN names \subseteq Nat
  PROVE  \/ LogRows!FirstOf(names) = LogRows!ShortId
         \/ \E i \in DOMAIN names : names[i] # LogRows!None /\ LogRows!FirstOf(names) = names[i]
                                    /\ \A j \in DOMAIN names : j < i => names[j] = LogRows!None
<1> DEFINE S == {i \in DOMAIN names : names[i] # LogRows!None}
           Is(i) == names[i] # LogRows!None /\ \A j \in DOMAIN names : j < i => names[j] = LogRows!None
<1>1. CASE S = {}
  BY <1>1 DEF LogRows!FirstOf
<1>2. CASE S # {}
  <2>1. PICK i \in S : \A j \in S : i <= j
    BY <1>2, LeastNat
  <2>2. \A j \in DOMAIN names : j < i => j \notin S
    BY <2>1
  <2>3. i \in DOMAIN names /\ Is(i)
    BY <2>1, <2>2
  <2> DEFINE k == CHOOSE k \in DOMAIN names : Is(k)
  <2>4. LogRows!FirstOf(names) = names[k]
    BY <1>2 DEF LogRows!FirstOf
  <2>5. k \in DOMAIN names /\ Is(k)
    BY <2>3
  <2> HIDE DEF k
  <2> QED BY <2>4, <2>5
<1> QED BY <1>1, <1>2

\* The keys a name may be taken from: those of the type, and those that any type has.
Asks(type) ==
  CASE type = "project" -> {"project_name", "name"}
    [] type = "workspace" -> {"workspace_name"}
    [] type \in {"user", "membership"} -> {"target_display_name", "display_name", "target_username", "username"}
    [] type = "ingress" -> {"domain"}
    [] type = "node" -> {"node", "name"}
    [] type = "tls_cert" -> {"names", "name"}
    [] type = "ingress_domain_zone" -> {"suffix", "display_name", "name"}
    [] type = "docker_registry" -> {"name", "server"}
    [] OTHER -> {}
Others == {"project_name", "workspace_name", "name", "domain", "suffix", "server"}

Tuples(keys, set) == DOMAIN keys \subseteq Nat /\ \A i \in DOMAIN keys : keys[i] \in set

LEMMA KeysAsked ==
  ASSUME NEW type
  PROVE  /\ Tuples(LogRows!MetaKeys(type), IF Asks(type) = {} THEN Others ELSE Asks(type))
         /\ Tuples(LogRows!StableKeys(type), Asks(type))
         /\ Tuples(LogRows!OwnKeys(type), Asks(type))
         /\ Tuples(LogRows!OtherKeys(type), IF type = "workspace" THEN {} ELSE Others)
<1> USE DEF Tuples, Asks, Others, LogRows!MetaKeys,
           LogRows!StableKeys, LogRows!OwnKeys, LogRows!OtherKeys
<1>1. CASE type = "project"
  BY <1>1
<1>2. CASE type = "workspace"
  BY <1>2
<1>3. CASE type = "user"
  BY <1>3
<1>4. CASE type = "membership"
  BY <1>4
<1>5. CASE type = "ingress"
  BY <1>5
<1>6. CASE type = "node"
  BY <1>6
<1>7. CASE type = "tls_cert"
  BY <1>7
<1>8. CASE type = "ingress_domain_zone"
  BY <1>8
<1>9. CASE type = "docker_registry"
  BY <1>9
<1>10. CASE type \notin {"project", "workspace", "user", "membership", "ingress", "node", "tls_cert", "ingress_domain_zone",
                        "docker_registry"}
  BY <1>10
<1> HIDE DEF Tuples, Asks, Others, LogRows!MetaKeys,
            LogRows!StableKeys, LogRows!OwnKeys, LogRows!OtherKeys
<1> QED BY <1>1, <1>2, <1>3, <1>4, <1>5, <1>6, <1>7, <1>8, <1>9, <1>10

\* What the keys of a row name: the keys its type asks for name what it is about, and
\* so do those any type has, if they are asked for and the row has no name of its own.
Told(type, about, keys) ==
  /\ about \in LogRows!Things \cup {"by"}
  /\ type \in LogRows!Listed => about = type
  /\ \A k \in DOMAIN keys \cap Asks(type) : keys[k] = about
  /\ \/ type = "workspace"
     \/ type = "membership" /\ "target_username" \in DOMAIN keys
     \/ \A k \in DOMAIN keys \cap Others : keys[k] = about
  /\ \A k \in DOMAIN keys : keys[k] \in LogRows!Things \cup {"by"}

IsKind(s) ==
  /\ s = [action |-> s.action, type |-> s.type, about |-> s.about, keys |-> s.keys, more |-> s.more]
  /\ Told(s.type, s.about, s.keys)

LEMMA KindOf ==
  ASSUME NEW action, NEW type, NEW about, NEW keys, NEW more, Told(type, about, keys)
  PROVE  IsKind(LogRows!Site(action, type, about, keys, more))
BY DEF IsKind, LogRows!Site

LEMMA SitesTold == \A s \in LogRows!Sites : IsKind(s)
<1> USE DEF Told, Asks, Others, LogRows!Listed, LogRows!Things, LogRows!People
<1>1. ASSUME NEW type, NEW about \in LogRows!Things \cup {"by"}, type \in LogRows!Listed => about = type
      PROVE  Told(type, about, LogRows!NoKeys)
  <2>1. DOMAIN LogRows!NoKeys = {}
    BY DEF LogRows!NoKeys
  <2> HIDE DEF Asks, Others, LogRows!Listed, LogRows!Things, LogRows!People
  <2> QED BY <1>1, <2>1 DEF Told
<1>2. ASSUME NEW who \in {"user", "by"}
      PROVE  Told("membership", who, LogRows!OnMember(who))
  <2>1. DOMAIN LogRows!OnMember(who) = {"target_username", "target_display_name", "project_name"}
    BY DEF LogRows!OnMember
  <2> QED BY <2>1 DEF LogRows!OnMember
<1>3. Told("user", "by", LogRows!Self)
  <2>1. DOMAIN LogRows!Self = {"username", "display_name"}
    BY DEF LogRows!Self
  <2> QED BY <2>1 DEF LogRows!Self
<1>4. Told("user", "user", [username |-> "user"])
  <2>1. DOMAIN [username |-> "user"] = {"username"}
    OBVIOUS
  <2> QED BY <2>1
<1>5. Told("project", "project", LogRows!OnProject)
  <2>1. DOMAIN LogRows!OnProject = {"project_name"}
    BY DEF LogRows!OnProject
  <2> QED BY <2>1 DEF LogRows!OnProject
<1>6. Told("workspace", "workspace", LogRows!OnWorkspace)
  <2>1. DOMAIN LogRows!OnWorkspace = {"workspace_name"}
    BY DEF LogRows!OnWorkspace
  <2> QED BY <2>1 DEF LogRows!OnWorkspace
<1>7. Told("workspace", "workspace", [workspace_name |-> "workspace", node |-> "node"])
  <2>1. DOMAIN [workspace_name |-> "workspace", node |-> "node"] = {"workspace_name", "node"}
    OBVIOUS
  <2> QED BY <2>1
<1>8. Told("workspace", "workspace", [workspace_name |-> "workspace", name |-> "object"])
  <2>1. DOMAIN [workspace_name |-> "workspace", name |-> "object"] = {"workspace_name", "name"}
    OBVIOUS
  <2> QED BY <2>1
<1>9. Told("workspace", "workspace", [workspace_name |-> "workspace", node |-> "node", username |-> "by"])
  <2>1. DOMAIN [workspace_name |-> "workspace", node |-> "node", username |-> "by"] = {"workspace_name", "node", "username"}
    OBVIOUS
  <2> QED BY <2>1
<1>10. Told("workspace", "workspace", LogRows!Self)
  <2>1. DOMAIN LogRows!Self = {"username", "display_name"}
    BY DEF LogRows!Self
  <2> QED BY <2>1 DEF LogRows!Self
<1>11. Told("workspace", "workspace", [workspace_name |-> "workspace", username |-> "by"])
  <2>1. DOMAIN [workspace_name |-> "workspace", username |-> "by"] = {"workspace_name", "username"}
    OBVIOUS
  <2> QED BY <2>1
<1>12. Told("ingress", "ingress", [domain |-> "ingress"])
  <2>1. DOMAIN [domain |-> "ingress"] = {"domain"}
    OBVIOUS
  <2> QED BY <2>1
<1>13. Told("ingress_domain_zone", "ingress_domain_zone", [suffix |-> "ingress_domain_zone"])
  <2>1. DOMAIN [suffix |-> "ingress_domain_zone"] = {"suffix"}
    OBVIOUS
  <2> QED BY <2>1
<1>14. Told("ingress_domain_zone", "ingress_domain_zone", [suffix |-> "ingress_domain_zone", display_name |-> "ingress_domain_zone"])
  <2>1. DOMAIN [suffix |-> "ingress_domain_zone", display_name |-> "ingress_domain_zone"] = {"suffix", "display_name"}
    OBVIOUS
  <2> QED BY <2>1
<1>15. Told("tls_cert", "tls_cert", [name |-> "tls_cert", names |-> "tls_cert"])
  <2>1. DOMAIN [name |-> "tls_cert", names |-> "tls_cert"] = {"name", "names"}
    OBVIOUS
  <2> QED BY <2>1
<1>16. Told("docker_registry", "docker_registry", [name |-> "docker_registry", server |-> "docker_registry"])
  <2>1. DOMAIN [name |-> "docker_registry", server |-> "docker_registry"] = {"name", "server"}
    OBVIOUS
  <2> QED BY <2>1
<1> HIDE DEF Told, Asks, Others
<1>17. \A s \in LogRows!PeopleSites : IsKind(s)
  BY <1>1, <1>3, <1>4, KindOf DEF LogRows!PeopleSites
<1>18. \A s \in LogRows!AccessSites : IsKind(s)
  BY <1>2, KindOf DEF LogRows!AccessSites
<1>19. \A s \in LogRows!ProjectSites : IsKind(s)
  BY <1>5, KindOf DEF LogRows!ProjectSites
<1>20. \A s \in LogRows!WorkspaceSites : IsKind(s)
  BY <1>1, <1>6, <1>7, <1>8, <1>9, <1>10, <1>11, KindOf DEF LogRows!WorkspaceSites, LogRows!Machines
<1>21. \A s \in LogRows!PlatformSites : IsKind(s)
  BY <1>1, <1>12, <1>13, <1>14, <1>15, <1>16, KindOf DEF LogRows!PlatformSites
<1> QED BY <1>17, <1>18, <1>19, <1>20, <1>21 DEF LogRows!Sites, LogRows!PlainSites

\* A name that is none, or what the thing itself is or was called.
CallsIt(name, about) == name = LogRows!None \/ name.of = about

\* Access as it is stored: only who is granted it is granted a way to use it.
Stored == {m \in LogRows!Accesses : m.access # "granted" => m.mode = "read_write"}

\* A row of the log: the names under the keys of its type are those of what it is about,
\* and so are those under the keys of any type, if they are asked for and the row has no
\* name of its own; a change of access is one between two that are stored.
RowOK(row) ==
  /\ row = [n |-> row.n, action |-> row.action, type |-> row.type, about |-> row.about, by |-> row.by,
            more |-> row.more, meta |-> row.meta, from |-> row.from, to |-> row.to, shown |-> row.shown]
  /\ row.n \in Nat
  /\ row.type \in LogRows!Listed => row.about = row.type
  /\ \A k \in Asks(row.type) : CallsIt(row.meta[k], row.about)
  /\ \/ row.type = "workspace"
     \/ row.type = "membership" /\ row.meta["target_username"] # LogRows!None
     \/ \A k \in Others : CallsIt(row.meta[k], row.about)
  /\ CallsIt(row.shown, row.about)
  /\ \/ row.from = row.to /\ row.to = LogRows!Unread
     \/ row.from \in Stored /\ row.to \in Stored

RowsOK(rows) == \E set : rows \in Seq(set) /\ \A row \in set : RowOK(row)
NewestFirst(rows) == \A i, j \in DOMAIN rows : i < j => rows[j].n < rows[i].n

LogOK(s) ==
  /\ s = [names |-> s.names, gone |-> s.gone, member |-> s.member, log |-> s.log]
  /\ s.member \in [LogRows!People -> Stored]
  /\ RowsOK(s.log)
  /\ \A k \in DOMAIN s.log : s.log[k].n = k

ListsOK(u, store) ==
  /\ u = [logs |-> u.logs, live |-> u.live, left |-> u.left]
  /\ u.live = [t \in LogRows!Listed |-> u.live[t]]
  /\ \A t \in LogRows!Listed : CallsIt(u.live[t], t)
  /\ RowsOK(u.logs) /\ (store = "postgres" => NewestFirst(u.logs))

LogCalls == {"log", "workspace", "project"}
AnswersOK(k, store) ==
  /\ k = [c \in LogCalls |-> k[c]] /\ \A c \in LogCalls : k[c] = [st |-> k[c].st, data |-> k[c].data]
  /\ \A t \in LogRows!Listed : CallsIt(k[t].data, t)
  /\ RowsOK(k["log"].data) /\ (store = "postgres" => NewestFirst(k["log"].data))

RowsInv == LogOK(server) /\ ListsOK(ui, cast.store) /\ AnswersOK(calls, cast.store) /\ cast \in Casts["rows"]

LEMMA RowsPrimed ==
  ASSUME LogOK(server'), ListsOK(ui', cast'.store), AnswersOK(calls', cast'.store), cast' \in Casts["rows"]
  PROVE  RowsInv'
BY DEF RowsInv, LogOK, ListsOK, AnswersOK

LEMMA NoRows == RowsOK(<<>>) /\ NewestFirst(<<>>)
<1>1. RowsOK(<<>>)
  <2>1. <<>> \in Seq({})
    OBVIOUS
  <2>2. \A row \in {} : RowOK(row)
    OBVIOUS
  <2> DEFINE rows == <<>>
             none == {}
  <2>3. rows \in Seq(none) /\ \A row \in none : RowOK(row)
    BY <2>1, <2>2
  <2> HIDE DEF rows, none
  <2>4. RowsOK(rows)
    BY <2>3 DEF RowsOK
  <2> QED BY <2>4 DEF rows
<1>2. NewestFirst(<<>>)
  BY DEF NewestFirst
<1> QED BY <1>1, <1>2

LEMMA RowsStart ==
  ASSUME LogRows!Init
  PROVE  RowsInv
<1>1. LogOK(server)
  <2>1. LogRows!Outside \in Stored
    BY DEF LogRows!Outside, Stored, LogRows!Accesses
  <2>2. server.member \in [LogRows!People -> Stored] /\ server.log = <<>>
    BY <2>1 DEF LogRows!Init
  <2>3. server = [names |-> server.names, gone |-> server.gone, member |-> server.member, log |-> server.log]
    BY DEF LogRows!Init
  <2> QED BY <2>2, <2>3, NoRows DEF LogOK
<1>2. ListsOK(ui, cast.store)
  <2>1. ui.logs = <<>> /\ ui.live = [t \in LogRows!Listed |-> LogRows!None]
    BY DEF LogRows!Init
  <2>2. ui = [logs |-> ui.logs, live |-> ui.live, left |-> ui.left]
    BY DEF LogRows!Init
  <2> QED BY <2>1, <2>2, NoRows DEF ListsOK, CallsIt
<1>3. AnswersOK(calls, cast.store)
  <2>1. calls["log"] = [st |-> "sent", data |-> <<>>]
        /\ \A t \in LogRows!Listed : calls[t] = [st |-> "sent", data |-> LogRows!None]
    BY DEF LogRows!Init, LogRows!Sent, LogRows!Listed
  <2>2. calls = [c \in LogCalls |-> calls[c]]
    BY DEF LogRows!Init, LogCalls
  <2>3. \A c \in LogCalls : calls[c] = [st |-> calls[c].st, data |-> calls[c].data]
    BY <2>1 DEF LogCalls, LogRows!Listed
  <2> QED BY <2>1, <2>2, <2>3, NoRows DEF AnswersOK, CallsIt
<1> QED BY <1>1, <1>2, <1>3 DEF RowsInv, LogRows!Init

(* What is written *)

LEMMA WrittenCalls ==
  ASSUME NEW names, NEW key, NEW t
  PROVE  CallsIt(LogRows!Written(names, key, t), t)
BY DEF CallsIt, LogRows!Written, LogRows!Display, LogRows!Name

Changes(from, to) == (from = to /\ to = LogRows!Unread) \/ {from, to} \subseteq Stored

LEMMA RowWritten ==
  ASSUME NEW s, IsKind(s), NEW n \in Nat, NEW p \in LogRows!People, NEW names, NEW from, NEW to, Changes(from, to)
  PROVE  RowOK(LogRows!Row(s, n, p, names, from, to)) /\ LogRows!Row(s, n, p, names, from, to).n = n
<1> DEFINE row == LogRows!Row(s, n, p, names, from, to)
           who == LogRows!Who(s.about, p)
           Said(k) == IF k \in DOMAIN s.keys THEN LogRows!Written(names, k, LogRows!Who(s.keys[k], p)) ELSE LogRows!None
<1>0. row = [n |-> row.n, action |-> row.action, type |-> row.type, about |-> row.about, by |-> row.by,
             more |-> row.more, meta |-> row.meta, from |-> row.from, to |-> row.to, shown |-> row.shown]
  BY DEF LogRows!Row
<1>1. /\ row.n = n /\ row.type = s.type /\ row.about = who /\ row.shown = LogRows!None
      /\ row.from = from /\ row.to = to /\ row.meta = [k \in LogRows!Keys |-> Said(k)]
  BY DEF LogRows!Row
<1>2. Told(s.type, s.about, s.keys)
  BY DEF IsKind
<1>3. ASSUME NEW k, k \in DOMAIN s.keys => s.keys[k] = s.about
      PROVE  CallsIt(Said(k), who)
  BY <1>3, WrittenCalls DEF CallsIt
<1>4. \A k \in Asks(s.type) \cup Others : k \in LogRows!Keys
  BY DEF Asks, Others, LogRows!Keys
<1>5. \A k \in LogRows!Keys : row.meta[k] = Said(k)
  BY <1>1
<1> HIDE DEF row, who, Said
<1>6. \A k \in Asks(row.type) : CallsIt(row.meta[k], row.about)
  BY <1>1, <1>2, <1>3, <1>4, <1>5 DEF Told
<1>7. row.type \in LogRows!Listed => row.about = row.type
  BY <1>1, <1>2 DEF Told, LogRows!Listed, LogRows!Who, who
<1>8. ASSUME s.type = "membership", "target_username" \in DOMAIN s.keys
      PROVE  row.meta["target_username"] # LogRows!None
  <2> DEFINE t == LogRows!Who(s.keys["target_username"], p)
  <2>1. t # "none"
    BY <1>2, <1>8 DEF Told, LogRows!Who, LogRows!Things, LogRows!People
  <2>2. Said("target_username") = LogRows!Name(t, 0)
    BY <1>8 DEF Said, LogRows!Written
  <2>3. row.meta["target_username"] = Said("target_username")
    BY <1>5 DEF LogRows!Keys
  <2> QED BY <2>1, <2>2, <2>3 DEF LogRows!None, LogRows!Name
<1>9. \/ row.type = "workspace"
      \/ row.type = "membership" /\ row.meta["target_username"] # LogRows!None
      \/ \A k \in Others : CallsIt(row.meta[k], row.about)
  BY <1>1, <1>2, <1>3, <1>4, <1>5, <1>8 DEF Told
<1>10. CallsIt(row.shown, row.about)
  BY <1>1 DEF CallsIt
<1>11. RowOK(row) /\ row.n = n
  BY <1>0, <1>1, <1>6, <1>7, <1>9, <1>10 DEF RowOK, Changes
<1> QED BY <1>11 DEF row

LEMMA AnyMore ==
  ASSUME NEW s, IsKind(s), NEW more
  PROVE  /\ IsKind([s EXCEPT !.more = more])
         /\ [s EXCEPT !.more = more].about = s.about /\ [s EXCEPT !.more = more].action = s.action
<1> DEFINE r == [s EXCEPT !.more = more]
<1>1. r = [action |-> s.action, type |-> s.type, about |-> s.about, keys |-> s.keys, more |-> more]
  BY DEF IsKind
<1>2. r.type = s.type /\ r.about = s.about /\ r.keys = s.keys /\ r.action = s.action /\ r.more = more
  BY <1>1
<1> HIDE DEF r
<1>3. IsKind(r)
  BY <1>1, <1>2 DEF IsKind
<1> QED BY <1>2, <1>3 DEF r

LEMMA RowAdded ==
  ASSUME NEW log, RowsOK(log), \A k \in DOMAIN log : log[k].n = k, NEW row, RowOK(row), row.n = Len(log) + 1
  PROVE  RowsOK(Append(log, row)) /\ \A k \in DOMAIN Append(log, row) : Append(log, row)[k].n = k
<1>1. PICK set : log \in Seq(set) /\ \A r \in set : RowOK(r)
  BY DEF RowsOK
<1>2. log \in Seq(set \cup {row})
  BY <1>1
<1>3. /\ Append(log, row) \in Seq(set \cup {row})
      /\ Len(Append(log, row)) = Len(log) + 1
      /\ \A k \in 1..Len(log) : Append(log, row)[k] = log[k]
      /\ Append(log, row)[Len(log) + 1] = row
  BY <1>2
<1>4. DOMAIN log = 1..Len(log) /\ DOMAIN Append(log, row) = 1..(Len(log) + 1) /\ Len(log) \in Nat
  BY <1>2, <1>3
<1>5. RowsOK(Append(log, row))
  BY <1>1, <1>3 DEF RowsOK
<1>6. ASSUME NEW k \in DOMAIN Append(log, row)
      PROVE  Append(log, row)[k].n = k
  <2>1. CASE k \in 1..Len(log)
    BY <2>1, <1>3, <1>4
  <2>2. CASE k = Len(log) + 1
    BY <2>2, <1>3
  <2> QED BY <2>1, <2>2, <1>4
<1> QED BY <1>5, <1>6

LEMMA LogWritten ==
  ASSUME LogOK(server), NEW s, IsKind(s), NEW p \in LogRows!People, NEW names, NEW from, NEW to, Changes(from, to)
  PROVE  /\ RowsOK(LogRows!Put(s, p, names, from, to))
         /\ \A k \in DOMAIN LogRows!Put(s, p, names, from, to) : LogRows!Put(s, p, names, from, to)[k].n = k
<1>1. PICK set : server.log \in Seq(set)
  BY DEF LogOK, RowsOK
<1>2. Len(server.log) + 1 \in Nat
  BY <1>1
<1> DEFINE row == LogRows!Row(s, Len(server.log) + 1, p, names, from, to)
<1>3. RowOK(row) /\ row.n = Len(server.log) + 1
  BY <1>2, RowWritten
<1>4. LogRows!Put(s, p, names, from, to) = Append(server.log, row)
  BY DEF LogRows!Put
<1> HIDE DEF row
<1> QED BY <1>3, <1>4, RowAdded DEF LogOK

LEMMA LogGrows ==
  ASSUME LogOK(server), NEW s, IsKind(s), NEW p \in LogRows!People, NEW names, NEW gone, NEW from, NEW to,
         NEW member \in [LogRows!People -> Stored], Changes(from, to),
         server' = [names |-> names, gone |-> gone, member |-> member, log |-> LogRows!Put(s, p, names, from, to)]
  PROVE  LogOK(server')
BY LogWritten DEF LogOK

\* A step that leaves the calls alone and the page, but for its budget.
LEMMA PageStays ==
  ASSUME RowsInv, LogOK(server'), ui' = LogRows!Step(ui), calls' = calls, cast' = cast
  PROVE  RowsInv'
<1>1. ListsOK(ui, cast.store) /\ AnswersOK(calls, cast.store) /\ cast \in Casts["rows"]
  BY DEF RowsInv
<1>2. ui' = [logs |-> ui.logs, live |-> ui.live, left |-> ui.left - 1]
  BY <1>1 DEF ListsOK, LogRows!Step
<1>3. ui'.logs = ui.logs /\ ui'.live = ui.live
      /\ ui' = [logs |-> ui'.logs, live |-> ui'.live, left |-> ui'.left]
  BY <1>2
<1>4. ListsOK(ui', cast'.store)
  BY <1>1, <1>3 DEF ListsOK
<1> QED BY <1>1, <1>4, RowsPrimed

LEMMA WriteStep ==
  ASSUME RowsInv, NEW p \in cast.who, NEW s \in LogRows!PlainSites, LogRows!Write(s, p)
  PROVE  RowsInv'
<1>1. LogOK(server) /\ p \in LogRows!People
  BY RowsAssumption DEF RowsInv, LogRows!People
<1>2. PICK names \in {server.names} \cup (IF s.action \in LogRows!Renames THEN {LogRows!Renamed(s.about)} ELSE {}),
           member \in LogRows!Left(s, p) :
        server' = [server EXCEPT !.names = names, !.gone = @ \cup LogRows!Removed(s), !.member = member,
                                 !.log = LogRows!Put(s, p, names, LogRows!Unread, LogRows!Unread)]
  BY DEF LogRows!Write
<1>3. member \in [LogRows!People -> Stored]
  <2>1. LogRows!Outside \in Stored
    BY DEF LogRows!Outside, Stored, LogRows!Accesses
  <2> QED BY <1>1, <2>1 DEF LogRows!Left, LogOK
<1>4. server' = [names |-> names, gone |-> server.gone \cup LogRows!Removed(s), member |-> member,
                 log |-> LogRows!Put(s, p, names, LogRows!Unread, LogRows!Unread)]
  <2>1. server = [names |-> server.names, gone |-> server.gone, member |-> server.member, log |-> server.log]
    BY <1>1 DEF LogOK
  <2> HIDE DEF LogOK
  <2> QED BY <1>2, <2>1
<1>5. IsKind(s)
  BY SitesTold DEF LogRows!Sites
<1>7. Changes(LogRows!Unread, LogRows!Unread)
  BY DEF Changes
<1>6. LogOK(server')
  BY <1>1, <1>3, <1>4, <1>5, <1>7, LogGrows
<1> QED BY <1>6, PageStays DEF LogRows!Write

LEMMA ChangeStep ==
  ASSUME RowsInv, NEW p \in LogRows!People, NEW s, IsKind(s), LogRows!Who(s.about, p) \in LogRows!People,
         NEW to \in Stored, LogRows!ChangeAccess(s, p, to)
  PROVE  RowsInv'
<1> DEFINE who == LogRows!Who(s.about, p)
           put == LogRows!Put(s, p, server.names, server.member[who], to)
<1>1. LogOK(server)
  BY DEF RowsInv
<1>2. server' = [server EXCEPT !.member[who] = to, !.log = put]
  BY DEF LogRows!ChangeAccess
<1>3. server = [names |-> server.names, gone |-> server.gone, member |-> server.member, log |-> server.log]
  BY <1>1 DEF LogOK
<1>4. server' = [names |-> server.names, gone |-> server.gone, member |-> [server.member EXCEPT ![who] = to], log |-> put]
  <2> HIDE DEF who, put
  <2> QED BY <1>2, <1>3
<1>5. server.member[who] \in Stored /\ [server.member EXCEPT ![who] = to] \in [LogRows!People -> Stored]
  BY <1>1 DEF LogOK
<1>6. Changes(server.member[who], to)
  BY <1>5 DEF Changes
<1> HIDE DEF who
<1>7. LogOK(server')
  BY <1>1, <1>4, <1>5, <1>6, LogGrows
<1> QED BY <1>7, PageStays DEF LogRows!ChangeAccess

\* Access is changed for a person.
LEMMA ChangesPeople == \A s \in LogRows!AccessSites : IsKind(s) /\ s.about \in {"user", "by"}
BY SitesTold DEF LogRows!Sites, LogRows!AccessSites, LogRows!Site

LEMMA AccessStep ==
  ASSUME RowsInv, NEW p \in cast.who, NEW s \in LogRows!AccessSites,
         \/ LogRows!ApproveSSHAccess(s, p)
         \/ LogRows!RequestSSHAccess(s, p)
         \/ \E given \in LogRows!Accesses : LogRows!PatchMember(s, p, given)
  PROVE  RowsInv'
<1>1. p \in LogRows!People /\ server.member \in [LogRows!People -> Stored]
  BY RowsAssumption DEF RowsInv, LogOK, LogRows!People
<1>2. IsKind(s) /\ s.about \in {"user", "by"} /\ LogRows!Who(s.about, p) \in LogRows!People
  BY <1>1, ChangesPeople DEF LogRows!Who, LogRows!People
<1>3. CASE LogRows!ApproveSSHAccess(s, p)
  <2> DEFINE to == [server.member[s.about] EXCEPT !.access = "granted"]
  <2>1. s.about = "user"
    BY <1>3, <1>2 DEF LogRows!ApproveSSHAccess, LogRows!AccessSites, LogRows!Site
  <2>2. server.member["user"] \in Stored
    BY <1>1 DEF LogRows!People
  <2>3. to \in Stored
    BY <2>1, <2>2 DEF Stored, LogRows!Accesses
  <2> HIDE DEF to
  <2>4. LogRows!ChangeAccess(s, p, to)
    BY <1>3 DEF LogRows!ApproveSSHAccess, to
  <2> QED BY <1>1, <1>2, <2>3, <2>4, ChangeStep
<1>4. CASE LogRows!RequestSSHAccess(s, p)
  <2> DEFINE to == LogRows!Normalize([server.member[p] EXCEPT !.access = "pending"])
  <2>1. server.member[p] \in Stored
    BY <1>1
  <2>2. to \in Stored
    BY <2>1 DEF Stored, LogRows!Accesses, LogRows!Normalize
  <2> HIDE DEF to
  <2>3. LogRows!ChangeAccess(s, p, to)
    BY <1>4 DEF LogRows!RequestSSHAccess, to
  <2> QED BY <1>1, <1>2, <2>2, <2>3, ChangeStep
<1>5. ASSUME NEW given \in LogRows!Accesses, LogRows!PatchMember(s, p, given)
      PROVE  RowsInv'
  <2>1. PICK more : LogRows!ChangeAccess([s EXCEPT !.more = more], p, LogRows!Normalize(given))
    BY <1>5 DEF LogRows!PatchMember
  <2>2. LogRows!Normalize(given) \in Stored
    BY DEF Stored, LogRows!Accesses, LogRows!Normalize
  <2> DEFINE r == [s EXCEPT !.more = more]
  <2>3. IsKind(r) /\ r.about = s.about
    BY <1>2, AnyMore
  <2> HIDE DEF r
  <2>4. LogRows!ChangeAccess(r, p, LogRows!Normalize(given))
    BY <2>1 DEF r
  <2> QED BY <1>1, <1>2, <2>2, <2>3, <2>4, ChangeStep
<1> QED BY <1>3, <1>4, <1>5

(* What is read *)

LEMMA CalledCalls ==
  ASSUME NEW type, NEW about
  PROVE  CallsIt(LogRows!CalledNow(type, about), about)
BY DEF CallsIt, LogRows!CalledNow, LogRows!Visible, LogRows!Display, LogRows!Name

\* What the keys of the type say, or any key's if the type asks for none.
LEMMA SaysItself ==
  ASSUME NEW row, RowOK(row), NEW keys,
         Tuples(keys, IF Asks(row.type) = {} THEN Others ELSE Asks(row.type))
  PROVE  CallsIt(LogRows!First(row.meta, keys), row.about)
<1>1. \A k \in Asks(row.type) : CallsIt(row.meta[k], row.about)
  BY DEF RowOK
<1>2. Asks(row.type) = {} => \A k \in Others : CallsIt(row.meta[k], row.about)
  <2>1. Asks("workspace") # {} /\ Asks("membership") # {}
    BY DEF Asks
  <2> QED BY <2>1 DEF RowOK
<1>3. \A i \in DOMAIN keys : CallsIt(row.meta[keys[i]], row.about)
  BY <1>1, <1>2 DEF Tuples
<1> QED BY <1>3, FirstSaid DEF CallsIt, Tuples

LEMMA DecoratedOK ==
  ASSUME NEW row, RowOK(row)
  PROVE  RowOK(LogRows!Decorated(row)) /\ LogRows!Decorated(row).n = row.n
<1> DEFINE name == LogRows!ResourceName(row)
           r == LogRows!Decorated(row)
<1>1. CallsIt(LogRows!First(row.meta, LogRows!MetaKeys(row.type)), row.about)
  BY KeysAsked, SaysItself
<1>2. CallsIt(name, row.about)
  BY <1>1, CalledCalls DEF LogRows!ResourceName
<1>3. row = [n |-> row.n, action |-> row.action, type |-> row.type, about |-> row.about, by |-> row.by,
             more |-> row.more, meta |-> row.meta, from |-> row.from, to |-> row.to, shown |-> row.shown]
  BY DEF RowOK
<1> HIDE DEF name
<1>4. r = [row EXCEPT !.shown = name]
  BY DEF LogRows!Decorated, name
<1>5. r = [n |-> row.n, action |-> row.action, type |-> row.type, about |-> row.about, by |-> row.by,
           more |-> row.more, meta |-> row.meta, from |-> row.from, to |-> row.to, shown |-> name]
  <2> HIDE DEF r
  <2> QED BY <1>3, <1>4
<1> HIDE DEF r
<1>6. /\ r.n = row.n /\ r.type = row.type /\ r.about = row.about /\ r.meta = row.meta
      /\ r.from = row.from /\ r.to = row.to /\ r.shown = name
      /\ r.action = row.action /\ r.by = row.by /\ r.more = row.more
  BY <1>5
<1>7. RowOK(r)
  BY <1>2, <1>5, <1>6 DEF RowOK
<1> QED BY <1>6, <1>7 DEF r

LEMMA LogRead ==
  ASSUME RowsInv
  PROVE  RowsOK(LogRows!ListAudit) /\ (cast.store = "postgres" => NewestFirst(LogRows!ListAudit))
<1> DEFINE log == server.log
           len == Len(log)
           n == IF cast.limit < len THEN cast.limit ELSE len
           Idx(i) == IF cast.store = "memory" THEN len - n + i ELSE len + 1 - i
           rows == [i \in 1..n |-> LogRows!Decorated(log[Idx(i)])]
<1>1. PICK set : log \in Seq(set) /\ \A r \in set : RowOK(r)
  BY DEF RowsInv, LogOK, RowsOK
<1>2. cast.limit \in Nat
  BY RowsAssumption DEF RowsInv
<1>3. len \in Nat /\ DOMAIN log = 1..len /\ \A k \in 1..len : log[k] \in set /\ log[k].n = k
  BY <1>1 DEF RowsInv, LogOK
<1>4. rows = LogRows!ListAudit
  BY DEF LogRows!ListAudit
<1> HIDE DEF log, len
<1>5. n \in Nat /\ n <= len
  BY <1>2, <1>3
<1>6. \A i \in 1..n : Idx(i) \in 1..len
  <2> HIDE DEF n
  <2> QED BY <1>3, <1>5
<1> DEFINE set2 == {LogRows!Decorated(r) : r \in set}
<1>7. \A i \in 1..n : rows[i] \in set2 /\ RowOK(rows[i]) /\ rows[i].n = Idx(i)
  <2> HIDE DEF n, Idx
  <2> QED BY <1>1, <1>3, <1>6, DecoratedOK
<1>8. \A r \in set2 : RowOK(r)
  BY <1>1, DecoratedOK
<1>9. RowsOK(rows)
  <2>1. rows \in [1..n -> set2]
    BY <1>7
  <2>2. rows \in Seq(set2)
    <3> HIDE DEF n, rows, set2
    <3> QED BY <1>5, <2>1
  <2> HIDE DEF rows, set2
  <2> QED BY <1>8, <2>2 DEF RowsOK
<1>10. ASSUME cast.store = "postgres"
       PROVE  NewestFirst(rows)
  <2>1. \A i \in 1..n : rows[i].n = len + 1 - i
    BY <1>7, <1>10
  <2>2. DOMAIN rows = 1..n
    OBVIOUS
  <2> HIDE DEF rows, n
  <2> QED BY <1>3, <1>5, <2>1, <2>2 DEF NewestFirst
<1> QED BY <1>4, <1>9, <1>10

LEMMA RowsServedStep ==
  ASSUME RowsInv, NEW c \in LogCalls, LogRows!Serve(c)
  PROVE  RowsInv'
<1> DEFINE data == IF c = "log" THEN LogRows!ListAudit
                   ELSE IF c \in cast.sees THEN LogRows!CalledNow(c, c) ELSE LogRows!None
<1>1. calls' = [calls EXCEPT ![c] = [st |-> "ok", data |-> data]]
  BY DEF LogRows!Serve
<1>2. AnswersOK(calls, cast.store)
  BY DEF RowsInv
<1>3. calls' = [d \in LogCalls |-> IF d = c THEN [st |-> "ok", data |-> data] ELSE calls[d]]
  <2> HIDE DEF data
  <2> QED BY <1>1, <1>2 DEF AnswersOK
<1>4. c = "log" => RowsOK(data) /\ (cast.store = "postgres" => NewestFirst(data))
  BY LogRead
<1>5. c # "log" => CallsIt(data, c)
  BY CalledCalls DEF CallsIt
<1> HIDE DEF data
<1>6. AnswersOK(calls', cast.store)
  BY <1>2, <1>3, <1>4, <1>5 DEF AnswersOK, LogCalls, LogRows!Listed
<1> QED BY <1>6, RowsPrimed DEF RowsInv, LogRows!Serve

LEMMA AskedAgainStep ==
  ASSUME RowsInv, NEW c \in LogCalls, LogRows!Lose(c) \/ LogRows!Refresh(c)
  PROVE  RowsInv'
<1>1. ListsOK(ui, cast.store) /\ AnswersOK(calls, cast.store)
  BY DEF RowsInv
<1>2. PICK st : calls' = [d \in LogCalls |-> IF d = c THEN [st |-> st, data |-> calls[d].data] ELSE calls[d]]
  <2>1. calls[c] = [st |-> calls[c].st, data |-> calls[c].data] /\ calls = [d \in LogCalls |-> calls[d]]
    BY <1>1 DEF AnswersOK
  <2>2. CASE LogRows!Lose(c)
    <3>1. calls' = [calls EXCEPT ![c].st = "lost"]
      BY <2>2 DEF LogRows!Lose
    <3>2. calls' = [d \in LogCalls |-> IF d = c THEN [st |-> "lost", data |-> calls[d].data] ELSE calls[d]]
      BY <2>1, <3>1
    <3> QED BY <3>2
  <2>3. CASE LogRows!Refresh(c)
    <3>1. calls' = [d \in LogCalls |-> IF d = c THEN [st |-> "sent", data |-> calls[d].data] ELSE calls[d]]
      BY <2>1, <2>3 DEF LogRows!Refresh, LogRows!Sent
    <3> QED BY <3>1
  <2> QED BY <2>2, <2>3
<1>3. AnswersOK(calls', cast.store)
  BY <1>1, <1>2 DEF AnswersOK, LogCalls, LogRows!Listed
<1>4. ui' = [logs |-> ui.logs, live |-> ui.live, left |-> ui.left - 1]
  BY <1>1 DEF ListsOK, LogRows!Step, LogRows!Lose, LogRows!Refresh
<1>5. ui'.logs = ui.logs /\ ui'.live = ui.live
      /\ ui' = [logs |-> ui'.logs, live |-> ui'.live, left |-> ui'.left]
  BY <1>4
<1>6. ListsOK(ui', cast.store)
  BY <1>1, <1>5 DEF ListsOK
<1> QED BY <1>3, <1>6, RowsPrimed DEF RowsInv, LogRows!Lose, LogRows!Refresh

LEMMA ReturnStep ==
  ASSUME RowsInv, NEW c \in LogCalls, LogRows!Return(c)
  PROVE  RowsInv'
<1>1. ListsOK(ui, cast.store) /\ AnswersOK(calls, cast.store)
  BY DEF RowsInv
<1> DEFINE none == IF c = "log" THEN <<>> ELSE LogRows!None
<1>2. calls' = [d \in LogCalls |-> IF d = c THEN [st |-> "idle", data |-> none] ELSE calls[d]]
  <2>1. calls' = [calls EXCEPT ![c] = [st |-> "idle", data |-> none]]
    BY DEF LogRows!Return, LogRows!Idle
  <2> HIDE DEF none
  <2> QED BY <1>1, <2>1 DEF AnswersOK
<1>3. (c = "log" => RowsOK(none) /\ NewestFirst(none)) /\ (c # "log" => CallsIt(none, c))
  BY NoRows DEF CallsIt
<1>4. AnswersOK(calls', cast.store)
  <2> HIDE DEF none
  <2> QED BY <1>1, <1>2, <1>3 DEF AnswersOK, LogCalls, LogRows!Listed
<1>5. ListsOK(ui', cast.store)
  <2>1. CASE ui' = ui
    BY <2>1, <1>1
  <2>2. CASE c = "log" /\ ui' = [ui EXCEPT !.logs = calls[c].data]
    <3>1. ui' = [logs |-> calls["log"].data, live |-> ui.live, left |-> ui.left]
      BY <2>2, <1>1 DEF ListsOK
    <3> QED BY <3>1, <1>1 DEF ListsOK, AnswersOK
  <2>3. CASE c # "log" /\ ui' = [ui EXCEPT !.live[c] = calls[c].data]
    <3> DEFINE live == [t \in LogRows!Listed |-> IF t = c THEN calls[c].data ELSE ui.live[t]]
    <3>0. ui.live = [t \in LogRows!Listed |-> ui.live[t]]
      BY <1>1 DEF ListsOK
    <3>1. [ui.live EXCEPT ![c] = calls[c].data] = live
      BY <3>0
    <3>2. ui' = [logs |-> ui.logs, live |-> live, left |-> ui.left]
      <4>1. ui' = [ui EXCEPT !.live = live]
        BY <2>3, <3>1
      <4>2. ui = [logs |-> ui.logs, live |-> ui.live, left |-> ui.left]
        BY <1>1 DEF ListsOK
      <4> HIDE DEF live
      <4> QED BY <4>1, <4>2
    <3>3. \A t \in LogRows!Listed : CallsIt(live[t], t)
      BY <1>1 DEF ListsOK, AnswersOK
    <3> HIDE DEF live
    <3>4. live = [t \in LogRows!Listed |-> live[t]]
      BY DEF live
    <3> QED BY <3>2, <3>3, <3>4, <1>1 DEF ListsOK
  <2> QED BY <2>1, <2>2, <2>3 DEF LogRows!Return
<1> QED BY <1>4, <1>5, RowsPrimed DEF RowsInv, LogRows!Return

LEMMA RenameStep ==
  ASSUME RowsInv, NEW t, LogRows!RenameQuietly(t)
  PROVE  RowsInv'
<1>1. LogOK(server)
  BY DEF RowsInv
<1>2. server = [names |-> server.names, gone |-> server.gone, member |-> server.member, log |-> server.log]
  BY <1>1 DEF LogOK
<1>3. server' = [names |-> LogRows!Renamed(t), gone |-> server.gone, member |-> server.member, log |-> server.log]
  BY <1>2 DEF LogRows!RenameQuietly
<1>4. LogOK(server')
  BY <1>1, <1>3 DEF LogOK
<1> QED BY <1>4, PageStays DEF LogRows!RenameQuietly

LEMMA RowsStep ==
  ASSUME RowsInv, [LogRows!Next]_(LogRows!vars)
  PROVE  RowsInv'
<1>1. CASE UNCHANGED LogRows!vars
  <2>1. server' = server /\ ui' = ui /\ calls' = calls /\ cast' = cast
    BY <1>1 DEF LogRows!vars
  <2> QED BY <2>1, RowsPrimed DEF RowsInv
<1>2. ASSUME NEW p \in cast.who, NEW s \in LogRows!PlainSites, LogRows!Write(s, p)
      PROVE  RowsInv'
  BY <1>2, WriteStep
<1>3. ASSUME NEW p \in cast.who, NEW s \in LogRows!AccessSites,
             \/ LogRows!ApproveSSHAccess(s, p)
             \/ LogRows!RequestSSHAccess(s, p)
             \/ \E given \in LogRows!Accesses : LogRows!PatchMember(s, p, given)
      PROVE  RowsInv'
  BY <1>3, AccessStep
<1>4. ASSUME NEW t \in LogRows!Things, LogRows!RenameQuietly(t)
      PROVE  RowsInv'
  BY <1>4, RenameStep
<1>5. ASSUME NEW c \in LogCalls, LogRows!Serve(c) \/ LogRows!Lose(c) \/ LogRows!Return(c) \/ LogRows!Refresh(c)
      PROVE  RowsInv'
  BY <1>5, RowsServedStep, AskedAgainStep, ReturnStep
<1> QED BY <1>1, <1>2, <1>3, <1>4, <1>5 DEF LogRows!Next, LogCalls

(* What is shown *)

LEMMA ShownRows ==
  ASSUME RowsInv
  PROVE  /\ DOMAIN ui.logs \subseteq Nat /\ IsFiniteSet(DOMAIN ui.logs)
         /\ \A i \in DOMAIN ui.logs : RowOK(LogRows!At(i)) /\ LogRows!At(i).n \in Nat
<1>1. PICK set : ui.logs \in Seq(set) /\ \A r \in set : RowOK(r)
  BY DEF RowsInv, ListsOK, RowsOK
<1>2. DOMAIN ui.logs = 1..Len(ui.logs) /\ Len(ui.logs) \in Nat
  BY <1>1
<1>3. \A i \in DOMAIN ui.logs : ui.logs[i] \in set
  BY <1>1
<1>4. IsFiniteSet(1..Len(ui.logs))
  BY <1>2, FS_Interval
<1> QED BY <1>1, <1>2, <1>3, <1>4 DEF LogRows!At, RowOK

LEMMA PreferredCalls ==
  ASSUME RowsInv, NEW row, RowOK(row)
  PROVE  CallsIt(LogRows!Preferred(row), row.about)
<1>1. \A t \in LogRows!Listed : CallsIt(ui.live[t], t)
  BY DEF RowsInv, ListsOK
<1>2. row.type \in LogRows!Listed => row.about = row.type
  BY DEF RowOK
<1>3. CallsIt(row.shown, row.about)
  BY DEF RowOK
<1>4. \/ LogRows!Preferred(row) \in {row.shown, LogRows!None}
      \/ row.type \in LogRows!Listed /\ LogRows!Preferred(row) = ui.live[row.type]
  BY DEF LogRows!Preferred
<1> QED BY <1>1, <1>2, <1>3, <1>4 DEF CallsIt

\* The keys of the type, if they say something, and those of any type otherwise.
LEMMA RowNamed ==
  ASSUME RowsInv, NEW row, RowOK(row)
  PROVE  LogRows!DisplayName(row).of \in {row.about, "id"}
<1> DEFINE First(keys) == LogRows!First(row.meta, keys)
           own == First(LogRows!OwnKeys(row.type))
           other == First(LogRows!OtherKeys(row.type))
           names == <<First(LogRows!StableKeys(row.type)), LogRows!Preferred(row), own, other>>
<1>1. ASSUME NEW keys, Tuples(keys, Asks(row.type))
      PROVE  CallsIt(First(keys), row.about)
  <2>1. \A i \in DOMAIN keys : CallsIt(row.meta[keys[i]], row.about)
    BY <1>1 DEF RowOK, Tuples
  <2> QED BY <1>1, <2>1, FirstSaid DEF CallsIt, Tuples
<1>2. CallsIt(names[1], row.about) /\ CallsIt(names[2], row.about) /\ CallsIt(names[3], row.about)
  BY <1>1, KeysAsked, PreferredCalls
<1>3. own = LogRows!None => CallsIt(other, row.about)
  <2>1. CASE row.type = "workspace"
    <3>1. DOMAIN LogRows!OtherKeys(row.type) = {}
      BY <2>1 DEF LogRows!OtherKeys
    <3> QED BY <3>1, FirstSaid DEF CallsIt
  <2>2. CASE row.type = "membership" /\ row.meta["target_username"] # LogRows!None
    <3>1. LogRows!OwnKeys(row.type) = <<"target_display_name", "display_name", "target_username", "username">>
      BY <2>2 DEF LogRows!OwnKeys
    <3>2. 3 \in DOMAIN LogRows!OwnKeys(row.type) /\ LogRows!OwnKeys(row.type)[3] = "target_username"
      BY <3>1
    <3>3. own # LogRows!None
      BY <2>2, <3>2, FirstSaid, KeysAsked DEF Tuples
    <3> QED BY <3>3
  <2>3. CASE row.type # "workspace" /\ \A k \in Others : CallsIt(row.meta[k], row.about)
    <3>1. Tuples(LogRows!OtherKeys(row.type), Others)
      BY <2>3, KeysAsked
    <3>2. \A i \in DOMAIN LogRows!OtherKeys(row.type) : CallsIt(row.meta[LogRows!OtherKeys(row.type)[i]], row.about)
      BY <2>3, <3>1 DEF Tuples
    <3> QED BY <3>1, <3>2, FirstSaid DEF CallsIt, Tuples
  <2> QED BY <2>1, <2>2, <2>3 DEF RowOK
<1>4. LogRows!DisplayName(row) = LogRows!FirstOf(names)
  BY DEF LogRows!DisplayName
<1>5. DOMAIN names = 1..4 /\ names[3] = own /\ names[4] = other
  OBVIOUS
<1> HIDE DEF names, own, other
<1>6. \/ LogRows!FirstOf(names) = LogRows!ShortId
      \/ \E i \in DOMAIN names : names[i] # LogRows!None /\ LogRows!FirstOf(names) = names[i]
                                 /\ \A j \in DOMAIN names : j < i => names[j] = LogRows!None
  BY <1>5, FirstName
<1>7. ASSUME NEW i \in 1..4, names[i] # LogRows!None, LogRows!FirstOf(names) = names[i],
             \A j \in 1..4 : j < i => names[j] = LogRows!None
      PROVE  LogRows!FirstOf(names).of = row.about
  <2>1. CASE i \in {1, 2, 3}
    BY <2>1, <1>7, <1>2 DEF CallsIt
  <2>2. CASE i = 4
    BY <2>2, <1>7, <1>3, <1>5 DEF CallsIt
  <2> QED BY <2>1, <2>2
<1>8. LogRows!ShortId.of = "id"
  BY DEF LogRows!ShortId, LogRows!Name
<1> QED BY <1>4, <1>5, <1>6, <1>7, <1>8

LEMMA MachinesNamed ==
  ASSUME RowsInv, NEW p
  PROVE  \A name \in LogRows!MachineNames(p) : name.of \in {"workspace", "id"}
<1>1. CallsIt(ui.live["workspace"], "workspace")
  BY DEF RowsInv, ListsOK, LogRows!Listed
<1>2. ASSUME NEW i \in LogRows!Touched(p)
      PROVE  LogRows!MachineName(i).of \in {"workspace", "id"}
  <2>1. i \in DOMAIN ui.logs /\ LogRows!At(i).type = "workspace"
    BY DEF LogRows!Touched, LogRows!By
  <2>2. CallsIt(LogRows!At(i).shown, "workspace")
    BY <2>1, ShownRows DEF RowOK, LogRows!Listed
  <2>3. LogRows!ShortId.of = "id"
    BY DEF LogRows!ShortId, LogRows!Name
  <2> QED BY <1>1, <2>2, <2>3 DEF LogRows!MachineName, CallsIt
<1> QED BY <1>1, <1>2 DEF LogRows!MachineNames, CallsIt

LEMMA RowsNameIt ==
  ASSUME RowsInv
  PROVE  LogRows!NamesItsResource
<1>1. \A p : LogRows!Card(p).machines = LogRows!MachineNames(p)
  BY DEF LogRows!Card
<1>2. \A i \in DOMAIN ui.logs : LogRows!DisplayName(LogRows!At(i)).of \in {LogRows!At(i).about, "id"}
  BY ShownRows, RowNamed
<1> QED BY <1>1, <1>2, MachinesNamed DEF LogRows!NamesItsResource

\* Two accesses that are stored read alike only if they are alike.
LEMMA StoredReads ==
  ASSUME NEW m \in Stored, NEW o \in Stored, LogRows!Reads(m) = LogRows!Reads(o)
  PROVE  m = o
<1>1. m \in LogRows!Accesses /\ o \in LogRows!Accesses
  BY DEF Stored
<1>2. m = [access |-> m.access, mode |-> m.mode] /\ o = [access |-> o.access, mode |-> o.mode]
  BY <1>1 DEF LogRows!Accesses
<1>3. LogRows!Reads(m)[1] = m.access /\ LogRows!Reads(o)[1] = o.access
  BY DEF LogRows!Reads
<1>4. m.access = o.access
  BY <1>3
<1>5. m.mode = o.mode
  <2>1. CASE m.access = "granted"
    <3>1. LogRows!Reads(m)[2] = m.mode /\ LogRows!Reads(o)[2] = o.mode
      BY <1>4, <2>1 DEF LogRows!Reads
    <3> QED BY <3>1
  <2>2. CASE m.access # "granted"
    BY <1>4, <2>2 DEF Stored
  <2> QED BY <2>1, <2>2
<1> QED BY <1>2, <1>4, <1>5

LEMMA LineMeansChange ==
  ASSUME RowsInv
  PROVE  LogRows!AccessLineMeansChange
<1> SUFFICES ASSUME NEW i \in DOMAIN ui.logs
             PROVE  "ssh" \in LogRows!Summary(LogRows!At(i))
                      <=> LogRows!Reads(LogRows!At(i).from) # LogRows!Reads(LogRows!At(i).to)
  BY DEF LogRows!AccessLineMeansChange
<1> DEFINE row == LogRows!At(i)
<1>1. "ssh" \in LogRows!Summary(row) <=> row.to.access # "" /\ row.from # row.to
  BY DEF LogRows!Summary
<1>2. RowOK(row)
  BY ShownRows
<1> HIDE DEF row
<1>3. CASE row.from = row.to
  BY <1>1, <1>3 DEF row
<1>4. CASE row.from # row.to
  <2>1. row.from \in Stored /\ row.to \in Stored
    BY <1>2, <1>4 DEF RowOK
  <2>2. row.to.access # ""
    BY <2>1 DEF Stored, LogRows!Accesses
  <2>3. LogRows!Reads(row.from) # LogRows!Reads(row.to)
    BY <1>4, <2>1, StoredReads
  <2> QED BY <1>1, <1>4, <2>2, <2>3 DEF row
<1> QED BY <1>3, <1>4 DEF row

LEMMA RowsCount ==
  ASSUME NEW S
  PROVE  LogRows!Cardinality(S) = Cardinality(S)
BY DEF LogRows!Cardinality, Cardinality

LEMMA RecentRows ==
  ASSUME NEW i
  PROVE  \A j : j \in LogRows!Recent(i)
           <=> j \in LogRows!AboutSame(i) /\ Cardinality({k \in LogRows!AboutSame(i) : k <= j}) <= 3
BY RowsCount DEF LogRows!Recent

LEMMA CardsAreLatest ==
  ASSUME RowsInv, cast.store = "postgres"
  PROVE  LogRows!CardsShowLatest
<1> DEFINE Latest(rows) == IF rows = {} THEN 0
                           ELSE CHOOSE n \in {LogRows!At(i).n : i \in rows} : \A i \in rows : LogRows!At(i).n <= n
<1>1. \A i, j \in DOMAIN ui.logs : i < j => LogRows!At(j).n < LogRows!At(i).n
  BY DEF RowsInv, ListsOK, NewestFirst, LogRows!At
<1>2. DOMAIN ui.logs \subseteq Nat /\ IsFiniteSet(DOMAIN ui.logs)
      /\ \A i \in DOMAIN ui.logs : LogRows!At(i).n \in Nat
  BY ShownRows
<1>3. ASSUME NEW rows \in SUBSET DOMAIN ui.logs
      PROVE  LogRows!FirstRow(rows) = Latest(rows)
  <2>1. CASE rows = {}
    BY <2>1 DEF LogRows!FirstRow
  <2>2. CASE rows # {}
    <3> DEFINE k == CHOOSE i \in rows : \A j \in rows : i <= j
               n == CHOOSE n \in {LogRows!At(i).n : i \in rows} : \A i \in rows : LogRows!At(i).n <= n
    <3>0. rows \in SUBSET Nat
      BY <1>2
    <3>1. \E i \in rows : \A j \in rows : i <= j
      BY <2>2, <3>0, LeastNat
    <3>2. k \in rows /\ \A j \in rows : k <= j
      BY <3>1
    <3>3. LogRows!FirstRow(rows) = LogRows!At(k).n /\ Latest(rows) = n
      BY <2>2 DEF LogRows!FirstRow
    <3> HIDE DEF k
    <3>4. \A j \in rows : LogRows!At(j).n <= LogRows!At(k).n
      <4> TAKE j \in rows
      <4>1. CASE j = k
        BY <4>1, <1>2, <3>2
      <4>2. CASE k < j
        BY <4>2, <1>1, <1>2, <3>2
      <4> QED BY <4>1, <4>2, <3>0, <3>2
    <3>5. n \in {LogRows!At(i).n : i \in rows} /\ \A i \in rows : LogRows!At(i).n <= n
      BY <3>2, <3>4
    <3> HIDE DEF n
    <3>6. n = LogRows!At(k).n
      <4>1. PICK i \in rows : n = LogRows!At(i).n
        BY <3>5
      <4>2. LogRows!At(i).n \in Nat /\ LogRows!At(k).n \in Nat
        BY <1>2, <3>2
      <4>3. LogRows!At(i).n <= LogRows!At(k).n /\ LogRows!At(k).n <= n
        BY <3>2, <3>4, <3>5
      <4> QED BY <4>1, <4>2, <4>3
    <3> QED BY <3>3, <3>6
  <2> QED BY <2>1, <2>2
<1>4. \A p : LogRows!Card(p).login = Latest(LogRows!Logins(p)) /\ LogRows!Card(p).action = Latest(LogRows!By(p))
  <2> HIDE DEF Latest
  <2> TAKE p
  <2>1. LogRows!Logins(p) \in SUBSET DOMAIN ui.logs /\ LogRows!By(p) \in SUBSET DOMAIN ui.logs
    BY DEF LogRows!Logins, LogRows!By
  <2> QED BY <1>3, <2>1 DEF LogRows!Card, LogRows!LastLogin, LogRows!LastAction
<1>5. ASSUME NEW i \in DOMAIN ui.logs, NEW j \in LogRows!Recent(i), NEW k \in LogRows!AboutSame(i) \ LogRows!Recent(i)
      PROVE  LogRows!At(k).n < LogRows!At(j).n
  <2> DEFINE same == LogRows!AboutSame(i)
             Upto(m) == {l \in same : l <= m}
  <2>1. j \in same /\ k \in same /\ Cardinality(Upto(j)) <= 3 /\ ~ (Cardinality(Upto(k)) <= 3)
    BY RecentRows
  <2>2. same \subseteq DOMAIN ui.logs
    BY DEF LogRows!AboutSame
  <2> HIDE DEF same
  <2>3. IsFiniteSet(Upto(j)) /\ IsFiniteSet(Upto(k))
    BY <1>2, <2>2, FS_Subset
  <2>4. ASSUME k <= j
        PROVE  FALSE
    <3>1. Upto(k) \subseteq Upto(j)
      BY <1>2, <2>1, <2>2, <2>4
    <3>2. Cardinality(Upto(k)) <= Cardinality(Upto(j))
      BY <2>3, <3>1, FS_Subset
    <3>3. Cardinality(Upto(k)) \in Nat /\ Cardinality(Upto(j)) \in Nat
      BY <2>3, FS_CardinalityType
    <3> QED BY <2>1, <3>2, <3>3
  <2>5. j < k
    BY <1>2, <2>1, <2>2, <2>4
  <2> QED BY <1>1, <2>1, <2>2, <2>5
<1> HIDE DEF Latest
<1>6. LogRows!CardsShowLatest
        <=> /\ \A p \in LogRows!People : LogRows!Card(p).login = Latest(LogRows!Logins(p))
                                         /\ LogRows!Card(p).action = Latest(LogRows!By(p))
            /\ \A i \in DOMAIN ui.logs : \A j \in LogRows!Recent(i), k \in LogRows!AboutSame(i) \ LogRows!Recent(i) :
                 LogRows!At(k).n < LogRows!At(j).n
  BY DEF LogRows!CardsShowLatest, Latest
<1> QED BY <1>4, <1>5, <1>6

\* However heartbeats, tickers and probes write over each other, and however old the
\* counts of the cluster are: what a page sums up is true of what it lists.  Whatever is
\* renamed, removed and changed before and after the log is read: its rows are called what
\* they are about, tell of a change of access just when there was one, and over a log that
\* comes newest first the cards show the latest.
THEOREM SummariesStayTrue == Spec => []SummariesAddUp
<1> DEFINE Inv == /\ scene = "nodes" => NodesInv
                  /\ scene = "cluster" => ClusterInv
                  /\ scene = "rows" => RowsInv
<1>1. Init => Inv
  BY NodesStart, ClusterStart, RowsStart DEF Init
<1>2. Inv /\ [Next]_vars => Inv'
  BY SceneSteps, NodesStep, ClusterStep, RowsStep
<1>3. Inv => SummariesAddUp
  BY CountedOnce, StatusSaysSo, RowsNameIt, LineMeansChange, CardsAreLatest DEF SummariesAddUp
<1> QED BY <1>1, <1>2, <1>3, PTL DEF Spec

----------------------------------------------------------------------------
(* The audit log: where its rows lead                                      *)

AuditUi ==
  [page : AuditLogs \cup {"audit", "elsewhere"}, logs : SUBSET AuditLogs, seen : SUBSET AuditLogs,
   ready : BOOLEAN, opening : SUBSET AuditLogs, exec : AuditLogs \cup {"none"},
   copied : AuditLogs \cup {"none"}, told : AuditLogs \cup {"none"}, left : Int]

AuditCall ==
  [op : Audit!Lists \cup {"none", "probe"}, st : {"idle", "sent", "ok", "missing", "refused"},
   data : SUBSET AuditLogs]

AuditTypeOK ==
  /\ ui \in AuditUi /\ calls \in [AuditLogs \cup Audit!Lists -> AuditCall]
  /\ server \in [live : SUBSET AuditLogs]

\* What is known to be alive, or is on its way to be, is open to the account; so is
\* what the server has answered a probe about.
KnownIsOpen(u, k) ==
  /\ \A l \in AuditLogs : l \in u.seen \/ l \in k["alive"].data => Audit!Admin \/ Audit!Row(l).joined
  /\ \A l \in AuditLogs : k[l].st = "ok" => Audit!Reachable(Audit!Row(l))

AuditInv == AuditTypeOK /\ KnownIsOpen(ui, calls)

\* The account and the rows stay what they are.
LEMMA AccountStays ==
  ASSUME cast' = cast, KnownIsOpen(ui', calls')
  PROVE  KnownIsOpen(ui, calls)'
BY DEF KnownIsOpen, Audit!Admin, Audit!Row, Audit!Reachable

LEMMA AuditStart ==
  ASSUME Audit!Init
  PROVE  AuditInv
<1>1. cast.steps \in Nat
  BY AuditAssumption DEF Audit!Init
<1>2. ui = [page |-> "audit", logs |-> {}, seen |-> {}, ready |-> FALSE, opening |-> {}, exec |-> "none",
            copied |-> "none", told |-> "none", left |-> cast.steps]
  BY DEF Audit!Init, Audit!None
<1>5. ui \in AuditUi /\ ui.seen = {}
  BY <1>1, <1>2 DEF AuditUi
<1>3. calls \in [AuditLogs \cup Audit!Lists -> AuditCall]
  BY DEF Audit!Init, Audit!NoCall, Audit!None, Audit!Lists, AuditCall
<1>4. \A c \in AuditLogs \cup Audit!Lists : calls[c].data = {} /\ calls[c].st # "ok"
  BY DEF Audit!Init, Audit!NoCall, Audit!None
<1>6. server \in [live : SUBSET AuditLogs]
  BY DEF Audit!Init
<1> QED BY <1>3, <1>4, <1>5, <1>6 DEF AuditInv, AuditTypeOK, KnownIsOpen, Audit!Lists

\* A step that leaves the calls alone and teaches the page nothing.
LEMMA PageOnly ==
  ASSUME AuditInv, ui' \in AuditUi, ui'.seen = ui.seen, UNCHANGED <<calls, cast>>,
         server' \in [live : SUBSET AuditLogs]
  PROVE  AuditInv'
<1>1. KnownIsOpen(ui', calls')
  BY DEF AuditInv, KnownIsOpen
<1> QED BY <1>1, AccountStays DEF AuditInv, AuditTypeOK

\* A call begins, ends or is lost, and the page learns no more than the lists carried.
LEMMA CallOnly ==
  ASSUME AuditInv, ui' \in AuditUi, ui'.seen \subseteq ui.seen \cup calls["alive"].data, UNCHANGED <<server, cast>>,
         calls' \in [AuditLogs \cup Audit!Lists -> AuditCall],
         calls'["alive"].data \subseteq calls["alive"].data,
         \A l \in AuditLogs : calls'[l].st = "ok" => calls[l].st = "ok"
  PROVE  AuditInv'
<1>1. KnownIsOpen(ui', calls')
  BY DEF AuditInv, KnownIsOpen
<1> QED BY <1>1, AccountStays DEF AuditInv, AuditTypeOK

LEMMA NewCalls ==
  /\ Audit!NoCall \in AuditCall /\ Audit!NoCall.data = {} /\ Audit!NoCall.st = "idle"
  /\ \A c \in Audit!Lists : /\ Audit!Reload(c) \in AuditCall
                            /\ Audit!Reload(c).data = {} /\ Audit!Reload(c).st = "sent"
BY DEF Audit!NoCall, Audit!None, Audit!Reload, AuditCall, Audit!Lists

LEMMA StepIsPage ==
  ASSUME NEW u \in AuditUi
  PROVE  /\ Audit!Step(u) \in AuditUi /\ Audit!Step(u).seen = u.seen /\ Audit!Step(u).page = u.page
         /\ Audit!Step(u).opening = u.opening
         /\ \A l \in AuditLogs : /\ Audit!Go(u, l) \in AuditUi /\ Audit!Go(u, l).seen = u.seen
                                /\ Audit!Go(u, l).page = l
<1>1. Audit!Step(u) \in AuditUi /\ Audit!Step(u).seen = u.seen /\ Audit!Step(u).page = u.page
      /\ Audit!Step(u).opening = u.opening
  BY DEF Audit!Step, AuditUi
<1>2. ASSUME NEW l \in AuditLogs
      PROVE  Audit!Go(u, l) \in AuditUi /\ Audit!Go(u, l).seen = u.seen /\ Audit!Go(u, l).page = l
  BY <1>2 DEF Audit!Go, Audit!None, AuditUi
<1> QED BY <1>1, <1>2

LEMMA LogPageSteps ==
  ASSUME AuditInv,
         \/ Audit!CloseExec \/ Audit!Leave
         \/ \E l \in AuditLogs :
              Audit!OpenKnown(l) \/ Audit!Copy(l) \/ Audit!CopyFades(l) \/ Audit!OpenExec(l) \/ Audit!Vanish(l)
  PROVE  AuditInv'
<1> DEFINE s == Audit!Step(ui)
<1>1. ui \in AuditUi /\ s \in AuditUi /\ s.seen = ui.seen
  BY StepIsPage DEF AuditInv, AuditTypeOK
<1>3. \A l \in AuditLogs : Audit!Go(s, l) \in AuditUi /\ Audit!Go(s, l).seen = ui.seen
  BY <1>1, StepIsPage
<1> HIDE DEF s
<1>2. ui' \in AuditUi /\ ui'.seen = ui.seen /\ UNCHANGED <<calls, cast>>
  <2>1. CASE Audit!CloseExec \/ Audit!Leave
    BY <1>1, <2>1 DEF Audit!CloseExec, Audit!Leave, Audit!None, AuditUi, s
  <2>2. ASSUME NEW l \in AuditLogs, Audit!OpenKnown(l)
        PROVE  ui' \in AuditUi /\ ui'.seen = ui.seen /\ UNCHANGED <<calls, cast>>
    <3>1. [s EXCEPT !.told = l] \in AuditUi /\ [s EXCEPT !.told = l].seen = s.seen
      BY <1>1 DEF AuditUi
    <3> QED BY <1>1, <1>3, <2>2, <3>1 DEF Audit!OpenKnown, s
  <2>3. ASSUME NEW l \in AuditLogs,
               Audit!Copy(l) \/ Audit!CopyFades(l) \/ Audit!OpenExec(l) \/ Audit!Vanish(l)
        PROVE  ui' \in AuditUi /\ ui'.seen = ui.seen /\ UNCHANGED <<calls, cast>>
    <3>1. \/ ui' \in {s, [s EXCEPT !.copied = l], [s EXCEPT !.exec = l]}
          \/ ui' = [ui EXCEPT !.copied = "none"]
      BY <2>3 DEF Audit!Copy, Audit!CopyFades, Audit!OpenExec, Audit!Vanish, Audit!None, s
    <3>2. UNCHANGED <<calls, cast>>
      BY <2>3 DEF Audit!Copy, Audit!CopyFades, Audit!OpenExec, Audit!Vanish
    <3> QED BY <1>1, <3>1, <3>2 DEF AuditUi
  <2> QED BY <2>1, <2>2, <2>3
<1>4. server' \in [live : SUBSET AuditLogs]
  BY DEF AuditInv, AuditTypeOK, Audit!CloseExec, Audit!Leave, Audit!OpenKnown, Audit!Copy, Audit!CopyFades,
         Audit!OpenExec, Audit!Vanish
<1> QED BY <1>2, <1>4, PageOnly

LEMMA LogAskSteps ==
  ASSUME AuditInv,
         \/ Audit!Refresh \/ Audit!Reconcile \/ Audit!Return \/ \E l \in AuditLogs : Audit!OpenProbed(l)
  PROVE  AuditInv'
<1>1. /\ ui \in AuditUi /\ calls \in [AuditLogs \cup Audit!Lists -> AuditCall]
      /\ \A l \in AuditLogs : l \notin Audit!Lists
      /\ Audit!Step(ui) \in AuditUi /\ Audit!Step(ui).seen = ui.seen /\ Audit!Step(ui).opening = ui.opening
  BY AuditAssumption, StepIsPage DEF AuditInv, AuditTypeOK, Audit!Lists
<1>2. CASE Audit!Refresh \/ Audit!Reconcile
  <2>1. PICK c \in {"audit", "reconcile"} :
          calls' = [calls EXCEPT ![c] = Audit!Reload(c)] /\ ui' = Audit!Step(ui) /\ UNCHANGED <<server, cast>>
    BY <1>2 DEF Audit!Refresh, Audit!Reconcile
  <2>2. ui' \in AuditUi /\ ui'.seen = ui.seen
    BY <1>1, <2>1
  <2> QED BY <1>1, <2>1, <2>2, NewCalls, CallOnly DEF Audit!Lists
<1>3. CASE Audit!Return
  <2>1. /\ calls' = [calls EXCEPT !["audit"] = Audit!Reload("audit"), !["alive"] = Audit!Reload("alive")]
        /\ ui' \in AuditUi /\ ui'.seen = ui.seen /\ UNCHANGED <<server, cast>>
    BY <1>1, <1>3 DEF Audit!Return, AuditUi
  <2> QED BY <1>1, <2>1, NewCalls, CallOnly DEF Audit!Lists
<1>4. ASSUME NEW l \in AuditLogs, Audit!OpenProbed(l) PROVE AuditInv'
  <2> DEFINE k == [Audit!NoCall EXCEPT !.op = "probe", !.st = "sent"]
  <2>1. k \in AuditCall /\ k.st = "sent"
    BY DEF Audit!NoCall, Audit!None, AuditCall
  <2>2. calls' = [calls EXCEPT ![l] = k] /\ ui' \in AuditUi /\ ui'.seen = ui.seen /\ UNCHANGED <<server, cast>>
    BY <1>1, <1>4 DEF Audit!OpenProbed, AuditUi
  <2> HIDE DEF k
  <2> QED BY <1>1, <2>1, <2>2, CallOnly DEF Audit!Lists
<1> QED BY <1>2, <1>3, <1>4

LEMMA AnswerSteps ==
  ASSUME AuditInv,
         \/ \E c \in Audit!Lists : Audit!ListReturns(c)
         \/ \E c \in Audit!Lists \cup AuditLogs : Audit!Lose(c)
         \/ \E l \in AuditLogs : Audit!ProbeReturns(l)
  PROVE  AuditInv'
<1>1. /\ ui \in AuditUi /\ calls \in [AuditLogs \cup Audit!Lists -> AuditCall]
      /\ \A l \in AuditLogs : l \notin Audit!Lists
  BY AuditAssumption DEF AuditInv, AuditTypeOK, Audit!Lists
<1>2. ASSUME NEW c \in Audit!Lists, Audit!ListReturns(c) PROVE AuditInv'
  <2>1. /\ calls' = [calls EXCEPT ![c] = Audit!NoCall] /\ UNCHANGED <<server, cast>> /\ calls[c].data \subseteq AuditLogs
        /\ ui' \in AuditUi /\ ui'.seen \subseteq ui.seen \cup calls["alive"].data
    <3>1. calls[c] \in AuditCall
      BY <1>1
    <3> QED BY <1>1, <1>2, <3>1 DEF Audit!ListReturns, AuditUi, AuditCall
  <2> QED BY <1>1, <2>1, NewCalls, CallOnly DEF Audit!Lists
<1>3. ASSUME NEW c \in Audit!Lists \cup AuditLogs, Audit!Lose(c) PROVE AuditInv'
  <2> DEFINE k == [calls[c] EXCEPT !.st = "refused"]
  <2>1. k \in AuditCall /\ k.st = "refused" /\ k.data = calls[c].data
    BY <1>1 DEF AuditCall
  <2>2. calls' = [calls EXCEPT ![c] = k] /\ UNCHANGED <<ui, server, cast>>
    BY <1>3 DEF Audit!Lose
  <2> HIDE DEF k
  <2> QED BY <1>1, <2>1, <2>2, CallOnly DEF Audit!Lists
<1>4. ASSUME NEW l \in AuditLogs, Audit!ProbeReturns(l) PROVE AuditInv'
  <2>1. calls' = [calls EXCEPT ![l] = Audit!NoCall] /\ UNCHANGED <<server, cast>> /\ ui' \in AuditUi /\ ui'.seen = ui.seen
    BY <1>1, <1>4 DEF Audit!ProbeReturns, Audit!Go, Audit!None, AuditUi
  <2> QED BY <1>1, <2>1, NewCalls, CallOnly DEF Audit!Lists
<1> QED BY <1>2, <1>3, <1>4

LEMMA ServeStep ==
  ASSUME AuditInv, NEW c \in Audit!Lists \cup AuditLogs, Audit!Serve(c)
  PROVE  AuditInv'
<1>1. /\ ui \in AuditUi /\ calls \in [AuditLogs \cup Audit!Lists -> AuditCall] /\ calls[c] \in AuditCall
      /\ \A l \in AuditLogs : l \notin Audit!Lists
  BY AuditAssumption DEF AuditInv, AuditTypeOK, Audit!Lists
<1>2. UNCHANGED <<ui, server, cast>>
  BY DEF Audit!Serve
<1>3. PICK k \in AuditCall :
        /\ calls' = [calls EXCEPT ![c] = k]
        /\ c = "alive" => \A l \in k.data : Audit!Admin \/ Audit!Row(l).joined
        /\ c \in AuditLogs /\ k.st = "ok" => Audit!Reachable(Audit!Row(c))
  <2>1. CASE c = "audit"
    <3> DEFINE k == [calls[c] EXCEPT !.st = IF Audit!ServerAnswers("audit-logs", cast.role) THEN "ok" ELSE "refused",
                                     !.data = AuditLogs]
    <3>1. k \in AuditCall
      BY <1>1 DEF AuditCall
    <3>2. calls' = [calls EXCEPT ![c] = k]
      BY <2>1 DEF Audit!Serve
    <3> QED BY <1>1, <2>1, <3>1, <3>2 DEF Audit!Lists
  <2>2. CASE c = "alive"
    <3> DEFINE open == {l \in server.live :
                          /\ Audit!Row(l).type \in {"workspace", "project", "membership", "ingress"}
                          /\ Audit!Admin \/ Audit!Row(l).joined}
               k == [calls[c] EXCEPT !.st = "ok", !.data = open]
    <3>1. server.live \subseteq AuditLogs
      BY DEF AuditInv, AuditTypeOK
    <3>2. k \in AuditCall /\ k.data = open
      BY <1>1, <3>1 DEF AuditCall
    <3>3. calls' = [calls EXCEPT ![c] = k]
      BY <2>2 DEF Audit!Serve
    <3>4. \A l \in open : Audit!Admin \/ Audit!Row(l).joined
      OBVIOUS
    <3> HIDE DEF k, open
    <3> QED BY <1>1, <2>2, <3>2, <3>3, <3>4 DEF Audit!Lists
  <2>3. CASE c \notin {"audit", "alive"}
    <3>1. PICK st \in {"ok", "refused", "missing"} :
            /\ calls' = [calls EXCEPT ![c].st = st]
            /\ c \in AuditLogs /\ st = "ok" => Audit!Reachable(Audit!Row(c))
      BY <1>1, <2>3 DEF Audit!Serve, Audit!Lists
    <3> DEFINE k == [calls[c] EXCEPT !.st = st]
    <3>2. k \in AuditCall /\ calls' = [calls EXCEPT ![c] = k] /\ k.st = st
      BY <1>1, <3>1 DEF AuditCall
    <3> QED BY <1>1, <2>3, <3>1, <3>2
  <2> QED BY <2>1, <2>2, <2>3
<1>4. KnownIsOpen(ui', calls')
  BY <1>1, <1>2, <1>3 DEF AuditInv, KnownIsOpen, Audit!Lists
<1>5. calls' \in [AuditLogs \cup Audit!Lists -> AuditCall]
  BY <1>1, <1>3
<1> QED BY <1>1, <1>2, <1>4, <1>5, AccountStays DEF AuditInv, AuditTypeOK

LEMMA AuditStep == AuditInv /\ [Audit!Next]_(Audit!vars) => AuditInv'
<1> SUFFICES ASSUME AuditInv, [Audit!Next]_(Audit!vars) PROVE AuditInv'
  OBVIOUS
<1>1. CASE UNCHANGED Audit!vars
  BY <1>1, PageOnly DEF Audit!vars, AuditInv, AuditTypeOK
<1>2. CASE Audit!Next
  BY <1>2, LogPageSteps, LogAskSteps, AnswerSteps, ServeStep DEF Audit!Next
<1> QED BY <1>1, <1>2

\* Opening what the lists know, or what nothing has to be asked about.
LEMMA OpenKnownIsAllowed ==
  ASSUME AuditInv, NEW l \in AuditLogs, Audit!OpenKnown(l), ui'.page # ui.page
  PROVE  /\ Audit!Can(Audit!Href(Audit!Row(l)), cast.role) /\ Audit!Reachable(Audit!Row(l))
         /\ \A m \in AuditLogs : ui'.page = m => m = l
<1>1. ui \in AuditUi
  BY DEF AuditInv, AuditTypeOK
<1>2. Audit!LiveKnown(l) # "no" /\ ui'.page = l
  BY <1>1 DEF Audit!OpenKnown, Audit!Go, Audit!Step, AuditUi
<1>3. Audit!CanOpen(l)
  BY DEF Audit!OpenKnown, Audit!RowOffers
<1>4. CASE Audit!LiveKnown(l) = "yes"
  <2>1. Audit!Row(l).type \in {"workspace", "project"} /\ l \in ui.seen
    BY <1>4 DEF Audit!LiveKnown
  <2>2. Audit!Admin \/ Audit!Row(l).joined
    BY <2>1 DEF AuditInv, KnownIsOpen
  <2> QED BY <1>2, <2>1, <2>2 DEF Audit!Href, Audit!Can, Audit!Reachable
<1>5. CASE Audit!LiveKnown(l) # "yes"
  <2>1. Audit!Probe(Audit!Row(l)) = "none"
    BY <1>2, <1>5 DEF Audit!OpenKnown, Audit!LiveKnown, Audit!None
  <2>2. Audit!Row(l).type \in {"cluster", "ssh_key"}
    BY <1>3, <2>1 DEF Audit!CanOpen, Audit!Href, Audit!Probe, Audit!None
  <2>3. Audit!Row(l).type = "cluster" => Audit!IsPlatformStaff(cast.role)
    BY <1>3 DEF Audit!CanOpen
  <2> QED BY <1>2, <2>2, <2>3 DEF Audit!Href, Audit!Can, Audit!Reachable, Audit!ServerAnswers, Audit!CanManageNodes
<1> QED BY <1>4, <1>5

\* What the server answers, the access control lets the account see.
LEMMA ReachableIsVisible ==
  ASSUME NEW l \in AuditLogs, Audit!Reachable(Audit!Row(l))
  PROVE  Audit!Can(Audit!Href(Audit!Row(l)), cast.role)
BY DEF Audit!Reachable, Audit!Href, Audit!Can, Audit!ServerAnswers, Audit!CanManageNodes, Audit!IsPlatformAdmin,
       Audit!None

LEMMA OpensAllowed == AuditInv /\ [Audit!Next]_(Audit!vars) => Audit!OpensAllowedPage
<1> SUFFICES ASSUME AuditInv, [Audit!Next]_(Audit!vars), NEW l \in AuditLogs, ui'.page = l, ui.page # l
             PROVE  Audit!Can(Audit!Href(Audit!Row(l)), cast.role) /\ Audit!Reachable(Audit!Row(l))
  BY DEF Audit!OpensAllowedPage
<1>1. ui \in AuditUi /\ l \notin {"audit", "elsewhere"}
  BY AuditAssumption DEF AuditInv, AuditTypeOK
<1>2. CASE \E m \in AuditLogs : Audit!OpenKnown(m)
  BY <1>2, OpenKnownIsAllowed
<1>3. CASE \E m \in AuditLogs : Audit!ProbeReturns(m)
  <2>1. PICK m \in AuditLogs : Audit!ProbeReturns(m)
    BY <1>3
  <2>2. m = l /\ calls[m].st = "ok"
    BY <1>1, <2>1 DEF Audit!ProbeReturns, Audit!Go, AuditUi
  <2>3. Audit!Reachable(Audit!Row(l))
    BY <2>2 DEF AuditInv, KnownIsOpen
  <2> QED BY <2>3, ReachableIsVisible
<1>4. ui'.page \in {ui.page, "audit", "elsewhere"}
      \/ \E m \in AuditLogs : Audit!OpenKnown(m) \/ Audit!ProbeReturns(m)
  BY <1>1 DEF Audit!Next, Audit!vars, Audit!CloseExec, Audit!Refresh, Audit!Reconcile, Audit!Leave, Audit!Return,
              Audit!ListReturns, Audit!Serve, Audit!Lose, Audit!OpenProbed, Audit!Copy, Audit!CopyFades,
              Audit!OpenExec, Audit!Vanish, Audit!Step, AuditUi
<1> QED BY <1>1, <1>2, <1>3, <1>4

\* The audit log leads only to pages that the console lets the account see and the
\* server answers: what its lists know, what a click finds out and what an answer
\* that comes after the person has left finds, never open a page that would refuse.
THEOREM LogLeadsWhereAllowed == Spec => OpenedPagesAllowed
<1> DEFINE Inv == scene = "audit" => AuditInv
<1>1. Init => Inv
  BY AuditStart DEF Init
<1>2. Inv /\ [Next]_vars => Inv'
  BY SceneSteps, AuditStep
<1>3. Inv /\ [Next]_vars => [scene = "audit" => Audit!OpensAllowedPage]_vars
  BY SceneSteps, OpensAllowed
<1> QED BY <1>1, <1>2, <1>3, PTL DEF Spec, OpenedPagesAllowed
=============================================================================
