-------------------------------- MODULE Shell --------------------------------
(***************************************************************************)
(* The frame around every page: the menu, the switch between projects with *)
(* the project that is remembered, the sidebar of a machine, the key that  *)
(* an agent is given, and the page that accepts an invitation and leads to *)
(* the project a moment later.                                             *)
(***************************************************************************)
EXTENDS AccessRules

CONSTANTS Projects, MaxKey,
          Casts    \* records [role, wide, member, invited, does, steps]

VARIABLES server,  \* key: the agent's key that works (0: none yet), last: keys made; member, open: the invitation
          ui, calls, cast

vars == <<server, ui, calls, cast>>

None == "none"
NoCall == [op |-> None, st |-> "idle", key |-> 0, project |-> None]
At(place, id) == [place |-> place, id |-> id]

Acts == ui.left > 0
Does(what) == what \in cast.does /\ Acts
Step(u) == [u EXCEPT !.left = @ - 1]

Init ==
  /\ cast \in Casts
  /\ server = [key |-> 0, last |-> 0, member |-> cast.member, open |-> cast.invited]
  /\ ui = [path |-> At("workspaces", None), stored |-> None, projects |-> cast.member, drawer |-> FALSE,
           collapsed |-> FALSE, kept |-> FALSE, folded |-> FALSE, copiedId |-> FALSE, busy |-> FALSE,
           rotate |-> FALSE, clip |-> 0, told |-> None, accepting |-> FALSE, timer |-> None,
           left |-> cast.steps]
  /\ calls = [c \in {"copy", "rotate", "invite", "projects"} |-> NoCall]

(* The sidebar *)

InProject == ui.path.place \in {"project", "project members"}
InMachine == ui.path.place = "machine"
Rail == cast.wide /\ (ui.collapsed \/ InProject \/ InMachine)
\* On a narrow screen the sidebar is a drawer; a dialog covers everything.
Sidebar == (cast.wide \/ ui.drawer) /\ ~ui.rotate
CurrentProject == IF InProject THEN ui.path.id ELSE IF ui.path.place = "workspaces" THEN ui.path.id ELSE None

\* Leaving the page of the invitation stops the timer it has set.
Go(u, path) == [u EXCEPT !.path = path, !.timer = IF u.path.place = "invite" /\ path # u.path THEN None ELSE @]

ToggleDrawer ==
  /\ Does("menu") /\ ~cast.wide /\ ~ui.rotate
  /\ ui' = [Step(ui) EXCEPT !.drawer = ~@]
  /\ UNCHANGED <<server, calls, cast>>
ToggleCollapsed ==
  /\ Does("menu") /\ cast.wide /\ ~ui.rotate
  /\ ui' = [Step(ui) EXCEPT !.collapsed = ~@, !.kept = ~ui.collapsed]
  /\ UNCHANGED <<server, calls, cast>>

Navigate(page) ==
  /\ Does("menu") /\ Sidebar /\ page \in MenuItems(cast.role)
  /\ ui' = [Go(Step(ui), At(page, None)) EXCEPT !.drawer = FALSE]
  /\ UNCHANGED <<server, calls, cast>>

\* onSwitchProject: the choice is remembered, and the page stays the one of
\* its kind where there is one.
SwitchProject(p) ==
  /\ Does("switch") /\ Sidebar /\ ~Rail /\ p \in ui.projects /\ p # CurrentProject
  /\ ui' = [Go(Step(ui), CASE ui.path.place \in {"workspaces", "machine"} -> At("workspaces", p)
                           [] ui.path.place \in {"memberships", "project members"} -> At("project members", p)
                           [] OTHER -> At("project", p)) EXCEPT !.stored = p]
  /\ UNCHANGED <<server, calls, cast>>

(* The sidebar of a machine *)

OpenMachine(p) ==
  /\ Does("machine") /\ ui.path.place = "workspaces" /\ p \in ui.projects /\ ~ui.rotate
  /\ ui' = Go([Step(ui) EXCEPT !.folded = FALSE, !.copiedId = FALSE], At("machine", p))
  /\ UNCHANGED <<server, calls, cast>>
\* It leads back to the machines of the project.
BackToList ==
  /\ Acts /\ InMachine /\ cast.wide /\ ~ui.folded /\ ~ui.rotate
  /\ ui' = Go(Step(ui), At("workspaces", ui.path.id))
  /\ UNCHANGED <<server, calls, cast>>
FoldMachineBar ==
  /\ Does("machine") /\ InMachine /\ cast.wide /\ ~ui.rotate
  /\ ui' = [Step(ui) EXCEPT !.folded = ~@]
  /\ UNCHANGED <<server, calls, cast>>
CopyId ==
  /\ Does("machine") /\ InMachine /\ cast.wide /\ ~ui.folded /\ ~ui.rotate
  /\ ui' = [Step(ui) EXCEPT !.copiedId = TRUE]
  /\ UNCHANGED <<server, calls, cast>>

(* The key of the agent: one request at a time, whichever the button *)

Ask(op) ==
  /\ calls[op].st = "idle"
  /\ calls' = [calls EXCEPT ![op] = [NoCall EXCEPT !.op = op, !.st = "sent"]]
  /\ ui' = [Step(ui) EXCEPT !.busy = TRUE, !.rotate = FALSE]
  /\ UNCHANGED <<server, cast>>

CopyPack == Does("copy") /\ Sidebar /\ ~ui.busy /\ Ask("copy")
CanRotate_WhileBusy == Sidebar

CanRotate == Sidebar /\ ~ui.busy
OpenRotate ==
  /\ Does("rotate") /\ CanRotate
  /\ ui' = [Step(ui) EXCEPT !.rotate = TRUE]
  /\ UNCHANGED <<server, calls, cast>>
DismissRotate ==
  /\ Acts /\ ui.rotate
  /\ ui' = [Step(ui) EXCEPT !.rotate = FALSE]
  /\ UNCHANGED <<server, calls, cast>>
ConfirmRotate == Acts /\ ui.rotate /\ Ask("rotate")

\* runCopy: the prompt is copied, unless the clipboard refuses it.
PackReturns(op) ==
  LET k == calls[op] IN
  /\ k.st \in {"ok", "lost"}
  /\ \E copied \in {TRUE} \cup (IF "clipboard" \in cast.does THEN {FALSE} ELSE {}) :
       ui' = IF k.st = "ok" /\ copied
             THEN [ui EXCEPT !.busy = FALSE, !.clip = k.key, !.told = "copied"]
             ELSE [ui EXCEPT !.busy = FALSE, !.told = "failed"]
  /\ calls' = [calls EXCEPT ![op] = NoCall]
  /\ UNCHANGED <<server, cast>>

\* EnsureAgentToken
ServePack(op) ==
  LET new == op = "rotate" \/ server.key = 0
      key == IF new THEN server.last + 1 ELSE server.key
  IN
  /\ calls[op].st = "sent" /\ key <= MaxKey
  /\ server' = [server EXCEPT !.key = key, !.last = IF new THEN key ELSE @]
  /\ calls' = [calls EXCEPT ![op].st = "ok", ![op].key = key]
  /\ UNCHANGED <<ui, cast>>

LosePack(op) ==
  /\ "lose" \in cast.does /\ calls[op].st \in {"sent", "ok"}
  /\ calls' = [calls EXCEPT ![op].st = "lost"]
  /\ UNCHANGED <<server, ui, cast>>

(* The invitation *)

OpenInvite ==
  /\ Does("invite") /\ ui.path.place # "invite" /\ ~ui.rotate
  /\ ui' = [Go(Step(ui), At("invite", None)) EXCEPT !.accepting = FALSE]
  /\ UNCHANGED <<server, calls, cast>>

SubmitToken ==
  /\ Acts /\ ui.path.place = "invite" /\ ~ui.accepting /\ calls["invite"].st = "idle" /\ ~ui.rotate
  /\ calls' = [calls EXCEPT !["invite"].st = "sent"]
  /\ ui' = [Step(ui) EXCEPT !.accepting = TRUE]
  /\ UNCHANGED <<server, cast>>

\* acceptInvite names the project; a token works once.
ServeInvite ==
  /\ calls["invite"].st = "sent"
  /\ calls' = [calls EXCEPT !["invite"].st = IF server.open = None THEN "refused" ELSE "ok",
                            !["invite"].project = server.open]
  /\ server' = IF server.open = None THEN server
               ELSE [server EXCEPT !.member = @ \cup {server.open}, !.open = None]
  /\ UNCHANGED <<ui, cast>>

\* The timer is set even when the page has been left during the request.
InviteReturns ==
  LET k == calls["invite"] IN
  /\ k.st \in {"ok", "refused"}
  /\ ui' = [ui EXCEPT !.accepting = FALSE, !.timer = IF k.st = "ok" THEN k.project ELSE @]
  /\ calls' = [calls EXCEPT !["invite"] = NoCall]
  /\ UNCHANGED <<server, cast>>

TimerFires ==
  /\ ui.timer # None
  /\ ui' = [ui EXCEPT !.path = At("project", ui.timer), !.timer = None]
  /\ UNCHANGED <<server, calls, cast>>

(* The list of the projects, for the switch *)

AskProjects ==
  /\ Does("refresh") /\ calls["projects"].st = "idle"
  /\ calls' = [calls EXCEPT !["projects"].st = "sent"]
  /\ ui' = Step(ui)
  /\ UNCHANGED <<server, cast>>
ProjectsReturn ==
  /\ calls["projects"].st = "sent"
  /\ ui' = [ui EXCEPT !.projects = server.member]
  /\ calls' = [calls EXCEPT !["projects"] = NoCall]
  /\ UNCHANGED <<server, cast>>

Next ==
  \/ ToggleDrawer \/ ToggleCollapsed \/ BackToList \/ FoldMachineBar \/ CopyId
  \/ CopyPack \/ OpenRotate \/ DismissRotate \/ ConfirmRotate
  \/ OpenInvite \/ SubmitToken \/ ServeInvite \/ InviteReturns \/ TimerFires \/ AskProjects \/ ProjectsReturn
  \/ (\E page \in Pages : Navigate(page)) \/ (\E p \in Projects : SwitchProject(p) \/ OpenMachine(p))
  \/ \E op \in {"copy", "rotate"} : PackReturns(op) \/ ServePack(op) \/ LosePack(op)

Spec == Init /\ [][Next]_vars

(* When the message says that the agent's prompt was copied and nothing is *)
(* under way, the key in the clipboard is the one that works: a rotation   *)
(* revokes the older ones, and its answer or the clipboard may fail.       *)
CopiedPackWorks ==
  ui.told = "copied" /\ calls["copy"].st = "idle" /\ calls["rotate"].st = "idle" => ui.clip = server.key
=============================================================================
