---------------------------- MODULE ProjectPages ----------------------------
(***************************************************************************)
(* The list of projects and the page of one project: the create, edit and  *)
(* delete dialogs, the budget form, the usage, and the current project the *)
(* browser remembers. The page of a project stays mounted when the address *)
(* moves to another project; the list is left for good, and the callbacks  *)
(* of what it had sent are lost with it.                                   *)
(***************************************************************************)
EXTENDS AccessRules

CONSTANTS Projects,  \* those of a cast at first, the others may be created
          Slots,
          Casts      \* records [roles: project -> role, platform, without: projects without purpose, steps]

VARIABLES server,    \* alive: the projects there are; purpose: those with one; used: names taken so far
          ui, calls, cast

vars == <<server, ui, calls, cast>>

None == "none"
Sections == {"overview", "workspaces", "members", "settings"}
NoCall == [op |-> None, st |-> "idle", for |-> None, from |-> None, live |-> FALSE, ans |-> None,
           made |-> None]

Init ==
  /\ cast \in Casts
  /\ server = [alive |-> DOMAIN cast.roles, purpose |-> DOMAIN cast.roles \ cast.without,
               used |-> DOMAIN cast.roles]
  /\ ui = [page |-> "list", id |-> None, shown |-> None, section |-> "overview", current |-> None,
           rows |-> DOMAIN cast.roles, noPurpose |-> cast.without, mine |-> FALSE,
           dialog |-> None, target |-> None, fields |-> None, error |-> FALSE,
           creating |-> FALSE, saving |-> FALSE, removing |-> FALSE,
           budget |-> None, budgeting |-> FALSE, usage |-> None, slim |-> FALSE, left |-> cast.steps]
  /\ calls = [c \in Slots |-> NoCall]

Free(c) == calls[c].st = "idle"
Step(u) == [u EXCEPT !.left = @ - 1]
Acts == ui.left > 0
Send(c, op, for, from) ==
  calls' = [calls EXCEPT ![c] = [NoCall EXCEPT !.op = op, !.st = "sent", !.for = for, !.from = from, !.live = TRUE]]

(* What is offered *)

\* canManageProject: administrators, owners, and who created the project.
Owns(p) == p \in DOMAIN cast.roles => cast.roles[p] = "owner"
CanManage(p) == IsPlatformAdmin(cast.platform) \/ Owns(p)
NeedsPurpose == ui.shown # None /\ ui.shown \in ui.noPurpose

\* filteredRows: everything, or what the reader created.
ListRows == {p \in ui.rows : ui.mine => Owns(p)}

RowOffers(p) == {"open"} \cup (IF CanManage(p) THEN {"edit", "delete"} ELSE {})

\* The heading of the page of a project and its purpose gate.
HeadingOffers ==
  (IF CanManage(ui.shown) /\ ~ui.removing THEN {"edit", "delete"} ELSE {})
    \cup (IF NeedsPurpose /\ CanManage(ui.shown) THEN {"edit"} ELSE {})

\* Without a purpose asking for a server opens the edit dialog, for anybody.
WorkspacesOffers == IF NeedsPurpose THEN {"edit"} ELSE {"create_workspace"}
MembersOffers == IF NeedsPurpose THEN {} ELSE {"members"}
SettingsOffers == IF CanManage(ui.shown) THEN {"edit", "budget"} ELSE {}
DangerOffers == IF CanManage(ui.shown) /\ ~ui.removing THEN {"delete"} ELSE {}

\* The overview: what is used, and the cards and the first machines, which
\* lead to the other sections.
UsageOffers == {"usage"}
Shortcuts == {"workspaces", "members"}

SectionOffers ==
  CASE ui.section = "overview" -> UsageOffers \cup Shortcuts
    [] ui.section = "workspaces" -> WorkspacesOffers
    [] ui.section = "members" -> MembersOffers
    [] ui.section = "settings" -> SettingsOffers \cup DangerOffers

DetailOffers == IF ui.page # "detail" \/ ui.shown = None THEN {} ELSE HeadingOffers \cup SectionOffers

(* Moving about *)

\* A page that is left goes with its state and the callbacks of its mutations.
Left(u) ==
  [u EXCEPT !.dialog = None, !.target = None, !.fields = None, !.error = FALSE, !.creating = FALSE,
            !.saving = FALSE, !.removing = FALSE, !.budgeting = FALSE, !.usage = None, !.budget = None,
            !.shown = None, !.mine = FALSE]
Deaf(cs) == [c \in Slots |-> [cs[c] EXCEPT !.live = FALSE]]

Visit(u, p) == [Left(u) EXCEPT !.page = "detail", !.id = p, !.current = p, !.section = "overview"]
ToList(u) == [Left(u) EXCEPT !.page = "list", !.id = None]

OpenProject(p) ==
  /\ Acts /\ ui.page = "list" /\ ui.dialog = None /\ p \in ListRows
  /\ ui' = Visit(Step(ui), p) /\ calls' = Deaf(calls)
  /\ UNCHANGED <<server, cast>>

BackToList ==
  /\ Acts /\ ui.page = "detail" /\ ui.dialog = None
  /\ ui' = ToList(Step(ui)) /\ calls' = Deaf(calls)
  /\ UNCHANGED <<server, cast>>

\* The history moves the mounted page to another project.
Jump(p) ==
  /\ Acts /\ ui.page = "detail" /\ p # ui.id
  /\ ui' = [Step(ui) EXCEPT !.id = p, !.shown = None, !.section = "overview"]
  /\ UNCHANGED <<server, calls, cast>>

\* useOne returns; the effects store the current project and fill the budget form,
\* and an edit dialog left open is filled anew.
ShowProject ==
  /\ ui.page = "detail" /\ ui.shown # ui.id /\ ui.id \in server.alive
  /\ ui' = [ui EXCEPT !.shown = ui.id, !.current = ui.id, !.budget = ui.id,
              !.noPurpose = server.alive \ server.purpose,
              !.target = IF ui.dialog \in {"edit", "delete"} THEN ui.id ELSE @,
              !.fields = IF ui.dialog = "edit" THEN ui.id ELSE @]
  /\ UNCHANGED <<server, calls, cast>>

\* The tabs of the page and of its side bar, which may be folded.
Navigate(section) ==
  /\ Acts /\ ui.page = "detail" /\ ui.dialog = None /\ section # ui.section
  /\ ui' = [Step(ui) EXCEPT !.section = section]
  /\ UNCHANGED <<server, calls, cast>>

FollowShortcut(section) ==
  /\ Acts /\ ui.dialog = None /\ ui.section = "overview" /\ section \in Shortcuts \cap DetailOffers
  /\ ui' = [Step(ui) EXCEPT !.section = section]
  /\ UNCHANGED <<server, calls, cast>>

FoldSideBar ==
  /\ Acts /\ ui.page = "detail" /\ ui' = [Step(ui) EXCEPT !.slim = ~@]
  /\ UNCHANGED <<server, calls, cast>>

Filter ==
  /\ Acts /\ ui.page = "list" /\ ui' = [Step(ui) EXCEPT !.mine = ~@]
  /\ UNCHANGED <<server, calls, cast>>

(* The dialogs *)

Subject == IF ui.page = "detail" THEN {ui.shown} ELSE ListRows

Opened_KeepsFields(u, dialog, p) == [u EXCEPT !.dialog = dialog, !.target = p, !.error = FALSE]

\* The effect on open fills the fields from what is edited.
Opened(u, dialog, p) ==
  [u EXCEPT !.dialog = dialog, !.target = p, !.fields = IF dialog = "delete" THEN @ ELSE p, !.error = FALSE]

OpenDialog(dialog, p) ==
  /\ Acts /\ ui.dialog = None
  /\ \/ dialog = "create" /\ ui.page = "list" /\ p = None
     \/ dialog \in {"edit", "delete"} /\ p \in Subject
          /\ dialog \in IF ui.page = "list" THEN RowOffers(p) ELSE DetailOffers
  /\ ui' = Opened(Step(ui), dialog, p)
  /\ UNCHANGED <<server, calls, cast>>

Closed(u) == [u EXCEPT !.dialog = None, !.target = None, !.error = FALSE]

CloseDialog ==
  /\ ui.dialog # None /\ ui' = Closed(ui)
  /\ UNCHANGED <<server, calls, cast>>

\* handleSubmit keeps invalid input to itself.
RefuseInput ==
  /\ Acts /\ ui.dialog \in {"create", "edit"} /\ ~ui.error /\ ui' = [Step(ui) EXCEPT !.error = TRUE]
  /\ UNCHANGED <<server, calls, cast>>

SubmitCreate(c) ==
  /\ ui.dialog = "create" /\ ~ui.creating /\ Free(c)
  /\ Send(c, "create", None, ui.fields)
  /\ ui' = [ui EXCEPT !.creating = TRUE, !.error = FALSE]
  /\ UNCHANGED <<server, cast>>

SubmitEdit(c) ==
  /\ ui.dialog = "edit" /\ ~ui.saving /\ Free(c) /\ (ui.page = "detail" => ui.shown = ui.id)
  /\ Send(c, "save", IF ui.page = "detail" THEN ui.id ELSE ui.target, ui.fields)
  /\ ui' = [ui EXCEPT !.saving = TRUE, !.error = FALSE]
  /\ UNCHANGED <<server, cast>>

ConfirmDelete(c) ==
  /\ ui.dialog = "delete" /\ Free(c) /\ (ui.page = "detail" => ui.shown = ui.id)
  /\ Send(c, "delete", IF ui.page = "detail" THEN ui.id ELSE ui.target, None)
  /\ ui' = [Closed(ui) EXCEPT !.removing = ui.page = "detail"]
  /\ UNCHANGED <<server, cast>>

SaveBudget(c) ==
  /\ Acts /\ "budget" \in DetailOffers /\ ui.dialog = None /\ ~ui.budgeting /\ ~NeedsPurpose /\ Free(c)
  /\ Send(c, "budget", ui.id, ui.budget)
  /\ ui' = [Step(ui) EXCEPT !.budgeting = TRUE]
  /\ UNCHANGED <<server, cast>>

LoadUsage(c) ==
  /\ Acts /\ ui.page = "detail" /\ Free(c)
  /\ Send(c, "usage", ui.id, None) /\ ui' = Step(ui)
  /\ UNCHANGED <<server, cast>>

\* Success closes whichever dialog of the kind is open. A new project is opened
\* from the list; the page of a deleted one gives way to the list, even when it
\* shows another project by then.
Succeeded(k) ==
  CASE k.op = "create" -> Visit(ui, k.made)
    [] k.op = "save" -> [(IF ui.dialog = "edit" THEN Closed(ui) ELSE ui) EXCEPT !.saving = FALSE]
    [] k.op = "delete" -> [(IF ui.page = "detail" THEN ToList(ui) ELSE ui)
                             EXCEPT !.current = IF @ = k.for THEN None ELSE @]
    [] k.op = "budget" -> [ui EXCEPT !.budgeting = FALSE]
    [] OTHER -> [ui EXCEPT !.usage = k.for]

\* Every dialog of the list shows the one error there is.
Failed(k) ==
  CASE k.op = "create" -> [ui EXCEPT !.creating = FALSE, !.error = ui.dialog \in {"create", "edit"}]
    [] k.op = "save" -> [ui EXCEPT !.saving = FALSE, !.error = ui.dialog \in {"create", "edit"}]
    [] k.op = "delete" -> [ui EXCEPT !.removing = FALSE]
    [] k.op = "budget" -> [ui EXCEPT !.budgeting = FALSE]
    [] OTHER -> ui

Returns(c) ==
  LET k == calls[c]
      rest == [calls EXCEPT ![c] = NoCall]
  IN
  /\ k.st = "answered"
  /\ ui' = IF ~k.live THEN ui ELSE IF k.ans = "ok" THEN Succeeded(k) ELSE Failed(k)
  /\ calls' = IF ui'.page = ui.page THEN rest ELSE Deaf(rest)
  /\ UNCHANGED <<server, cast>>

\* The list is fetched again after a mutation and on demand.
Refetch ==
  /\ ui.page = "list" /\ ui.rows # server.alive
  /\ ui' = [ui EXCEPT !.rows = server.alive, !.noPurpose = server.alive \ server.purpose]
  /\ UNCHANGED <<server, calls, cast>>

(* PatchProject, DeleteProject and CreateProject; a slug may be taken *)

Refuses(k) ==
  \/ k.op \in {"save", "budget", "delete"} /\ (k.for \notin server.alive \/ ~CanManage(k.for))
  \/ k.op = "usage" /\ k.for \notin server.alive
  \/ k.op = "budget" /\ k.for \notin server.purpose
  \/ k.op = "create" /\ server.used = Projects

Serve(c) ==
  LET k == calls[c] IN
  /\ k.st = "sent"
  /\ \/ /\ calls' = [calls EXCEPT ![c].st = "answered", ![c].ans = "failed"]
        /\ UNCHANGED server
     \/ /\ ~Refuses(k)
        /\ \E new \in IF k.op = "create" THEN Projects \ server.used ELSE {None} :
             /\ calls' = [calls EXCEPT ![c].st = "answered", ![c].ans = "ok", ![c].made = new]
             /\ server' = CASE k.op = "create" -> [alive |-> server.alive \cup {new}, used |-> server.used \cup {new},
                                                  purpose |-> server.purpose \cup {new}]
                            [] k.op = "save" -> [server EXCEPT !.purpose = @ \cup {k.for}]
                            [] k.op = "delete" -> [server EXCEPT !.alive = @ \ {k.for}]
                            [] OTHER -> server
  /\ UNCHANGED <<ui, cast>>

Next ==
  \/ BackToList \/ ShowProject \/ FoldSideBar \/ Filter \/ CloseDialog \/ RefuseInput \/ Refetch
  \/ \E s \in Sections : Navigate(s) \/ FollowShortcut(s)
  \/ \E p \in Projects : OpenProject(p) \/ Jump(p)
  \/ \E d \in {"create", "edit", "delete"}, p \in Projects \cup {None} : OpenDialog(d, p)
  \/ \E c \in Slots :
       \/ SubmitCreate(c) \/ SubmitEdit(c) \/ ConfirmDelete(c) \/ SaveBudget(c) \/ LoadUsage(c)
       \/ Returns(c) \/ Serve(c)

Spec == Init /\ [][Next]_vars

(* Whatever dialogs were opened and closed before, wherever the address    *)
(* has moved and whatever came back late, the values of a form are only    *)
(* ever sent to the project they were loaded from (the effects that fill   *)
(* ProjectFormDialog and the budget form).                                 *)
SavedToItsProject ==
  \A c \in Slots : calls[c].op \in {"save", "budget"} => calls[c].from = calls[c].for
=============================================================================
