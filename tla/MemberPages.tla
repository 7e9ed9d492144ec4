----------------------------- MODULE MemberPages -----------------------------
(***************************************************************************)
(* The members of a project: the list with its role and SSH controls, the  *)
(* dialogs that add, invite, remove and create people, and the selector of *)
(* the page for platform admins that moves the list to another project.    *)
(* Loads and operations are not cancelled when the project changes; only   *)
(* the list of candidates is. The projects here have their purpose.        *)
(***************************************************************************)
EXTENDS AccessRules

CONSTANTS Projects, People, Me, Slots,
          Casts    \* records [members: project -> person -> role or "none", platform, does, steps]

VARIABLES server,  \* members, ssh: project -> person -> value; users: the accounts
          ui, calls, cast

vars == <<server, ui, calls, cast>>

None == "none"
AssignableRoles == {"viewer", "developer", "admin"}
Rank == [r \in ProjectRoles \cup {None} |->
          CASE r = "owner" -> 4 [] r = "admin" -> 3 [] r = "developer" -> 2 [] r = "viewer" -> 1 [] OTHER -> 0]
NoCall == [op |-> None, st |-> "idle", for |-> None, who |-> None, arg |-> None, live |-> TRUE,
           ans |-> None, data |-> [role |-> [u \in People |-> None], ssh |-> [u \in People |-> None]]]
NoRows == NoCall.data

DefaultSsh(role) == IF Rank[role] >= 3 THEN "granted" ELSE None

Blank(steps) ==
  [project |-> None, rows |-> NoRows, rowsFor |-> None, loading |-> FALSE, busy |-> FALSE,
   dialog |-> None, person |-> None, candidates |-> {}, candidatesFor |-> None, fetching |-> FALSE,
   token |-> None, filter |-> "all", join |-> TRUE, target |-> None, lines |-> {},
   result |-> FALSE, left |-> steps]

Init ==
  /\ cast \in Casts
  /\ server = [members |-> cast.members, users |-> People,
               ssh |-> [p \in Projects |-> [u \in People |-> DefaultSsh(cast.members[p][u])]]]
  /\ ui = Blank(cast.steps)
  /\ calls = [c \in Slots |-> NoCall]

Free(c) == calls[c].st = "idle"
Does(what) == what \in cast.does /\ ui.left > 0
Step(u) == [u EXCEPT !.left = @ - 1]
Sent(op, for, who, arg) == [NoCall EXCEPT !.op = op, !.st = "sent", !.for = for, !.who = who, !.arg = arg]

(* What is offered *)

MyRole == ui.rows.role[Me]
CanManage == CanManageMembers(MyRole, cast.platform)
Members == {u \in People : ui.rows.role[u] # None}

\* matchesMemberFilters; the rows on the screen, where a load puts a spinner.
Shown == {u \in Members : ~ui.loading /\ ui.filter \in {"all", ui.rows.role[u]}}

\* The role and SSH controls and the button of a row.
RowOffers(u) ==
  IF ~CanManage \/ ui.rows.role[u] = "owner" \/ ui.busy THEN {}
  ELSE {"role", "remove"} \cup (IF ui.rows.role[u] # "admin" THEN {"ssh"} ELSE {})

\* The global page, before a project is selected; its card and the selector,
\* which also leads back to it, name the projects.
GlobalOffers == IF CanViewGlobalMembers(cast.platform) THEN {"batch"} ELSE {}
Choices ==
  (Projects \ {ui.project}) \cup
    (IF ui.project # None /\ CanViewGlobalMembers(cast.platform) THEN {None} ELSE {})

HeadingOffers ==
  IF ui.project = None THEN GlobalOffers
  ELSE (IF MyRole = "developer" /\ ~CanSSH(MyRole, ui.rows.ssh[Me], cast.platform)
           /\ ~ui.busy /\ ui.rows.ssh[Me] # "pending" THEN {"request"} ELSE {})
         \cup (IF CanManage THEN {"add", "invite", "batch"} ELSE {})

CandidateOptions == ui.candidates \ Members

(* Selecting a project *)

\* The global page is for platform admins; anybody reaches the members of a
\* project from its page. The effect on the project loads and resets; the first
\* project takes the global dialog of accounts off the page.
SelectProject(c, p) ==
  /\ Does("select") /\ ui.dialog = None /\ p \in Choices \ {None} /\ Free(c)
  /\ ui' = [Step(ui) EXCEPT !.project = p, !.loading = TRUE, !.token = None, !.filter = "all",
              !.result = @ /\ ui.project # None, !.lines = IF ui.project # None THEN @ ELSE {}]
  /\ calls' = [d \in Slots |-> IF d = c THEN Sent("load", p, None, None)
                               ELSE [calls[d] EXCEPT !.live = @ /\ (ui.project # None \/ calls[d].op # "batch")]]
  /\ UNCHANGED <<server, cast>>

\* Back to the global page: the list is unmounted, what it asked for is not.
Deselect ==
  /\ Does("select") /\ ui.dialog = None /\ None \in Choices
  /\ ui' = Blank(ui.left - 1)
  /\ calls' = [c \in Slots |-> [calls[c] EXCEPT !.live = Free(c)]]
  /\ UNCHANGED <<server, cast>>

\* The members of whichever project was asked for last to answer.
LoadReturns(c) ==
  LET k == calls[c] IN
  /\ k.st = "answered" /\ k.op \in {"load", "reload"}
  /\ ui' = IF ~k.live THEN ui ELSE
           [ui EXCEPT !.rows = IF k.ans = "ok" THEN k.data ELSE NoRows, !.rowsFor = k.for,
                       !.loading = FALSE, !.busy = @ /\ k.op = "load"]
  /\ calls' = [calls EXCEPT ![c] = NoCall]
  /\ UNCHANGED <<server, cast>>

SetFilter(f) ==
  /\ Does("filter") /\ ui.dialog = None /\ f # ui.filter
  /\ ui' = [Step(ui) EXCEPT !.filter = f]
  /\ UNCHANGED <<server, calls, cast>>

(* The dialogs *)

\* Opening the dialog starts a query for candidates.
OpenAdd(c) ==
  /\ Does("add") /\ ui.dialog = None /\ "add" \in HeadingOffers /\ Free(c)
  /\ ui' = [Step(ui) EXCEPT !.dialog = "add", !.person = None, !.fetching = TRUE]
  /\ calls' = [calls EXCEPT ![c] = Sent("candidates", ui.project, None, None)]
  /\ UNCHANGED <<server, cast>>

CancelCandidates_None(cs) == cs

CancelCandidates(cs) ==
  [c \in Slots |-> IF cs[c].op = "candidates" THEN [cs[c] EXCEPT !.live = FALSE] ELSE cs[c]]

CandidatesReturn(c) ==
  LET k == calls[c] IN
  /\ k.st = "answered" /\ k.op = "candidates"
  /\ ui' = IF ~k.live THEN ui
           ELSE [ui EXCEPT !.fetching = FALSE, !.candidatesFor = k.for,
                   !.candidates = IF k.ans = "ok" THEN {u \in People : k.data.role[u] = None} ELSE {}]
  /\ calls' = [calls EXCEPT ![c] = NoCall]
  /\ UNCHANGED <<server, cast>>

Choose(u) ==
  /\ ui.dialog = "add" /\ ~ui.fetching /\ u \in CandidateOptions /\ u # ui.person
  /\ ui' = [ui EXCEPT !.person = u]
  /\ UNCHANGED <<server, calls, cast>>

OpenDialog(d, u) ==
  /\ Does(d) /\ ui.dialog = None
  /\ \/ d \in {"invite", "batch"} /\ u = None /\ d \in HeadingOffers
     \/ d = "remove" /\ u \in Shown /\ "remove" \in RowOffers(u)
  /\ ui' = [Step(ui) EXCEPT !.dialog = d, !.person = u]
  /\ UNCHANGED <<server, calls, cast>>

\* The button under the result of a batch takes it and the text away, the cross
\* and the button of the form leave them.
CloseDialog ==
  /\ ui.dialog # None
  /\ LET closed == [ui EXCEPT !.dialog = None, !.person = None] IN
     \/ ui' = closed
     \/ ui.dialog = "batch" /\ ui.result /\ ui' = [closed EXCEPT !.result = FALSE, !.lines = {}]
  /\ calls' = IF ui.dialog = "add" THEN CancelCandidates(calls) ELSE calls
  /\ UNCHANGED <<server, cast>>

(* Operations *)

Operate(c, call, u) ==
  /\ Free(c)
  /\ calls' = [calls EXCEPT ![c] = call]
  /\ ui' = [u EXCEPT !.busy = TRUE]
  /\ UNCHANGED <<server, cast>>

SubmitAdd(c, role) ==
  /\ ui.dialog = "add" /\ ~ui.busy /\ ui.person # None
  /\ Operate(c, Sent("add", ui.project, ui.person, role), ui)

SubmitInvite(c, role) ==
  /\ ui.dialog = "invite" /\ ~ui.busy
  /\ Operate(c, Sent("invite", ui.project, None, role), ui)

ConfirmRemove(c) ==
  /\ ui.dialog = "remove" /\ ui.person # None
  /\ Operate(c, Sent("remove", ui.project, ui.person, None), [ui EXCEPT !.dialog = None, !.person = None])

\* Making somebody an admin grants SSH in the same request.
ChangeRole(c, u, role) ==
  /\ Does("role") /\ ui.dialog = None /\ u \in Shown /\ "role" \in RowOffers(u) /\ role # ui.rows.role[u]
  /\ Operate(c, Sent("role", ui.project, u, role), Step(ui))

ToggleSsh(c, u) ==
  /\ Does("ssh") /\ ui.dialog = None /\ u \in Shown /\ "ssh" \in RowOffers(u)
  /\ Operate(c, Sent("ssh", ui.project, u, IF ui.rows.ssh[u] = "granted" THEN "revoked" ELSE "granted"), Step(ui))

RequestSsh(c) ==
  /\ Does("request") /\ ui.dialog = None /\ "request" \in HeadingOffers
  /\ Operate(c, Sent("request", ui.project, Me, None), Step(ui))

\* After success the list is loaded, for the project that was shown when the
\* operation was started, and only then the page is free.
OperationReturns(c) ==
  LET k == calls[c] IN
  /\ k.st = "answered" /\ k.op \in {"add", "remove", "role", "ssh", "request", "invite"}
  /\ IF k.ans = "ok" /\ k.op # "invite"
     THEN LET closes == k.live /\ k.op = "add" /\ ui.dialog = "add"
              rest == [calls EXCEPT ![c] = [Sent("reload", k.for, None, None) EXCEPT !.live = k.live]]
          IN /\ calls' = IF closes THEN CancelCandidates(rest) ELSE rest
             /\ ui' = [ui EXCEPT !.loading = @ \/ k.live, !.dialog = IF closes THEN None ELSE @,
                                 !.person = IF closes THEN None ELSE @]
     ELSE /\ calls' = [calls EXCEPT ![c] = NoCall]
          /\ ui' = [ui EXCEPT !.busy = @ /\ ~k.live, !.token = IF k.live /\ k.ans = "ok" THEN k.for ELSE @]
  /\ UNCHANGED <<server, cast>>

(* Creating accounts in a batch *)

\* A line of the text by its columns: a name, an address, a display name and a
\* password; of three columns the last is the password if it is long enough.
Lines == [fields : {1}, mail : {FALSE}, secret : {None}] \cup [fields : {2}, mail : BOOLEAN, secret : {None}]
           \cup [fields : {3, 4}, mail : {TRUE}, secret : {"short", "long"}]
Password(l) == IF l.fields = 3 /\ l.secret = "short" THEN None ELSE l.secret
ParsesAs(l) ==
  CASE l.fields = 1 -> "incomplete" [] l.fields > 1 /\ ~l.mail -> "no address"
    [] l.mail /\ Password(l) = "short" -> "short password" [] OTHER -> "user"
ValidUsers == {l \in ui.lines : ParsesAs(l) = "user"}

EditLines(l) ==
  /\ Does("batch") /\ ui.dialog = "batch" /\ ~ui.result
  /\ ui' = [Step(ui) EXCEPT !.lines = IF l \in @ THEN @ \ {l} ELSE @ \cup {l}]
  /\ UNCHANGED <<server, calls, cast>>

\* The box inside a project, the select box of the global page.
Tick ==
  /\ Does("batch") /\ ui.dialog = "batch" /\ ~ui.result
  /\ IF ui.project # None THEN ui' = [Step(ui) EXCEPT !.join = ~@]
     ELSE \E p \in (Projects \cup {None}) \ {ui.target} : ui' = [Step(ui) EXCEPT !.target = p]
  /\ UNCHANGED <<server, calls, cast>>

\* effectiveProjectId: inside a project the box makes no difference.
EffectiveProject == IF ui.project # None THEN ui.project ELSE ui.target

\* What a success loads is settled here: the list of the project shown, if any.
SubmitBatch(c) ==
  /\ ui.dialog = "batch" /\ ~ui.result /\ ValidUsers # {} /\ Free(c)
  /\ \A d \in Slots : calls[d].op = "batch" => ~calls[d].live
  /\ calls' = [calls EXCEPT ![c] = Sent("batch", EffectiveProject, None, ui.project)]
  /\ UNCHANGED <<server, ui, cast>>

\* The result stays for whoever opens the dialog next. Some lines may have
\* failed; the list is loaded if one succeeded.
BatchReturns(c) ==
  LET k == calls[c] IN
  /\ k.st = "answered" /\ k.op = "batch"
  /\ \E some \in BOOLEAN :
       LET loads == some /\ k.ans = "ok" /\ k.arg # None IN
       /\ calls' = [calls EXCEPT ![c] = IF ~loads THEN NoCall
                                        ELSE [Sent("load", k.arg, None, None) EXCEPT !.live = k.live]]
       /\ ui' = [ui EXCEPT !.result = @ \/ (k.live /\ k.ans = "ok"), !.loading = @ \/ (k.live /\ loads)]
  /\ UNCHANGED <<server, cast>>

BackToBatch ==
  /\ ui.dialog = "batch" /\ ui.result
  /\ ui' = [ui EXCEPT !.result = FALSE]
  /\ UNCHANGED <<server, calls, cast>>

(* The server *)

Role(p, u) == IF IsPlatformAdmin(cast.platform) THEN "owner" ELSE server.members[p][u]

Refuses(k) ==
  LET mine == Role(k.for, Me) IN
  CASE k.op \in {"load", "reload"} -> mine = None
    [] k.op = "request" -> mine = None
    [] k.op = "batch" -> IF k.for = None THEN ~IsPlatformAdmin(cast.platform) ELSE Rank[mine] < 3
    [] k.op = "add" -> Rank[mine] < 3 \/ (Rank[k.arg] >= 3 /\ Rank[mine] < 4) \/ server.members[k.for][k.who] # None
    [] k.op = "invite" -> Rank[mine] < 3 \/ (Rank[k.arg] >= 3 /\ Rank[mine] < 4)
    [] k.op = "remove" -> Rank[mine] < 3 \/ server.members[k.for][k.who] = None
                            \/ (server.members[k.for][k.who] = "owner" /\ ~IsPlatformAdmin(cast.platform))
                            \/ (k.who # Me /\ Rank[server.members[k.for][k.who]] >= Rank[mine])
    [] k.op \in {"role", "ssh"} -> Rank[mine] < 3 \/ server.members[k.for][k.who] = None
    [] OTHER -> Rank[mine] < 3

Effect(k) ==
  CASE k.op = "add" -> [server EXCEPT !.members[k.for][k.who] = k.arg, !.ssh[k.for][k.who] = DefaultSsh(k.arg)]
    [] k.op = "remove" -> [server EXCEPT !.members[k.for][k.who] = None, !.ssh[k.for][k.who] = None]
    [] k.op = "role" -> [server EXCEPT !.members[k.for][k.who] = k.arg,
                                       !.ssh[k.for][k.who] = IF k.arg = "admin" THEN "granted" ELSE @]
    [] k.op = "ssh" -> [server EXCEPT !.ssh[k.for][k.who] = k.arg]
    [] k.op = "request" -> [server EXCEPT !.ssh[k.for][Me] = IF @ = "granted" \/ Rank[Role(k.for, Me)] >= 3 THEN @ ELSE "pending"]
    [] OTHER -> server

Serve(c) ==
  LET k == calls[c]
      ans == IF Refuses(k) THEN "refused" ELSE "ok"
  IN
  /\ k.st = "sent"
  /\ server' = IF ans = "ok" THEN Effect(k) ELSE server
  /\ calls' = [calls EXCEPT ![c].st = "answered", ![c].ans = ans,
        ![c].data = IF k.op \in {"load", "reload", "candidates"}
                    THEN [role |-> server'.members[k.for], ssh |-> server'.ssh[k.for]] ELSE @]
  /\ UNCHANGED <<ui, cast>>

Next ==
  \/ CloseDialog \/ Deselect \/ Tick \/ BackToBatch
  \/ \E f \in {"all"} \cup ProjectRoles : SetFilter(f)
  \/ \E u \in People : Choose(u)
  \/ \E l \in Lines : EditLines(l)
  \/ \E d \in {"invite", "batch", "remove"}, u \in People \cup {None} : OpenDialog(d, u)
  \/ \E c \in Slots :
       \/ (\E p \in Projects : SelectProject(c, p)) \/ OpenAdd(c) \/ ConfirmRemove(c) \/ RequestSsh(c)
       \/ (\E r \in AssignableRoles : SubmitAdd(c, r) \/ SubmitInvite(c, r))
       \/ (\E u \in People : ToggleSsh(c, u) \/ \E r \in AssignableRoles : ChangeRole(c, u, r))
       \/ SubmitBatch(c) \/ LoadReturns(c) \/ CandidatesReturn(c) \/ OperationReturns(c)
       \/ BatchReturns(c) \/ Serve(c)

Spec == Init /\ [][Next]_vars

(* However the dialog is closed and opened again while queries are out,    *)
(* and the list moved to another project in between, the candidates it     *)
(* lets one choose from are those of the project they are added to (the    *)
(* cancelled flag of the effect in MemberList.tsx).                        *)
CandidatesOfThisProject ==
  ui.dialog = "add" /\ ~ui.fetching => ui.candidatesFor = ui.project
=============================================================================
