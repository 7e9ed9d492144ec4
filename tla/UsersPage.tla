------------------------------ MODULE UsersPage ------------------------------
(***************************************************************************)
(* The accounts of the platform: the list with its filters and the five    *)
(* dialogs over it, which stay mounted, follow the row they were opened    *)
(* on through every refresh of the list, and have busy flags of their own. *)
(* The server reads the whole row of an account, and writes it back whole. *)
(***************************************************************************)
EXTENDS AccessRules

CONSTANTS People, Me, Slots,
          Casts    \* records [roles: person -> platform role, does, steps]

VARIABLES server,  \* users: person -> row; joined, owns: the people in, and owning, the project
          ui, calls, cast

vars == <<server, ui, calls, cast>>

None == "none"
Kinds == {"configure", "suspend", "reset", "delete", "add"}
Filters == {"all", "suspended", "active", "unjoined"} \cup PlatformRoles
NoRow == [role |-> "platform_user", status |-> "deleted"]
NoList == [users |-> [u \in People |-> NoRow], joined |-> {}]
NoCall == [op |-> None, st |-> "idle", who |-> None, arg |-> None, row |-> NoRow, data |-> NoList]
List == "list"    \* the query of the page: asking again drops the previous request

Init ==
  /\ cast \in Casts
  /\ server = [users |-> [u \in People |-> [role |-> cast.roles[u], status |-> "active"]],
               joined |-> {}, owns |-> {}]
  /\ ui = [users |-> server.users, rows |-> People, joined |-> {}, filter |-> "all", batch |-> FALSE,
           action |-> None, user |-> None, taken |-> NoRow,
           role |-> "platform_user", roleOf |-> None, project |-> FALSE,
           password |-> None, saving |-> FALSE, toggling |-> FALSE, suspending |-> FALSE,
           deleting |-> FALSE, resetting |-> FALSE, adding |-> FALSE, left |-> cast.steps]
  /\ calls = [c \in Slots \cup {List} |-> NoCall]

\* Everything the person does counts.
Acts == ui.left > 0
Does(what) == what \in cast.does /\ Acts
Step(u) == [u EXCEPT !.left = @ - 1]
Free(c) == calls[c].st = "idle"
Sent(op, who, arg) == [NoCall EXCEPT !.op = op, !.st = "sent", !.who = who, !.arg = arg]

(* The list *)

\* matchesUserFilters, for one of the three filters at a time.
Matches(u) ==
  LET row == ui.users[u] IN
  \/ ui.filter = "all" \/ ui.filter \in {row.role, row.status}
  \/ ui.filter = "unjoined" /\ u \notin ui.joined
Filtered == {u \in ui.rows : Matches(u)}

SetFilter(f) ==
  /\ Does("filter") /\ ui.action = None /\ ~ui.batch /\ f # ui.filter
  /\ ui' = [Step(ui) EXCEPT !.filter = f]
  /\ UNCHANGED <<server, calls, cast>>

\* The buttons of a row: none works on one's own account.
RowOffers(u) == IF u = Me THEN {} ELSE Kinds \ {"add"}

(* The dialogs *)

\* The row an open dialog shows: the one of the list, or the one it was
\* opened on if the list has lost it.
Target(v) == IF v.user \in v.rows THEN v.users[v.user] ELSE v.taken

\* What the effects of the dialogs depend on.
ConfigOf(v) == IF v.action = "configure" THEN <<v.user, Target(v).role>> ELSE <<None, "platform_user">>
UserIn(v, kind) == IF v.action = kind THEN v.user ELSE None

Effects_SameRoleKept(v) ==
  [v EXCEPT !.role = IF ConfigOf(v)[2] # ConfigOf(ui)[2] THEN ConfigOf(v)[2] ELSE @,
            !.roleOf = IF ConfigOf(v)[2] # ConfigOf(ui)[2] THEN ConfigOf(v)[1] ELSE @,
            !.project = @ /\ UserIn(v, "add") = UserIn(ui, "add"),
            !.password = IF UserIn(v, "reset") # UserIn(ui, "reset") THEN None ELSE @,
            !.resetting = @ /\ UserIn(v, "reset") = UserIn(ui, "reset")]

\* The effects that fill or clear the dialogs run when the page has changed.
Effects(v) ==
  [v EXCEPT !.role = IF ConfigOf(v) # ConfigOf(ui) THEN ConfigOf(v)[2] ELSE @,
            !.roleOf = IF ConfigOf(v) # ConfigOf(ui) THEN ConfigOf(v)[1] ELSE @,
            !.project = @ /\ UserIn(v, "add") = UserIn(ui, "add"),
            !.password = IF UserIn(v, "reset") # UserIn(ui, "reset") THEN None ELSE @,
            !.resetting = @ /\ UserIn(v, "reset") = UserIn(ui, "reset")]

Open(kind, u) ==
  /\ Does(kind) /\ ui.action = None /\ ~ui.batch /\ u \in Filtered /\ kind \in RowOffers(u)
  /\ ui' = Effects([Step(ui) EXCEPT !.action = kind, !.user = u, !.taken = ui.users[u]])
  /\ UNCHANGED <<server, calls, cast>>

\* The dialog that configures leads to the one that adds to a project.
OpenAdd ==
  /\ Does("add") /\ ui.action = "configure"
  /\ ui' = Effects([Step(ui) EXCEPT !.action = "add", !.taken = Target(ui)])
  /\ UNCHANGED <<server, calls, cast>>

Closed(v) == [v EXCEPT !.action = None, !.user = None]

Close ==
  /\ Acts /\ ui.action # None
  /\ ui' = Effects(Closed(Step(ui)))
  /\ UNCHANGED <<server, calls, cast>>

\* The batch dialog is the one of the member pages.
OpenBatch ==
  /\ Does("batch") /\ ui.action = None
  /\ ui' = [Step(ui) EXCEPT !.batch = ~@]
  /\ UNCHANGED <<server, calls, cast>>

ChooseRole(role) ==
  /\ Acts /\ ui.action = "configure" /\ role # ui.role
  /\ ui' = [Step(ui) EXCEPT !.role = role]
  /\ UNCHANGED <<server, calls, cast>>

ChooseProject ==
  /\ Acts /\ ui.action = "add" /\ ui.user \notin ui.joined
  /\ ui' = [Step(ui) EXCEPT !.project = ~@]
  /\ UNCHANGED <<server, calls, cast>>

(* Requests: each has its own busy flag, and nothing else holds it back *)

Request(c, call, u) ==
  /\ Acts /\ Free(c)
  /\ calls' = [calls EXCEPT ![c] = call]
  /\ ui' = Step(u)
  /\ UNCHANGED <<server, cast>>

Toggle(v) == IF Target(v).status = "suspended" THEN "unsuspend" ELSE "suspend"

Save(c) ==
  /\ ui.action = "configure" /\ ~ui.saving
  /\ Request(c, Sent("patch", ui.user, ui.role), [ui EXCEPT !.saving = TRUE])
ToggleStatus(c) ==
  /\ ui.action = "configure" /\ ~ui.toggling
  /\ Request(c, Sent(Toggle(ui), ui.user, "configure"), [ui EXCEPT !.toggling = TRUE])
ConfirmSuspend(c) ==
  /\ ui.action = "suspend" /\ ~ui.suspending
  /\ Request(c, Sent(Toggle(ui), ui.user, "suspend"), [ui EXCEPT !.suspending = TRUE])
ConfirmDelete(c) ==
  /\ ui.action = "delete" /\ ~ui.deleting
  /\ Request(c, Sent("delete", ui.user, None), [ui EXCEPT !.deleting = TRUE])
Generate(c) ==
  /\ ui.action = "reset" /\ ui.password = None /\ ~ui.resetting
  /\ Request(c, Sent("reset", ui.user, None), [ui EXCEPT !.resetting = TRUE])
SubmitAdd(c) ==
  /\ ui.action = "add" /\ ui.project /\ ~ui.adding /\ ui.user \notin ui.joined
  /\ Request(c, Sent("add", ui.user, None), [ui EXCEPT !.adding = TRUE])

\* A finished request clears its flag. Those of the confirmations and of the
\* dialog that adds also close whichever dialog is open by then.
Finished(k) ==
  LET ok == k.st = "ok"
      v == CASE k.op = "patch" -> [ui EXCEPT !.saving = FALSE]
             [] k.op = "reset" -> [ui EXCEPT !.resetting = FALSE, !.password = IF ok THEN k.who ELSE @]
             [] k.op = "delete" -> [ui EXCEPT !.deleting = FALSE]
             [] k.op = "add" -> [ui EXCEPT !.adding = FALSE]
             [] k.arg = "configure" -> [ui EXCEPT !.toggling = FALSE]
             [] OTHER -> [ui EXCEPT !.suspending = FALSE]
  IN IF ok /\ (k.op \in {"delete", "add"} \/ k.arg = "suspend") THEN Effects(Closed(v)) ELSE v

Returns(c) ==
  LET k == calls[c] IN
  /\ k.st \in {"ok", "refused"}
  /\ ui' = Finished(k)
  /\ calls' = [calls EXCEPT ![c] = NoCall,
                            ![List] = IF k.st = "ok" /\ k.op # "reset" THEN Sent("list", None, None) ELSE @]
  /\ UNCHANGED <<server, cast>>

Refresh ==
  /\ Does("refresh") /\ ui.action = None /\ ~ui.batch
  /\ ui' = Step(ui)
  /\ calls' = [calls EXCEPT ![List] = Sent("list", None, None)]
  /\ UNCHANGED <<server, cast>>

\* The list arrives; an open dialog is filled anew if its row changed.
ListReturns ==
  LET list == calls[List].data IN
  /\ calls[List].st = "ok"
  /\ ui' = Effects([ui EXCEPT !.users = list.users, !.joined = list.joined,
                              !.rows = {u \in People : list.users[u].status # "deleted"}])
  /\ calls' = [calls EXCEPT ![List] = NoCall]
  /\ UNCHANGED <<server, cast>>

(* The server *)

\* refuseLastAdmin
IsLastAdmin(u) ==
  /\ server.users[u].role = "platform_admin" /\ server.users[u].status = "active"
  /\ \A v \in People \ {u} : ~(server.users[v].role = "platform_admin" /\ server.users[v].status = "active")

\* Adding to a project does not look at the status: a deleted account joins too.
Refuses(k) ==
  \/ server.users[k.who].status = "deleted" /\ k.op # "add"
  \/ k.op \in {"suspend", "delete"} /\ IsLastAdmin(k.who)
  \/ k.op = "patch" /\ k.arg # "platform_admin" /\ server.users[k.who].role = "platform_admin" /\ IsLastAdmin(k.who)
  \/ k.op = "delete" /\ k.who \in server.owns
  \/ k.op = "add" /\ k.who \in server.joined

\* Whether the handler writes, and the row it writes back over the one it
\* has read; a new password leaves the rest of the row as it was read.
Writes(k) ==
  /\ k.op = "patch" => k.arg # k.row.role
  /\ k.op = "suspend" => k.row.status # "suspended"
  /\ k.op = "unsuspend" => k.row.status # "active"
Changed(k) ==
  CASE k.op = "patch" -> [k.row EXCEPT !.role = k.arg]
    [] k.op = "suspend" -> [k.row EXCEPT !.status = "suspended"]
    [] k.op = "unsuspend" -> [k.row EXCEPT !.status = "active"]
    [] k.op = "delete" -> [k.row EXCEPT !.status = "deleted"]
    [] OTHER -> k.row

ServeList ==
  /\ calls[List].st = "sent"
  /\ calls' = [calls EXCEPT ![List].st = "ok", ![List].data = [users |-> server.users, joined |-> server.joined]]
  /\ UNCHANGED <<server, ui, cast>>

\* Reading the row and its checks, then writing; nothing holds the row between.
ServeRead(c) ==
  LET k == calls[c] IN
  /\ k.st = "sent"
  /\ calls' = [calls EXCEPT ![c].st = IF Refuses(k) THEN "refused" ELSE "read", ![c].row = server.users[k.who]]
  /\ UNCHANGED <<server, ui, cast>>

ServeWrite(c) ==
  LET k == calls[c] IN
  /\ k.st = "read"
  /\ server' = CASE k.op = "add" -> [server EXCEPT !.joined = @ \cup {k.who}]
                 [] k.op # "add" /\ Writes(k) ->
                      [server EXCEPT !.users[k.who] = Changed(k),
                                     !.joined = IF k.op = "delete" THEN @ \ {k.who} ELSE @]
                 [] OTHER -> server
  /\ calls' = [calls EXCEPT ![c].st = "ok"]
  /\ UNCHANGED <<ui, cast>>

\* A project is handed to a member of it (elsewhere).
HandOver(u) ==
  /\ Does("own") /\ u \in server.joined \ server.owns
  /\ server' = [server EXCEPT !.owns = @ \cup {u}]
  /\ UNCHANGED <<ui, calls, cast>>

Next ==
  \/ Close \/ OpenAdd \/ OpenBatch \/ Refresh \/ ChooseProject \/ ListReturns \/ ServeList
  \/ (\E f \in Filters : SetFilter(f)) \/ (\E r \in PlatformRoles : ChooseRole(r))
  \/ (\E k \in Kinds, u \in People : Open(k, u)) \/ (\E u \in People : HandOver(u))
  \/ \E c \in Slots :
       \/ Save(c) \/ ToggleStatus(c) \/ ConfirmSuspend(c) \/ ConfirmDelete(c) \/ Generate(c) \/ SubmitAdd(c)
       \/ Returns(c) \/ ServeRead(c) \/ ServeWrite(c)

Spec == Init /\ [][Next]_vars

(* Through every refresh of the list and every dialog that is opened over  *)
(* another, the role in the form that configures an account was filled in  *)
(* from that account, or chosen in the dialog since it named it (the keys  *)
(* of the effect of ConfigureUserDialog).                                  *)
FormOfThisUser == ui.action = "configure" => ui.roleOf = ui.user

(* An account whose suspension was confirmed, "existing logins end at      *)
(* once" (actions.tsx:243), is active again only when the service is asked *)
(* to restore it.                                                          *)
OnlyRestoredWhenAsked ==
  \A u \in People :
    server.users[u].status = "suspended" /\ server'.users[u].status = "active"
      => \E c \in Slots : calls[c].st = "read" /\ calls'[c].st = "ok"
                            /\ calls[c].op = "unsuspend" /\ calls[c].who = u
SuspensionSticks == [][OnlyRestoredWhenAsked]_vars
=============================================================================
