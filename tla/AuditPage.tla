------------------------------ MODULE AuditPage ------------------------------
(***************************************************************************)
(* The audit log: each row names the resource it is about, and leads to    *)
(* its page where the account may open it.  What is alive is known from    *)
(* lists loaded beside the log, or asked of the server on the click; the   *)
(* answer moves the browser wherever the person has gone meanwhile.        *)
(***************************************************************************)
EXTENDS AccessRules

CONSTANTS Logs,
          Casts    \* records [role, rows: log -> [type, self, meta, joined], does, steps]

VARIABLES server,  \* live: the logs whose resource exists
          ui,
          calls,   \* list, workspaces and projects, users, and one request per row
          cast

vars == <<server, ui, calls, cast>>

None == "none"
Types == {"workspace", "project", "membership", "user", "node", "cluster", "ingress",
          "ingress_domain_zone", "tls_cert", "docker_registry", "ssh_key", "agent_token"}
NoCall == [op |-> None, st |-> "idle", data |-> {}]
Lists == {"audit", "alive", "reconcile"}

Row(l) == cast.rows[l]
Admin == IsPlatformAdmin(cast.role)
Acts == ui.left > 0
Does(what) == what \in cast.does /\ Acts
Step(u) == [u EXCEPT !.left = @ - 1]
Here == ui.page = "audit"

Init ==
  /\ cast \in Casts
  /\ server = [live |-> Logs]
  /\ ui = [page |-> "audit", logs |-> {}, seen |-> {}, ready |-> FALSE, opening |-> {}, exec |-> None,
           copied |-> None, told |-> None, left |-> cast.steps]
  /\ calls = [c \in Logs \cup Lists |->
                IF c \in {"audit", "alive"} /\ Can("audit-logs", cast.role)
                THEN [NoCall EXCEPT !.op = c, !.st = "sent"] ELSE NoCall]

(* What a row leads to *)

\* auditResourceHref: the page of the resource, by the resource of the menu it is under.
Href(row) ==
  CASE row.type = "workspace" -> "workspaces"
    [] row.type = "project" -> "projects"
    [] row.type = "membership" -> IF row.meta THEN "projects" ELSE None
    [] row.type = "user" -> "users"
    [] row.type \in {"node", "cluster"} -> "nodes"
    [] row.type = "ingress" -> IF row.meta THEN "workspaces" ELSE None
    [] row.type \in {"ingress_domain_zone", "tls_cert"} -> "ingress-domains"
    [] row.type = "docker_registry" -> "docker-registries"
    [] row.type = "ssh_key" -> "ssh-keys"
    [] OTHER -> None

\* canOpenAuditResource, with the lists of workspaces and projects at hand.
CanOpen(l) ==
  LET row == Row(l) IN
  /\ Href(row) # None
  /\ CASE row.type \in {"workspace", "project", "ingress"} -> Admin \/ l \in ui.seen
       [] row.type = "membership" -> Admin \/ l \in ui.seen \/ row.self
       [] row.type \in {"node", "cluster"} -> IsPlatformStaff(cast.role)
       [] row.type = "ssh_key" -> Admin \/ row.self
       [] OTHER -> Admin

\* auditResourceProbe: what is asked before the page is opened.
Probe(row) ==
  CASE row.type \in {"workspace", "project", "membership", "ingress"} -> "get"
    [] row.type \in {"user", "node", "tls_cert", "ingress_domain_zone", "docker_registry"} -> "list"
    [] OTHER -> None

\* Whether the lists already tell that a workspace or a project is there.
LiveKnown(l) ==
  IF Row(l).type \notin {"workspace", "project"} THEN "unknown"
  ELSE IF l \in ui.seen THEN "yes" ELSE IF ui.ready THEN "no" ELSE "unknown"

\* What a row offers.
RowOffers(l) ==
  {"copy"} \cup (IF CanOpen(l) THEN {"open"} ELSE {})
           \cup (IF Row(l).type = "workspace" /\ Row(l).meta THEN {"exec"} ELSE {})

Shows(l) == Here /\ Acts /\ l \in ui.logs /\ ui.exec = None

Go(u, l) == [u EXCEPT !.page = l, !.exec = None, !.opening = {}]

\* openTarget, when the lists know: the page is opened, or the toast says
\* that the resource is gone.
OpenKnown(l) ==
  /\ Does("open") /\ Shows(l) /\ "open" \in RowOffers(l) /\ l \notin ui.opening
  /\ LiveKnown(l) # "unknown" \/ Probe(Row(l)) = None
  /\ ui' = IF LiveKnown(l) = "no" THEN [Step(ui) EXCEPT !.told = l] ELSE Go(Step(ui), l)
  /\ UNCHANGED <<server, calls, cast>>

\* Otherwise the server is asked first.
OpenProbed(l) ==
  /\ Does("open") /\ Shows(l) /\ "open" \in RowOffers(l) /\ l \notin ui.opening
  /\ LiveKnown(l) = "unknown" /\ Probe(Row(l)) # None /\ calls[l].st = "idle"
  /\ calls' = [calls EXCEPT ![l] = [NoCall EXCEPT !.op = "probe", !.st = "sent"]]
  /\ ui' = [Step(ui) EXCEPT !.opening = @ \cup {l}]
  /\ UNCHANGED <<server, cast>>

ProbeReturns_OpensRefused(l) ==
  /\ calls[l].st \in {"ok", "missing", "refused"}
  /\ ui' = IF calls[l].st = "missing" THEN [ui EXCEPT !.told = l, !.opening = @ \ {l}] ELSE Go(ui, l)
  /\ calls' = [calls EXCEPT ![l] = NoCall]
  /\ UNCHANGED <<server, cast>>

ProbeReturns(l) ==
  /\ calls[l].st \in {"ok", "missing", "refused"}
  /\ ui' = CASE calls[l].st = "ok" -> Go(ui, l)
             [] calls[l].st = "missing" -> [ui EXCEPT !.told = l, !.opening = @ \ {l}]
             [] OTHER -> [ui EXCEPT !.opening = @ \ {l}]
  /\ calls' = [calls EXCEPT ![l] = NoCall]
  /\ UNCHANGED <<server, cast>>

(* The rest of the page *)

Copy(l) ==
  /\ Does("copy") /\ Shows(l) /\ "copy" \in RowOffers(l)
  /\ ui' = [Step(ui) EXCEPT !.copied = l]
  /\ UNCHANGED <<server, calls, cast>>
CopyFades(l) ==
  /\ ui.copied = l
  /\ ui' = [ui EXCEPT !.copied = None]
  /\ UNCHANGED <<server, calls, cast>>
OpenExec(l) ==
  /\ Does("exec") /\ Shows(l) /\ "exec" \in RowOffers(l)
  /\ ui' = [Step(ui) EXCEPT !.exec = l]
  /\ UNCHANGED <<server, calls, cast>>
CloseExec ==
  /\ Acts /\ ui.exec # None
  /\ ui' = [Step(ui) EXCEPT !.exec = None]
  /\ UNCHANGED <<server, calls, cast>>

\* Asking for a list again drops the request under way.
Reload(c) == [NoCall EXCEPT !.op = c, !.st = "sent"]
Refresh ==
  /\ Does("refresh") /\ Here /\ Can("audit-logs", cast.role) /\ ui.exec = None
  /\ calls' = [calls EXCEPT !["audit"] = Reload("audit")]
  /\ ui' = Step(ui)
  /\ UNCHANGED <<server, cast>>
Reconcile ==
  /\ Does("reconcile") /\ Here /\ Admin /\ calls["reconcile"].st = "idle"
  /\ calls' = [calls EXCEPT !["reconcile"] = Reload("reconcile")]
  /\ ui' = Step(ui)
  /\ UNCHANGED <<server, cast>>

ListReturns(c) ==
  LET k == calls[c] IN
  /\ k.st \in {"ok", "refused"}
  /\ ui' = CASE c = "audit" -> [ui EXCEPT !.logs = IF k.st = "ok" THEN k.data ELSE @]
             [] c = "alive" -> [ui EXCEPT !.ready = TRUE, !.seen = IF k.st = "ok" THEN k.data ELSE @]
             [] OTHER -> ui
  /\ calls' = [calls EXCEPT ![c] = NoCall]
  /\ UNCHANGED <<server, cast>>

\* The person leaves by the menu, and may come back: the page is new then.
Leave ==
  /\ Does("leave") /\ Here
  /\ ui' = [Step(ui) EXCEPT !.page = "elsewhere", !.exec = None, !.opening = {}]
  /\ UNCHANGED <<server, calls, cast>>
Return ==
  /\ Does("leave") /\ ~Here
  /\ ui' = [Step(ui) EXCEPT !.page = "audit"]
  /\ calls' = [calls EXCEPT !["audit"] = Reload("audit"), !["alive"] = Reload("alive")]
  /\ UNCHANGED <<server, cast>>

(* The server *)

\* Whether the handler that answers the page of a row lets the account in.
Reachable(row) ==
  CASE row.type \in {"workspace", "project", "membership", "ingress"} -> Admin \/ row.joined
    [] OTHER -> ServerAnswers(Href(row), cast.role)

Serve(c) ==
  /\ calls[c].st = "sent"
  /\ calls' = [calls EXCEPT ![c] =
       CASE c = "audit" -> [@ EXCEPT !.st = IF ServerAnswers("audit-logs", cast.role) THEN "ok" ELSE "refused",
                                     !.data = Logs]
         [] c = "alive" ->
              [@ EXCEPT !.st = "ok",
                        !.data = {l \in server.live : Row(l).type \in {"workspace", "project", "membership", "ingress"}
                                                         /\ (Admin \/ Row(l).joined)}]
         [] c = "reconcile" -> [@ EXCEPT !.st = "ok"]
         [] OTHER -> [@ EXCEPT !.st = IF ~Reachable(Row(c)) THEN "refused"
                                      ELSE IF c \in server.live THEN "ok" ELSE "missing"]]
  /\ UNCHANGED <<server, ui, cast>>

Lose(c) ==
  /\ "lose" \in cast.does /\ calls[c].st = "sent"
  /\ calls' = [calls EXCEPT ![c].st = "refused"]
  /\ UNCHANGED <<server, ui, cast>>

\* Others remove the resource of a row.
Vanish(l) ==
  /\ Does("vanish") /\ l \in server.live
  /\ server' = [server EXCEPT !.live = @ \ {l}]
  /\ ui' = Step(ui)
  /\ UNCHANGED <<calls, cast>>

Next ==
  \/ CloseExec \/ Refresh \/ Reconcile \/ Leave \/ Return
  \/ (\E c \in Lists : ListReturns(c)) \/ (\E c \in Lists \cup Logs : Serve(c) \/ Lose(c))
  \/ \E l \in Logs :
       OpenKnown(l) \/ OpenProbed(l) \/ ProbeReturns(l) \/ Copy(l) \/ CopyFades(l) \/ OpenExec(l) \/ Vanish(l)

Spec == Init /\ [][Next]_vars

(* A row, a stale list or a late answer takes the browser only to a page   *)
(* that the access control lets the account see and whose handlers answer  *)
(* it: the rules of the log agree with those of the pages and the server.  *)
OpensAllowedPage ==
  \A l \in Logs : ui'.page = l /\ ui.page # l => Can(Href(Row(l)), cast.role) /\ Reachable(Row(l))
OpenedPagesAllowed == [][OpensAllowedPage]_vars
=============================================================================
