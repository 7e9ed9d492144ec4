----------------------------- MODULE MachinePage -----------------------------
(***************************************************************************)
(* The page of one machine: its sections and what each loads on entry, the *)
(* form that asks for an ingress domain, with its second question about a  *)
(* second port, the review of domains, the Kubernetes panel and the web    *)
(* terminal.                                                               *)
(*                                                                         *)
(* Answers come back in any order and nothing is cancelled: an answer is   *)
(* written over whatever the page holds by then.                           *)
(***************************************************************************)
EXTENDS AccessRules, Sequences

CONSTANTS Slots,
          Ports, Zones,  \* Zones: records [id, review, random, custom], allowing one way at least
          Casts          \* records [status, k8s, mine, access, platform, purpose, zones, does,
                         \* steps]; steps bounds what the person does

VARIABLES server,  \* routes: the domains of the machine; zones: what the platform offers
          ui, calls, cast

vars == <<server, ui, calls, cast>>

Sections == {"overview", "connect", "k8s", "ingress", "history"}
Own == "own"          \* the domain source that is no zone
NoZones == <<>>       \* also while the meta data is missing
Live == {"running", "fabric_degraded"}
Connectable == Live \cup {"suspended", "destroy_requested", "destroy_pending_platform"}

EmptyForm == [source |-> Own, mode |-> "random", port |-> 8080]
NoCall == [op |-> "none", st |-> "idle", arg |-> EmptyForm, again |-> FALSE, id |-> 0,
           ans |-> "none", data |-> {}, seq |-> NoZones]
NoPanel == [busy |-> FALSE, loading |-> FALSE, rows |-> FALSE]
NoTerminal == [open |-> FALSE, frame |-> FALSE, host |-> FALSE, socket |-> "none"]

Init ==
  /\ cast \in Casts
  /\ \E n \in {0, 1} :
       server = [routes |-> IF n = 0 THEN {}
                            ELSE {[id |-> 1, port |-> 8080, status |-> "pending_approval"]},
                 last |-> n, zones |-> cast.zones]
  /\ ui = [section |-> "overview", project |-> FALSE, zones |-> NoZones, routes |-> {},
           conn |-> "none", history |-> "none",
           form |-> EmptyForm, open |-> FALSE, busy |-> FALSE, second |-> FALSE, again |-> FALSE,
           k8s |-> NoPanel,
           term |-> NoTerminal, left |-> cast.steps]
  /\ calls = [c \in Slots |-> NoCall]

(* What the page knows and offers *)

Mine == IF ui.project THEN cast.mine ELSE "none"
SshGranted == CanSSH(Mine, IF ui.project THEN cast.access ELSE "none", cast.platform)
NeedsPurpose == ui.project /\ ~cast.purpose
CanConnect == cast.status \in Connectable /\ SshGranted /\ ~cast.k8s /\ ~NeedsPurpose
CanApply ==
  /\ ~NeedsPurpose
  /\ CanApproveWorkspace(Mine, cast.platform) \/ Mine \in {"developer", "owner", "admin"}

Tabs == {s \in Sections : s = "k8s" => cast.k8s}

\* The buttons of the overview: its card, and the two panels under it, which
\* lead to the domains and to the history whatever they hold.
PanelOffers == {"ingress", "history"}
OverviewOffers ==
  {b \in {"terminal", "connect", "members"} \cup PanelOffers :
     CASE b = "terminal" -> CanConnect
       [] b = "members" -> ~CanConnect /\ cast.status \in Connectable /\ ~SshGranted /\ Mine = "developer"
       [] OTHER -> TRUE}

ConnectOffers == IF CanConnect THEN {"terminal"} ELSE {}

\* The tab of domains: adding needs a connection, reviewing needs nothing.
IngressOffers(r) == {"remove"} \cup (IF r.status = "pending_approval" THEN {"approve", "reject"} ELSE {})

\* The buttons of the Kubernetes panel; its table has rows
\* after a status that came, and none after one that failed.
ResourceOffers == IF ui.k8s.rows /\ CanApply /\ ~ui.k8s.busy THEN {"k8s-delete"} ELSE {}
K8sOffers == ResourceOffers \cup
  {b \in {"k8s-status", "k8s-apply", "kubeconfig"} :
     /\ cast.status \in Connectable
     /\ CASE b = "k8s-status" -> ~ui.k8s.loading
          [] b = "k8s-apply" -> CanApply /\ ~ui.k8s.busy
          [] b = "kubeconfig" -> CanApply}

ZoneOf(source) == CHOOSE z \in Zones : z.id = source
HasZone(source) == \E k \in DOMAIN ui.zones : ui.zones[k].id = source
IsFree(source) == HasZone(source) /\ ~ZoneOf(source).review
FirstMode(z) == IF z.random THEN "random" ELSE "custom"

(* Loading *)

Free(c) == calls[c].st = "idle"
Send(c, op, arg) == calls' = [calls EXCEPT ![c] = [NoCall EXCEPT !.op = op, !.st = "sent", !.arg = arg]]
Does(what) == what \in cast.does /\ ui.left > 0

\* What entering a section loads.
Loads(section) ==
  CASE section = "overview" -> {"meta", "routes", "history"}
    [] section = "ingress" -> {"meta", "routes"}
    [] section = "history" -> {"history"}
    [] section = "connect" -> {"conn"}
    [] section = "k8s" -> {"k8s-status"}

\* Leaving the section unmounts the panel: its calls go on, and what they
\* bring changes nothing any more.
PanelOps == {"k8s-status", "k8s-apply", "k8s-delete", "kubeconfig", "k8s-reload"}
Orphan(k) == IF k.op \in PanelOps THEN [k EXCEPT !.again = TRUE] ELSE k

Enter(section, send) ==
  /\ Does("enter") /\ section \in Tabs \ {ui.section} /\ ~ui.open /\ ~ui.second /\ ~ui.term.open
  /\ DOMAIN send \subseteq {c \in Slots : Free(c)}
  /\ {send[c] : c \in DOMAIN send} = Loads(section) \ {"history", "conn"}
  /\ calls' = [c \in Slots |-> IF c \in DOMAIN send
                               THEN [NoCall EXCEPT !.op = send[c], !.st = "sent"] ELSE Orphan(calls[c])]
  /\ ui' = [ui EXCEPT !.section = section, !.left = @ - 1,
                      !.k8s = [NoPanel EXCEPT !.loading = section = "k8s"],
                      !.history = IF "history" \in Loads(section) THEN "loading" ELSE @,
                      !.conn = IF "conn" \in Loads(section) THEN "loading" ELSE @]
  /\ UNCHANGED <<server, cast>>

\* The two loads nothing else races with.
LoadAside ==
  /\ \/ ui.history = "loading" /\ ui' = [ui EXCEPT !.history = "shown"]
     \/ ui.conn = "loading" /\ \E a \in {"shown", "error"} : ui' = [ui EXCEPT !.conn = a]
     \/ ~ui.project /\ ui' = [ui EXCEPT !.project = TRUE]
  /\ UNCHANGED <<server, calls, cast>>

\* The meta data selects the first zone, whatever was selected before.
TakeMeta(zones) ==
  [ui EXCEPT !.zones = zones,
     !.form.source = IF zones = NoZones THEN Own ELSE zones[1].id,
     !.form.mode = IF zones # NoZones /\ ~zones[1].review THEN FirstMode(zones[1]) ELSE @]

LoadReturns(c) ==
  LET k == calls[c] IN
  /\ k.st = "answered" /\ k.op \in {"meta", "routes", "k8s-status"}
  /\ ui' = CASE k.op = "meta" -> IF k.ans = "ok" THEN TakeMeta(k.seq) ELSE [ui EXCEPT !.zones = NoZones]
             [] k.op = "routes" -> [ui EXCEPT !.routes = IF k.ans = "ok" THEN k.data ELSE {}]
             [] k.op = "k8s-status" /\ k.again -> ui
             [] OTHER -> [ui EXCEPT !.k8s.loading = FALSE, !.k8s.rows = k.ans = "ok"]
  /\ calls' = [calls EXCEPT ![c] = NoCall]
  /\ UNCHANGED <<server, cast>>

(* The form *)

\* resetIngressForm
ResetForm(u) ==
  [u EXCEPT !.again = FALSE,
     !.form = [source |-> IF u.zones = NoZones THEN Own ELSE u.zones[1].id,
               mode |-> IF u.zones = NoZones THEN "random" ELSE FirstMode(u.zones[1]),
               port |-> 8080]]

OpenForm ==
  /\ Does("ingress") /\ ui.section = "ingress" /\ CanConnect /\ ~ui.open /\ ~ui.second
  /\ ui' = [ui EXCEPT !.open = TRUE, !.left = @ - 1]
  /\ UNCHANGED <<server, calls, cast>>

\* The cross of the dialog resets the form, its cancel button does not.
CloseForm ==
  /\ ui.open /\ ~ui.second
  /\ \/ ui' = [ResetForm(ui) EXCEPT !.open = FALSE]
     \/ ui' = [ui EXCEPT !.open = FALSE]
  /\ UNCHANGED <<server, calls, cast>>

SelectSource_KeepsMode(source) ==
  /\ Does("ingress") /\ ui.open /\ ~ui.second /\ (source = Own \/ HasZone(source)) /\ source # ui.form.source
  /\ ui' = [ui EXCEPT !.form.source = source, !.left = @ - 1]
  /\ UNCHANGED <<server, calls, cast>>

\* A zone brings a mode it allows along; the fields stay editable all the time.
SelectSource(source) ==
  /\ Does("ingress") /\ ui.open /\ ~ui.second /\ (source = Own \/ HasZone(source)) /\ source # ui.form.source
  /\ ui' = [ui EXCEPT !.form.source = source, !.left = @ - 1,
              !.form.mode = IF IsFree(source) THEN FirstMode(ZoneOf(source)) ELSE @]
  /\ UNCHANGED <<server, calls, cast>>

Edit ==
  /\ Does("ingress") /\ ui.open /\ ~ui.second
  /\ \/ \E p \in Ports \ {ui.form.port} : ui' = [ui EXCEPT !.form.port = p, !.left = @ - 1]
     \/ /\ IsFree(ui.form.source)
        /\ \E m \in {"random", "custom"} \ {ui.form.mode} :
             /\ IF m = "random" THEN ZoneOf(ui.form.source).random ELSE ZoneOf(ui.form.source).custom
             /\ ui' = [ui EXCEPT !.form.mode = m, !.left = @ - 1]
  /\ UNCHANGED <<server, calls, cast>>

\* submitIngress: the body is read off the form now.
Submit(c, again, u) ==
  /\ Free(c)
  /\ ui.project /\ cast.purpose
  /\ calls' = [calls EXCEPT ![c] = [NoCall EXCEPT !.op = "submit", !.st = "sent",
                                     !.arg = u.form, !.again = again]]
  /\ ui' = [u EXCEPT !.busy = TRUE]
  /\ UNCHANGED <<server, cast>>

PressSubmit(c) ==
  /\ Does("ingress") /\ ui.open /\ ~ui.second /\ ~ui.busy /\ CanConnect
  /\ Submit(c, FALSE, [ui EXCEPT !.left = @ - 1])

\* The second question: agreeing sends the form again, as it is by then.
Agree(c) ==
  /\ ui.second /\ ui.again
  /\ Submit(c, TRUE, [ui EXCEPT !.second = FALSE])

Disagree ==
  /\ ui.second
  /\ ui' = [ui EXCEPT !.second = FALSE]
  /\ UNCHANGED <<server, calls, cast>>

SubmitReturns(c) ==
  LET k == calls[c] IN
  /\ k.st = "answered" /\ k.op = "submit"
  /\ IF k.ans = "ok"
     THEN /\ ui' = [ResetForm(ui) EXCEPT !.open = FALSE]
          /\ Send(c, "reload", EmptyForm)
     ELSE /\ ui' = IF k.ans = "second_port"
                   THEN [ui EXCEPT !.second = TRUE, !.again = TRUE, !.busy = FALSE]
                   ELSE [ui EXCEPT !.busy = FALSE]
          /\ calls' = [calls EXCEPT ![c] = NoCall]
  /\ UNCHANGED <<server, cast>>

(* Reviewing domains *)

\* The prompt for a reason: leaving it rejects all the same.
Review(c, r, op) ==
  /\ Does("review") /\ ui.section = "ingress" /\ ~ui.open /\ ~ui.second
  /\ r \in ui.routes /\ op \in IngressOffers(r) /\ Free(c)
  /\ calls' = [calls EXCEPT ![c] = [NoCall EXCEPT !.op = op, !.st = "sent", !.id = r.id]]
  /\ ui' = [ui EXCEPT !.busy = TRUE, !.left = @ - 1]
  /\ UNCHANGED <<server, cast>>

ReviewReturns(c) ==
  LET k == calls[c] IN
  /\ k.st = "answered" /\ k.op \in {"approve", "reject", "remove"}
  /\ IF k.ans = "ok" THEN Send(c, "reload", EmptyForm) /\ UNCHANGED ui
     ELSE calls' = [calls EXCEPT ![c] = NoCall] /\ ui' = [ui EXCEPT !.busy = FALSE]
  /\ UNCHANGED <<server, cast>>

\* loadIngress at the end of an operation, which frees the page.
ReloadReturns(c) ==
  LET k == calls[c] IN
  /\ k.st = "answered" /\ k.op = "reload"
  /\ ui' = [ui EXCEPT !.busy = FALSE, !.routes = IF k.ans = "ok" THEN k.data ELSE {}]
  /\ calls' = [calls EXCEPT ![c] = NoCall]
  /\ UNCHANGED <<server, cast>>

(* Kubernetes *)

PressK8s(c, op) ==
  /\ Does("k8s") /\ ui.section = "k8s" /\ op \in K8sOffers /\ Free(c)
  /\ Send(c, op, EmptyForm)
  /\ ui' = [ui EXCEPT !.left = @ - 1, !.k8s.loading = @ \/ op = "k8s-status",
                      !.k8s.busy = @ \/ op \in {"k8s-apply", "k8s-delete"}]
  /\ UNCHANGED <<server, cast>>

\* After apply or delete the status is loaded, and only then the panel is free.
K8sReturns(c) ==
  LET k == calls[c] IN
  /\ k.st = "answered" /\ k.op \in {"k8s-apply", "k8s-delete", "kubeconfig", "k8s-reload"}
  /\ IF k.op \in {"k8s-apply", "k8s-delete"} /\ k.ans = "ok"
     THEN /\ calls' = [calls EXCEPT ![c] = [NoCall EXCEPT !.op = "k8s-reload", !.st = "sent", !.again = k.again]]
          /\ ui' = [ui EXCEPT !.k8s.loading = @ \/ ~k.again]
     ELSE /\ calls' = [calls EXCEPT ![c] = NoCall]
          /\ ui' = IF k.again THEN ui
                   ELSE [ui EXCEPT !.k8s.busy = @ /\ k.op = "kubeconfig",
                                   !.k8s.loading = @ /\ k.op # "k8s-reload",
                                   !.k8s.rows = IF k.op = "k8s-reload" THEN k.ans = "ok" ELSE @]
  /\ UNCHANGED <<server, cast>>

(* The terminal: an animation frame waits for the element, then a socket *)

OpenTerminal ==
  /\ Does("terminal") /\ ~ui.open /\ ~ui.term.open
  /\ \/ ui.section = "overview" /\ "terminal" \in OverviewOffers
     \/ ui.section = "connect" /\ "terminal" \in ConnectOffers
  /\ ui' = [ui EXCEPT !.term = [NoTerminal EXCEPT !.open = TRUE, !.frame = TRUE], !.left = @ - 1]
  /\ UNCHANGED <<server, calls, cast>>

TerminalFrame ==
  /\ ui.term.frame
  /\ ui' = [ui EXCEPT !.term = IF ~ui.term.host THEN [@ EXCEPT !.host = TRUE]
                               ELSE [@ EXCEPT !.frame = FALSE, !.socket = "connecting"]]
  /\ UNCHANGED <<server, calls, cast>>

\* The server admits who has SSH on a connectable machine, and closes later.
TerminalAnswer ==
  /\ \/ ui.term.socket = "connecting" /\ ui' = [ui EXCEPT !.term.socket = "open"]
     \/ ui.term.socket \in {"connecting", "open"} /\ ui' = [ui EXCEPT !.term.socket = "closed"]
  /\ UNCHANGED <<server, calls, cast>>

\* The cleanup of the effect.
CloseTerminal ==
  /\ ui.term.open
  /\ ui' = [ui EXCEPT !.term = NoTerminal]
  /\ UNCHANGED <<server, calls, cast>>

(* The server *)

Develops == IsPlatformAdmin(cast.platform) \/ cast.mine \in {"owner", "admin", "developer"}
Administers == IsPlatformAdmin(cast.platform) \/ cast.mine \in {"owner", "admin"}

AllowsMode(source, mode) ==
  LET z == ZoneOf(source) IN z.review \/ (IF mode = "random" THEN z.random ELSE z.custom)

\* CreateIngress and ClaimSharedIngress
RefusesSubmit(k) ==
  IF ~Develops THEN "forbidden"
  ELSE IF cast.status \notin Live \/ (k.arg.source # Own /\ ~AllowsMode(k.arg.source, k.arg.mode))
       THEN "invalid"
  ELSE IF server.routes # {} /\ k.arg.port \notin {r.port : r \in server.routes} /\ ~k.again
       THEN "second_port"
  ELSE "ok"

Answer(c, ans) == calls' = [calls EXCEPT ![c].st = "answered", ![c].ans = ans]

ServeSubmit(c) ==
  LET k == calls[c]
      ans == RefusesSubmit(k)
      status == IF (k.arg.source # Own /\ ~ZoneOf(k.arg.source).review) \/ Administers
                THEN "active" ELSE "pending_approval"
  IN
  /\ k.st = "sent" /\ k.op = "submit"
  /\ Answer(c, ans)
  /\ server' = IF ans # "ok" THEN server
               ELSE [server EXCEPT !.last = @ + 1, !.routes = @ \cup
                       {[id |-> server.last + 1, port |-> k.arg.port, status |-> status]}]
  /\ UNCHANGED <<ui, cast>>

\* ApproveIngress, RejectIngress, DeleteIngress
ServeReview(c) ==
  LET k == calls[c]
      rs == {r \in server.routes : r.id = k.id}
      rest == server.routes \ rs
      may == IF k.op = "remove" THEN Develops ELSE Administers
  IN
  /\ k.st = "sent" /\ k.op \in {"approve", "reject", "remove"}
  /\ IF rs = {} \/ ~may \/ ~cast.purpose \/ (k.op = "approve" /\ \A r \in rs : r.status = "active")
     THEN Answer(c, "refused") /\ UNCHANGED server
     ELSE /\ Answer(c, "ok")
          /\ server' = [server EXCEPT !.routes = rest \cup
               CASE k.op = "remove" -> {}
                 [] k.op = "approve" -> {[r EXCEPT !.status = "active"] : r \in rs}
                 [] OTHER -> {[r EXCEPT !.status = "rejected"] : r \in rs}]
  /\ UNCHANGED <<ui, cast>>

\* The reads, and the cluster behind the panel, which may refuse.
ServeOther(c) ==
  LET k == calls[c] IN
  /\ k.st = "sent" /\ k.op \notin {"submit", "approve", "reject", "remove"}
  /\ \E ans \in {"ok", "failed"} :
       /\ k.op \in {"k8s-apply", "k8s-delete", "kubeconfig"} /\ (~Develops \/ ~cast.purpose) => ans = "failed"
       /\ calls' = [calls EXCEPT ![c] = [@ EXCEPT !.st = "answered", !.ans = ans,
            !.data = IF k.op \in {"routes", "reload"} THEN server.routes ELSE {},
            !.seq = IF k.op = "meta" THEN server.zones ELSE NoZones]]
  /\ UNCHANGED <<server, ui, cast>>

Next ==
  \/ \E s \in Sections, send \in UNION {[S -> {"meta", "routes", "k8s-status"}] : S \in SUBSET Slots} :
       Enter(s, send)
  \/ LoadAside \/ OpenForm \/ CloseForm \/ Edit \/ Disagree
  \/ OpenTerminal \/ TerminalFrame \/ TerminalAnswer \/ CloseTerminal
  \/ \E z \in Zones \cup {[id |-> Own]} : SelectSource(z.id)
  \/ \E c \in Slots :
       \/ PressSubmit(c) \/ Agree(c)
       \/ \E r \in ui.routes, op \in {"approve", "reject", "remove"} : Review(c, r, op)
       \/ \E op \in {"k8s-status", "k8s-apply", "k8s-delete", "kubeconfig"} : PressK8s(c, op)
       \/ LoadReturns(c) \/ SubmitReturns(c) \/ ReviewReturns(c) \/ ReloadReturns(c) \/ K8sReturns(c)
       \/ ServeSubmit(c) \/ ServeReview(c) \/ ServeOther(c)

Spec == Init /\ [][Next]_vars

(* Whatever order the meta data, the resets and the selections come in, a  *)
(* domain of a zone without review is asked for in a way the zone allows   *)
(* (setPrefixMode in the effect, in the reset and in the select box).      *)
ModeAllowed ==
  \A c \in Slots :
    calls[c].op = "submit" /\ calls[c].arg.source # Own => AllowsMode(calls[c].arg.source, calls[c].arg.mode)
=============================================================================
