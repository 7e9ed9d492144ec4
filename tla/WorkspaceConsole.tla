-------------------------- MODULE WorkspaceConsole --------------------------
(***************************************************************************)
(* The workspace list of the console: the rows it fetched, the polling     *)
(* that keeps them fresh, and what each row offers, sends and shows while  *)
(* an operation is under way.                                              *)
(*                                                                         *)
(* The server is a column of workspace statuses with the guards of the     *)
(* lifecycle handlers; other people and the server's own goroutines move   *)
(* the statuses too.                                                       *)
(***************************************************************************)
EXTENDS AccessRules

CONSTANTS Rows, Slots,
          MaxSteps,   \* bound: clicks, changes by others and lost answers
          Casts       \* who looks at what: records
                      \* [rows, slots, mine, platform, purpose, filtered, start, kinds]

VARIABLES server,  \* ws: the workspaces; left: steps of the bound not yet used
          ui,      \* the page: its copy of the list, its fetch, its rows
          calls,   \* the operations in flight
          cast

vars == <<server, ui, calls, cast>>

Statuses == {"requested", "provisioning", "running", "stopped", "fabric_degraded", "suspended",
             "node_lost", "failed", "rejected", "destroy_requested", "destroy_pending_platform",
             "destroying", "destroyed"}

ASSUME StepsAssumption == MaxSteps \in Nat
ASSUME CastsAssumption == \A c \in Casts :
  c.start \subseteq Statuses /\ c.purpose \in BOOLEAN /\ c.filtered \in BOOLEAN


Destroying == {"destroy_requested", "destroy_pending_platform"}
Closed == {"destroyed", "destroying", "rejected"} \cup Destroying
CanRestore == {"running", "stopped", "fabric_degraded", "suspended", "node_lost", "failed"}
Transient == {"provisioning", "destroying", "requested"} \cup Destroying

\* rev, for the properties only: how often the server has written the row, which
\* tells a row that changed and changed back from one that was left alone.
Unseen == [status |-> "none", from |-> "none", resize |-> FALSE, rev |-> 0]
Written(r) == [r EXCEPT !.rev = @ + 1]
NoRow == [action |-> "none", optimistic |-> "none", destroyOpen |-> FALSE,
          rejectOpen |-> FALSE, keepOpen |-> FALSE, seen |-> Unseen,
          resizeOpen |-> FALSE, known |-> FALSE]
NoCall == [w |-> "none", op |-> "none", st |-> "idle", ans |-> "none",
           live |-> FALSE, known |-> FALSE, seen |-> Unseen]
NoFetch == [st |-> "idle", by |-> "none", rows |-> <<>>]

NeedsPoll(r) == r.resize \/ r.status \in Transient
HiddenFrom(r, abnormal) ==
  \/ r.status = "destroyed"
  \/ ~abnormal /\ r.status \in {"node_lost", "failed"}
Hidden(r) == HiddenFrom(r, ui.abnormal)

(* What the viewer is, as the page knows it *)

Mine == IF ui.filtered /\ ui.projects THEN cast.mine ELSE "none"
ApprovesHere == CanApproveWorkspace(Mine, cast.platform)
DestroyNow == IsPlatformAdmin(cast.platform)
OpsLocked == ui.projects /\ ~cast.purpose

Init ==
  /\ cast \in Casts
  /\ \E start \in [Rows -> cast.start] :
       /\ \A w \in Rows \ cast.rows : start[w] = CHOOSE s \in cast.start : TRUE
       /\ server = [ws |-> [w \in Rows |-> [Unseen EXCEPT !.status = start[w]]],
                    left |-> MaxSteps]
  /\ ui = [shown |-> server.ws, fetch |-> NoFetch, window |-> "closed", busy |-> "none",
             row |-> [w \in Rows |-> NoRow], projects |-> cast.purpose,
             abnormal |-> FALSE, filtered |-> cast.filtered, listed |-> TRUE]
  /\ calls = [c \in Slots |-> NoCall]

(* What a row offers *)

Asking(r) == r.destroyOpen \/ r.rejectOpen \/ r.keepOpen
OpenRow(r) == Asking(r) \/ r.resizeOpen
Row(w) == ui.row[w]
Busy_PageOnly(w) == ui.busy = w

Busy(w) == ui.busy = w \/ Row(w).action # "none"

\* What the badge of a row shows of s, what the list holds: the optimistic
\* status while the answer is awaited.
DisplayOf(row, s) ==
  IF row.optimistic # "none" THEN row.optimistic
  ELSE IF row.action = "destroy" /\ DestroyNow THEN "destroying"
  ELSE s.status
Display(w) == DisplayOf(Row(w), ui.shown[w])

Sizable == {"running", "stopped", "fabric_degraded", "suspended"}
CanResize(row, s) == ~s.resize /\ s.status \in Sizable /\ DisplayOf(row, s) # "destroying"

\* The resize dialog is a part of the button: where the row no longer has the
\* button, the dialog is gone with what it waits for.
Drawn(row, s) ==
  IF CanResize(row, s) THEN row ELSE [row EXCEPT !.resizeOpen = FALSE, !.known = FALSE]
Forgotten(k) == [k EXCEPT !.live = FALSE]

\* The buttons of a row, by the part of it that shows them.  Those of
\* NeedsPurpose are disabled too while the purpose of the project is missing.
Status(w) == ui.shown[w].status
Soon(w) == Display(w) = "destroying"

ReviewButtons(w) == IF Status(w) = "requested" /\ ApprovesHere THEN {"approve", "reject"} ELSE {}

ResizeButtons(w) ==
  IF ui.shown[w].resize
  THEN {"resize-reject"} \cup (IF ApprovesHere THEN {"resize-approve"} ELSE {})
  ELSE IF CanResize(Row(w), ui.shown[w]) THEN {"resize"} ELSE {}

PowerButtons_StopInReview(w) ==
  {b \in {"start", "stop"} :
     /\ b = "start" => ~Soon(w) /\ Status(w) \in {"stopped", "fabric_degraded", "suspended"}
     /\ b = "stop" => Status(w) \in {"running", "fabric_degraded", "destroy_requested"}}

PowerButtons(w) ==
  {b \in {"start", "stop"} :
     /\ ~Soon(w)
     /\ b = "start" => Status(w) \in {"stopped", "fabric_degraded", "suspended"}
     /\ b = "stop" => Row(w).action # "destroy" /\ Status(w) \in {"running", "fabric_degraded"}}

CancelButton(w) == IF Status(w) = "requested" THEN {"cancel"} ELSE {}

DestroyReviewButtons(w) ==
  IF Status(w) = "destroy_requested" /\ ApprovesHere THEN {"destroy-approve", "destroy-reject"} ELSE {}

DestroyButton(w) ==
  IF ~Soon(w) /\ Status(w) \notin Destroying \cup {"destroyed", "destroying", "requested"}
  THEN {"destroy"} ELSE {}

PlatformButtons(w) ==
  IF Status(w) = "destroy_pending_platform" /\ DestroyNow /\ ~Soon(w)
  THEN {"destroy-force", "platform-reject"} ELSE {}

TerminalButton(w) ==
  IF /\ ~Soon(w) /\ CanSSH(Mine, "none", cast.platform)
     /\ Status(w) \in {"running", "fabric_degraded", "suspended"} \cup Destroying
  THEN {"terminal"} ELSE {}

Buttons(w) ==
  ReviewButtons(w) \cup ResizeButtons(w) \cup PowerButtons(w) \cup CancelButton(w)
    \cup DestroyReviewButtons(w) \cup DestroyButton(w) \cup PlatformButtons(w) \cup TerminalButton(w)

NeedsPurpose == {"approve", "resize-approve", "resize", "start", "stop", "terminal"}

Enabled(w, b) ==
  /\ w \in cast.rows /\ ui.listed /\ ~Hidden(ui.shown[w]) /\ b \in Buttons(w)
  /\ ~Busy(w) /\ (b \in NeedsPurpose => ~OpsLocked)
  \* an open dialog covers the page
  /\ \A v \in Rows : ~OpenRow(Row(v))

(* Sending *)

Spend == server.left > 0

\* A call of the resize dialog, which the row and the page know nothing of.
ByDialog(k) == k.op = "resize"

\* run: the row notes what is under way, the page who is busy; "seen" is the
\* row the person decided on.
Run(c, w, op, r) ==
  LET soon == (op = "destroy" /\ DestroyNow) \/ op = "destroy-force"
      settled == ui.shown[w].status \in {"destroyed", "destroying"}
      row == [r EXCEPT !.action = op, !.optimistic = IF soon /\ ~settled THEN "destroying" ELSE @]
      stays == CanResize(row, ui.shown[w])
  IN
  /\ Spend /\ c \in cast.slots /\ calls[c].st = "idle"
  /\ calls' = [d \in Slots |->
       IF d = c THEN [NoCall EXCEPT !.w = w, !.op = op, !.st = "sent", !.live = TRUE,
                                    !.known = ui.projects, !.seen = r.seen]
       ELSE IF calls[d].w = w /\ ByDialog(calls[d]) /\ ~stays THEN Forgotten(calls[d])
       ELSE calls[d]]
  /\ ui' = [ui EXCEPT !.busy = w, !.row[w] = Drawn(row, ui.shown[w])]
  /\ server' = [server EXCEPT !.left = @ - 1]
  /\ UNCHANGED cast

Click(c, w, b) ==
  /\ b \in {"approve", "resize-approve", "resize-reject", "start", "stop", "destroy-approve", "destroy-force"}
  /\ Enabled(w, b)
  /\ Run(c, w, b, [Row(w) EXCEPT !.seen = ui.shown[w]])

\* The buttons that ask first.  "cancel" and "destroy" open the same state.
Open(w, b) ==
  /\ b \in {"reject", "cancel", "destroy", "destroy-reject", "platform-reject"}
  /\ Enabled(w, b)
  /\ ui' = [ui EXCEPT !.row[w] = [@ EXCEPT
       !.destroyOpen = b \in {"cancel", "destroy"}, !.rejectOpen = b = "reject",
       !.keepOpen = b \in {"destroy-reject", "platform-reject"}, !.seen = ui.shown[w]]]
  /\ UNCHANGED <<server, calls, cast>>

\* Closing is refused while the row waits for its own operation.
Dismiss(w) ==
  /\ Row(w).action = "none"
  /\ Asking(Row(w))
  /\ ui' = [ui EXCEPT !.row[w] = [@ EXCEPT !.destroyOpen = FALSE, !.rejectOpen = FALSE,
                                          !.keepOpen = FALSE, !.seen = Unseen]]
  /\ UNCHANGED <<server, calls, cast>>

\* What the open dialogs of a row send.  A requested row whose destroyOpen is
\* set renders the dialog that cancels and the one that destroys.
Sends(w) ==
  {op \in {"reject", "cancel", "destroy", "destroy-reject", "platform-reject"} :
     CASE op = "reject" -> Row(w).rejectOpen /\ ui.shown[w].status = "requested" /\ ApprovesHere
       [] op = "cancel" -> Row(w).destroyOpen /\ ui.shown[w].status = "requested"
       [] op = "destroy" -> Row(w).destroyOpen
       [] op = "platform-reject" -> Row(w).keepOpen /\ ui.shown[w].status = "destroy_pending_platform"
       [] op = "destroy-reject" -> Row(w).keepOpen /\ ui.shown[w].status # "destroy_pending_platform"}

Confirm(c, w, op) ==
  /\ w \in cast.rows /\ op \in Sends(w) /\ Row(w).action = "none"
  /\ Run(c, w, op, [Row(w) EXCEPT !.rejectOpen = FALSE])

(* The resize dialog, beside the operations of the row *)

OpenResize(w) ==
  /\ "resize" \in cast.kinds /\ Enabled(w, "resize")
  /\ ui' = [ui EXCEPT !.row[w] = [@ EXCEPT !.resizeOpen = TRUE, !.known = ui.projects]]
  /\ UNCHANGED <<server, calls, cast>>

\* It closes while its request is on the way, too.
CloseResize(w) ==
  /\ Row(w).resizeOpen
  /\ ui' = [ui EXCEPT !.row[w] = [@ EXCEPT !.resizeOpen = FALSE, !.known = FALSE]]
  /\ UNCHANGED <<server, calls, cast>>

SubmitResize(c, w) ==
  /\ w \in cast.rows /\ Row(w).resizeOpen
  /\ Spend /\ c \in cast.slots /\ calls[c].st = "idle"
  /\ calls' = [calls EXCEPT ![c] =
       [NoCall EXCEPT !.w = w, !.op = "resize", !.st = "sent", !.live = TRUE,
                      !.known = Row(w).known, !.seen = ui.shown[w]]]
  /\ server' = [server EXCEPT !.left = @ - 1]
  /\ UNCHANGED <<ui, cast>>

ConfirmResize_NoFlag(c, w) == SubmitResize(c, w)

\* Its own busy flag, which outlives a closed dialog, and nothing else holds
\* back the confirmation.
ConfirmResize(c, w) ==
  /\ \A d \in Slots : ~(calls[d].live /\ ByDialog(calls[d]) /\ calls[d].w = w)
  /\ SubmitResize(c, w)

(* The server *)

Member == IsPlatformAdmin(cast.platform) \/ cast.mine \in ProjectRoles
Develops == IsPlatformAdmin(cast.platform) \/ cast.mine \in {"owner", "admin", "developer"}
Administers == IsPlatformAdmin(cast.platform) \/ cast.mine \in {"owner", "admin"}

\* Who may ask, per handler.
Permits(op) ==
  CASE op \in {"start", "stop", "destroy", "resize", "resize-reject"} -> Develops
    [] op \in {"approve", "reject", "cancel", "resize-approve", "destroy-approve", "destroy-reject"} ->
         Administers
    [] op \in {"destroy-force", "platform-reject"} -> IsPlatformAdmin(cast.platform)

\* In which state the handler accepts.
Accepts(op, r) ==
  CASE op \in {"approve", "reject", "cancel"} -> r.status = "requested"
    [] op = "resize" -> r.status \in Sizable \ {"suspended"} /\ ~r.resize
    [] op \in {"resize-approve", "resize-reject"} -> r.resize
    [] op \in {"start", "stop"} -> r.status \notin Closed \cup {"requested"}
    [] op = "destroy" -> r.status \notin Closed \ {"rejected"}
    [] op = "destroy-approve" -> r.status \in Destroying
    [] op = "destroy-reject" -> r.status = "destroy_requested"
    [] op \in {"destroy-force", "platform-reject"} -> r.status = "destroy_pending_platform"

Restored(r) == [r EXCEPT !.status = IF r.from \in CanRestore THEN r.from ELSE "running", !.from = "none"]

Applied(op, r) ==
  CASE op = "approve" -> [r EXCEPT !.status = "provisioning"]
    [] op \in {"reject", "cancel"} -> [r EXCEPT !.status = "rejected"]
    [] op \in {"resize-approve", "resize-reject"} -> [r EXCEPT !.resize = FALSE]
    [] op = "start" -> [r EXCEPT !.status = "running"]
    [] op = "stop" -> [r EXCEPT !.status = "stopped"]
    [] op = "destroy" -> [r EXCEPT !.from = r.status,
         !.status = IF IsPlatformAdmin(cast.platform) THEN "destroying"
                    ELSE IF Administers THEN "destroy_pending_platform" ELSE "destroy_requested"]
    [] op = "destroy-approve" -> [r EXCEPT !.status = "destroy_pending_platform"]
    [] op \in {"destroy-reject", "platform-reject"} -> Restored(r)
    [] op = "destroy-force" -> [r EXCEPT !.status = "destroying"]

\* A resize waits for a decision, unless it only grows and those who decide
\* ask for it themselves.
Results(op, r) ==
  IF op = "resize" THEN {[r EXCEPT !.resize = TRUE]} \cup (IF Administers THEN {r} ELSE {})
  ELSE {Applied(op, r)}

\* What an operation that fails half-way has written: the request of a resize
\* whose approval fails, the first write of a destroy.
LeftBehind(op, r) ==
  CASE op = "resize" /\ Administers -> {[r EXCEPT !.resize = TRUE]}
    [] \/ op = "destroy-force"
       \/ op = "destroy" /\ IsPlatformAdmin(cast.platform) ->
         {[r EXCEPT !.from = r.status, !.status = "destroying"]}
    [] OTHER -> {}

\* Why the handler turns down an operation on row r, if it does.
Refusal(op, r) ==
  CASE ~Permits(op) -> "forbidden"
    [] Permits(op) /\ op \in NeedsPurpose /\ ~cast.purpose -> "no_purpose"
    [] Permits(op) /\ (op \in NeedsPurpose => cast.purpose) /\ ~Accepts(op, r) -> "conflict"
    [] OTHER -> "none"

Answer(c, ans) == calls' = [calls EXCEPT ![c].st = "answered", ![c].ans = ans]

\* "unavailable": no capacity or budget is left, or an agent or the store fails.
Serve(c) ==
  LET k == calls[c]
      r == server.ws[k.w]
      Write(n) == server' = [server EXCEPT !.ws[k.w] = Written(n)]
  IN
  /\ k.st = "sent"
  /\ \/ Refusal(k.op, r) # "none" /\ Answer(c, Refusal(k.op, r)) /\ UNCHANGED server
     \/ Refusal(k.op, r) = "none" /\ Answer(c, "ok") /\ \E n \in Results(k.op, r) : Write(n)
     \/ Refusal(k.op, r) = "none" /\ Answer(c, "unavailable")
          /\ (UNCHANGED server \/ \E n \in LeftBehind(k.op, r) : Write(n))
  /\ UNCHANGED <<ui, cast>>

\* The network loses a call or its answer.
Lose(c) ==
  /\ "loss" \in cast.kinds /\ Spend
  /\ calls[c].st \in {"sent", "answered"}
  /\ calls' = [calls EXCEPT ![c].st = "answered", ![c].ans = "lost"]
  /\ server' = [server EXCEPT !.left = @ - 1]
  /\ UNCHANGED <<ui, cast>>

\* Other people, and the goroutines that provision and destroy.
OtherSteps(r) ==
  CASE r.status = "requested" -> {[r EXCEPT !.status = s] : s \in {"provisioning", "rejected"}}
    [] r.status = "provisioning" -> {[r EXCEPT !.status = s] : s \in {"running", "failed"}}
    [] r.status = "running" ->
         {[r EXCEPT !.status = s] : s \in {"stopped", "fabric_degraded", "node_lost"}}
           \cup {[r EXCEPT !.status = "destroy_requested", !.from = "running"]}
           \cup {[r EXCEPT !.resize = TRUE]}
    [] r.status = "destroy_requested" -> {[r EXCEPT !.status = "destroy_pending_platform"], Restored(r)}
    [] r.status = "destroy_pending_platform" -> {[r EXCEPT !.status = "destroying"]}
    [] OTHER -> {}

Elsewhere(w) ==
  /\ "others" \in cast.kinds /\ w \in cast.rows /\ Spend
  /\ \E r \in OtherSteps(server.ws[w]) : server' = [server EXCEPT !.ws[w] = Written(r), !.left = @ - 1]
  /\ UNCHANGED <<ui, calls, cast>>

\* A destroy the server has begun comes to its end.
FinishDestroy(w) ==
  /\ server.ws[w].status = "destroying"
  /\ server' = [server EXCEPT !.ws[w] = Written([@ EXCEPT !.status = "destroyed"])]
  /\ UNCHANGED <<ui, calls, cast>>

(* The list *)

\* refetch cancels the fetch under way; the interval only starts one.
Refetch(by) == [st |-> "sent", by |-> by, rows |-> <<>>]

Poll_OnlyInWindow ==
  /\ ui.fetch.st = "idle" /\ ui.window # "closed"
  /\ ui' = [ui EXCEPT !.fetch = Refetch("poll")]
  /\ UNCHANGED <<server, calls, cast>>

Poll ==
  /\ ui.fetch.st = "idle"
  /\ ui.window # "closed" \/ (ui.listed /\ \E w \in Rows : NeedsPoll(ui.shown[w]))
  /\ ui' = [ui EXCEPT !.fetch = Refetch("poll")]
  /\ UNCHANGED <<server, calls, cast>>

ServeFetch ==
  /\ ui.fetch.st = "sent"
  /\ ui' = [ui EXCEPT !.fetch.st = "answered", !.fetch.rows = server.ws]
  /\ UNCHANGED <<server, calls, cast>>

LoseFetch ==
  /\ "loss" \in cast.kinds /\ Spend /\ ui.fetch.st \in {"sent", "answered"}
  /\ ui' = [ui EXCEPT !.fetch = NoFetch]
  /\ server' = [server EXCEPT !.left = @ - 1]
  /\ UNCHANGED <<calls, cast>>

\* The effect that drops the optimistic status.
Settle(r, status) ==
  IF status = r.optimistic \/ status \in {"destroyed", "destroying"}
  THEN [r EXCEPT !.optimistic = "none"] ELSE r

\* The list arrives: hidden rows are gone with what they remembered.
FetchReturns ==
  /\ ui.fetch.st = "answered"
  /\ ui' = [ui EXCEPT !.shown = ui.fetch.rows, !.listed = TRUE, !.fetch = NoFetch,
       !.window = IF @ = "open" THEN "polled" ELSE @,
       !.row = [w \in Rows |->
         IF Hidden(ui.fetch.rows[w]) THEN NoRow
         ELSE Settle(Drawn(Row(w), ui.fetch.rows[w]), ui.fetch.rows[w].status)]]
  /\ calls' = [c \in Slots |->
       IF /\ calls[c].st # "idle"
          /\ \/ Hidden(ui.fetch.rows[calls[c].w])
             \/ ByDialog(calls[c]) /\ ~CanResize(Row(calls[c].w), ui.fetch.rows[calls[c].w])
       THEN Forgotten(calls[c]) ELSE calls[c]]
  /\ UNCHANGED <<server, cast>>

\* 90 seconds of polling after an operation: an outage is shorter than that.
CloseWindow ==
  /\ ui.window = "polled"
  /\ ui' = [ui EXCEPT !.window = "closed"]
  /\ UNCHANGED <<server, calls, cast>>

LoadProjects ==
  /\ ~ui.projects
  /\ ui' = [ui EXCEPT !.projects = TRUE]
  /\ UNCHANGED <<server, calls, cast>>

(* The end of an operation *)

Return_KeepsOptimistic(c) ==
  LET k == calls[c]
      row == Row(k.w)
      closed == [row EXCEPT !.destroyOpen = @ /\ k.op \notin {"cancel", "destroy"},
                            !.keepOpen = @ /\ k.op \notin {"destroy-reject", "platform-reject"}]
      freed == [row EXCEPT !.action = "none",
                           !.seen = IF Asking(row) THEN @ ELSE Unseen]
  IN
  /\ k.st = "answered" /\ ~ByDialog(k)
  /\ IF k.ans = "ok"
     THEN /\ calls' = [calls EXCEPT ![c].st = "refreshing"]
          /\ ui' = [ui EXCEPT !.window = "open", !.fetch = Refetch(c),
                              !.row[k.w] = IF k.live THEN closed ELSE row]
     ELSE /\ calls' = [calls EXCEPT ![c] = NoCall]
          /\ ui' = [ui EXCEPT !.busy = "none", !.row[k.w] = IF k.live THEN freed ELSE row]
  /\ UNCHANGED <<server, cast>>

\* An error ends the operation at once, an answer refreshes the list first.
Return(c) ==
  LET k == calls[c]
      row == Row(k.w)
      closed == [row EXCEPT !.destroyOpen = @ /\ k.op \notin {"cancel", "destroy"},
                            !.keepOpen = @ /\ k.op \notin {"destroy-reject", "platform-reject"}]
      freed == [row EXCEPT !.optimistic = "none", !.action = "none",
                           !.seen = IF Asking(row) THEN @ ELSE Unseen]
  IN
  /\ k.st = "answered" /\ ~ByDialog(k)
  /\ IF k.ans = "ok"
     THEN /\ calls' = [calls EXCEPT ![c].st = "refreshing"]
          /\ ui' = [ui EXCEPT !.window = "open", !.fetch = Refetch(c),
                              !.row[k.w] = IF k.live THEN closed ELSE row]
     ELSE /\ calls' = [calls EXCEPT ![c] = NoCall]
          /\ ui' = [ui EXCEPT !.busy = "none", !.row[k.w] = IF k.live THEN freed ELSE row]
  /\ UNCHANGED <<server, cast>>

Refreshed(c) ==
  LET k == calls[c] IN
  /\ k.st = "refreshing"
  /\ ui.fetch.st = "idle" \/ ui.fetch.by # c
  /\ calls' = [calls EXCEPT ![c] = NoCall]
  /\ ui' = [ui EXCEPT !.busy = "none", !.row[k.w] =
       IF k.live THEN [@ EXCEPT !.action = "none", !.seen = Unseen]
       ELSE @]
  /\ UNCHANGED <<server, cast>>

\* An answer closes the dialog and has the list fetched, which nobody waits for.
ResizeReturns(c) ==
  LET k == calls[c] IN
  /\ k.st = "answered" /\ ByDialog(k)
  /\ calls' = [calls EXCEPT ![c] = NoCall]
  /\ ui' = IF k.ans # "ok" THEN ui
           ELSE [ui EXCEPT !.window = "open", !.fetch = Refetch("resize"),
                           !.row[k.w] = IF k.live THEN [@ EXCEPT !.resizeOpen = FALSE, !.known = FALSE]
                                        ELSE @]
  /\ UNCHANGED <<server, cast>>

\* A narrower window turns the table into cards: every row is a new one.
Remount ==
  /\ "remount" \in cast.kinds
  /\ \E w \in Rows : Row(w) # NoRow
  /\ ui' = [ui EXCEPT !.row = [w \in Rows |-> NoRow]]
  /\ calls' = [c \in Slots |-> Forgotten(calls[c])]
  /\ UNCHANGED <<server, cast>>

\* The button over the list: rows it hides are gone with what they remembered.
ToggleAbnormal ==
  /\ "abnormal" \in cast.kinds /\ \A w \in Rows : ~OpenRow(Row(w))
  /\ LET gone == {w \in Rows : HiddenFrom(ui.shown[w], ~ui.abnormal)} IN
     /\ ui' = [ui EXCEPT !.abnormal = ~@, !.row = [w \in Rows |-> IF w \in gone THEN NoRow ELSE Row(w)]]
     /\ calls' = [c \in Slots |-> [calls[c] EXCEPT !.live = @ /\ calls[c].w \notin gone]]
  /\ UNCHANGED <<server, cast>>

\* setProjectFilter, to the list of the project or to the one of all: it is
\* fetched, and only if it was seen before the page has rows meanwhile.
ChangeFilter ==
  /\ "filter" \in cast.kinds /\ Spend /\ \A w \in Rows : ~OpenRow(Row(w))
  /\ \E seen \in BOOLEAN :
       ui' = [ui EXCEPT !.filtered = ~@, !.listed = seen, !.row = [w \in Rows |-> NoRow],
                        !.fetch = Refetch("filter")]
  /\ calls' = [c \in Slots |-> Forgotten(calls[c])]
  /\ server' = [server EXCEPT !.left = @ - 1]
  /\ UNCHANGED cast

Next ==
  \/ \E c \in Slots, w \in Rows, b \in {"approve", "resize-approve", "resize-reject", "start",
                                        "stop", "destroy-approve", "destroy-force"} : Click(c, w, b)
  \/ \E w \in Rows, b \in {"reject", "cancel", "destroy", "destroy-reject", "platform-reject"} :
       Open(w, b) \/ \E c \in Slots : Confirm(c, w, b)
  \/ \E w \in Rows : OpenResize(w) \/ CloseResize(w) \/ \E c \in Slots : ConfirmResize(c, w)
  \/ \E w \in Rows : Dismiss(w) \/ Elsewhere(w) \/ FinishDestroy(w)
  \/ \E c \in Slots : Serve(c) \/ Lose(c) \/ Return(c) \/ Refreshed(c) \/ ResizeReturns(c)
  \/ Poll \/ ServeFetch \/ LoseFetch \/ FetchReturns \/ CloseWindow \/ LoadProjects
  \/ Remount \/ ToggleAbnormal \/ ChangeFilter

\* Calls end, the timer fires, answers are taken; people may stop.
Fairness ==
  /\ \A c \in Slots : WF_vars(Serve(c) \/ Return(c) \/ Refreshed(c) \/ ResizeReturns(c))
  /\ WF_vars(Poll) /\ WF_vars(ServeFetch) /\ WF_vars(FetchReturns)

Spec == Init /\ [][Next]_vars /\ Fairness

(* A row waits for one operation of its own and for one request of its      *)
(* resize dialog, which may be under way together (pendingAction of the     *)
(* row and busyId of the page, busy of ResizeDialog).                       *)
OneAtATime ==
  \A c, d \in Slots :
    calls[c].live /\ calls[d].live /\ calls[c].w = calls[d].w /\ (ByDialog(calls[c]) <=> ByDialog(calls[d]))
      => c = d

(* A manager is turned down for the state of a row only because the row has *)
(* changed since the person looked at it, the resize of a suspended row     *)
(* apart, which the page offers and the server never takes; and for the     *)
(* purpose only if the projects were not loaded (the guards of WorkspaceRow *)
(* against those of the handlers).                                          *)
RefusedOnlyWhenStale ==
  [][\A c \in Slots :
       LET k == calls[c] IN
       k.st = "sent" /\ calls'[c].st = "answered" /\ Administers =>
         /\ calls'[c].ans \in {"forbidden", "conflict"} =>
              \/ server.ws[k.w] # k.seen
              \/ ByDialog(k) /\ k.seen.status = "suspended" /\ calls'[c].ans = "conflict"
         /\ calls'[c].ans = "no_purpose" => ~k.known]_vars

(* A row that shows a status the server is about to leave comes to show     *)
(* what the server holds (the poll interval, the window after an operation, *)
(* the refresh at its end).                                                 *)
PassingStatusCatchesUp ==
  \A w \in Rows :
    NeedsPoll(ui.shown[w]) ~> (ui.shown[w] = server.ws[w] \/ ~NeedsPoll(ui.shown[w]))

(* The optimistic "destroying" of a row does not outlive the operation and  *)
(* the polling behind it (setOptimisticStatus, its effect).                 *)
OptimismEnds ==
  \A w \in Rows : ui.row[w].optimistic # "none" ~> ui.row[w].optimistic = "none"
=============================================================================
