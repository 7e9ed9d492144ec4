--------------------------- MODULE WorkspaceForms ---------------------------
(***************************************************************************)
(* The two dialogs that ask for a machine and for another size of one:     *)
(* CreateForm, which shows for the selection whether it can be placed now, *)
(* and ResizeDialog, a form followed by a preview. The list behind them is *)
(* polled, so a machine may change size or status under an open dialog,    *)
(* which the row takes away while the machine cannot be resized and puts   *)
(* back as a new one.                                                      *)
(***************************************************************************)
EXTENDS AccessRules, Sequences

CONSTANTS Slots,
          Choices,   \* what the create form selects: a project with plan, architecture, runtime
          Sizes,     \* numbers a field of the resize form may hold; 0 is a text that is no number
          Casts      \* records [does, role, platform, purpose, plan, spec, catalog, steps]

VARIABLES server,    \* free: the choices that can be placed; spec, status, pending, room: the machine
          ui, calls, cast

vars == <<server, ui, calls, cast>>

None == "none"
Custom == "custom"
NoPreview == [cpu |-> 0, mem |-> 0, disk |-> 0]
NoCall == [op |-> None, st |-> "idle", for |-> None, live |-> FALSE, ans |-> None,
           size |-> NoPreview, shown |-> NoPreview, now |-> FALSE, fresh |-> FALSE]

\* Where the row shows the dialog, and where the server takes its request;
\* "running" stands for the three statuses both know of.
Offering == {"running", "suspended"}
Accepting == {"running"}
Resizable(row) == ~row.pending /\ row.status \in Offering

Mounted == [open |-> FALSE, step |-> "form", plan |-> Custom, fields |-> cast.spec,
            target |-> NoPreview, kind |-> None, busy |-> FALSE, error |-> FALSE]

Init ==
  /\ cast \in Casts
  /\ \E free \in SUBSET Choices :
       server = [free |-> free, spec |-> cast.spec, status |-> "running", pending |-> FALSE, room |-> TRUE]
  /\ ui = [open |-> FALSE, choice |-> CHOOSE c \in Choices : TRUE, capacity |-> None, available |-> FALSE,
           loading |-> FALSE, busy |-> FALSE, error |-> None,
           usage |-> None, asked |-> {},
           row |-> [spec |-> cast.spec, pending |-> FALSE, status |-> "running"],
           plans |-> cast.catalog, re |-> Mounted,
           left |-> cast.steps]
  /\ calls = [c \in Slots |-> NoCall]

Does(what) == what \in cast.does /\ ui.left > 0
Free(c) == calls[c].st = "idle"
Drop(c) == calls' = [calls EXCEPT ![c] = NoCall]

(* CreateForm *)

Approves == CanApproveWorkspace(cast.role, cast.platform)
CapacityBlocked == ui.capacity # None /\ ~ui.available
CanSubmit == ui.open /\ ~ui.busy /\ ~CapacityBlocked

CancelQueries_None(cs) == cs

\* The effect on the selection: the query of the previous one is cancelled.
\* What it had shown stays until the answer is here.
CancelQueries(cs) == [c \in Slots |-> IF cs[c].op = "availability" THEN [cs[c] EXCEPT !.live = FALSE] ELSE cs[c]]

\* loadUsage of the selected project, when the dialog opens or closes or the
\* project changes; nothing cancels it.
LoadUsage(u) == [u EXCEPT !.asked = @ \cup {u.choice}]

Query(c, u) ==
  /\ Free(c)
  /\ ui' = [LoadUsage(u) EXCEPT !.loading = TRUE, !.left = @ - 1]
  /\ calls' = [CancelQueries(calls) EXCEPT ![c] =
                 [NoCall EXCEPT !.op = "availability", !.st = "sent", !.for = u.choice, !.live = TRUE]]
  /\ UNCHANGED <<server, cast>>

OpenCreate(c) == Does("create") /\ ~ui.open /\ ~ui.re.open /\ Query(c, [ui EXCEPT !.open = TRUE])

Select(c, choice) ==
  Does("create") /\ ui.open /\ choice # ui.choice /\ Query(c, [ui EXCEPT !.choice = choice])

Closed(u) == [LoadUsage(u) EXCEPT !.open = FALSE, !.capacity = None, !.loading = FALSE]

CloseCreate ==
  /\ ui.open
  /\ ui' = Closed(ui)
  /\ calls' = CancelQueries(calls)
  /\ UNCHANGED <<server, cast>>

QueryReturns(c) ==
  LET k == calls[c] IN
  /\ k.op = "availability" /\ k.st = "answered"
  /\ ui' = IF ~k.live THEN ui
           ELSE [ui EXCEPT !.loading = FALSE, !.available = k.ans = "free",
                           !.capacity = IF k.ans = "failed" THEN None ELSE k.for]
  /\ Drop(c)
  /\ UNCHANGED <<server, cast>>

UsageReturns ==
  /\ \E ch \in ui.asked : ui' = [ui EXCEPT !.asked = @ \ {ch}, !.usage = ch]
  /\ UNCHANGED <<server, calls, cast>>

SubmitCreate(c) ==
  /\ Does("create") /\ CanSubmit
  /\ IF ~cast.purpose
     THEN ui' = [ui EXCEPT !.error = "purpose"] /\ ui.error # "purpose" /\ UNCHANGED calls
     ELSE /\ Free(c)
          /\ ui' = [ui EXCEPT !.busy = TRUE, !.error = None, !.left = @ - 1]
          /\ calls' = [calls EXCEPT ![c] = [NoCall EXCEPT !.op = "create", !.st = "sent", !.for = ui.choice]]
  /\ UNCHANGED <<server, cast>>

\* Success closes whatever dialog is open by then.
CreateReturns(c) ==
  LET k == calls[c] IN
  /\ k.op = "create" /\ k.st = "answered"
  /\ IF k.ans = "ok"
     THEN ui' = [Closed(ui) EXCEPT !.busy = FALSE] /\ calls' = CancelQueries([calls EXCEPT ![c] = NoCall])
     ELSE ui' = [ui EXCEPT !.busy = FALSE, !.error = k.ans] /\ Drop(c)
  /\ UNCHANGED <<server, cast>>

(* ResizeDialog *)

Shown == Resizable(ui.row)
Spec0 == ui.row.spec
IsPlan(name) == name \in DOMAIN ui.plans

\* parseTarget and restoreDiskIfShrunk
Valid(fields) == fields.cpu > 0 /\ fields.mem > 0 /\ fields.disk > 0
DiskBelowMin == ui.re.fields.disk < Spec0.disk

Classify_NoMixed(cur, next) ==
  CASE next.disk < cur.disk -> "disk_shrink"
    [] next = cur -> "unchanged"
    [] next.disk >= cur.disk /\ \E d \in {"cpu", "mem", "disk"} : next[d] > cur[d] -> "upgrade"
    [] OTHER -> "downgrade"

\* classifyResizePreview
Classify(cur, next) ==
  LET up == {d \in {"cpu", "mem", "disk"} : next[d] > cur[d]}
      down == {d \in {"cpu", "mem", "disk"} : next[d] < cur[d]}
  IN CASE "disk" \in down -> "disk_shrink"
       [] "disk" \notin down /\ up = {} /\ down = {} -> "unchanged"
       [] "disk" \notin down /\ up # {} /\ down # {} -> "mixed"
       [] "disk" \notin down /\ up # {} /\ down = {} -> "upgrade"
       [] OTHER -> "downgrade"

PreviewValid(kind) == kind \in {"upgrade", "downgrade"}
ApplyNow == Approves /\ ui.re.kind = "upgrade"

\* defaultResizePlan: a plan of this size, else the plan the row names.
DefaultPlan == LET exact == {n \in DOMAIN ui.plans : ui.plans[n] = Spec0}
               IN IF exact # {} THEN CHOOSE n \in exact : TRUE
                  ELSE IF IsPlan(cast.plan) THEN cast.plan ELSE Custom

\* resetForm, on every opening
OpenResize ==
  /\ Does("resize") /\ Shown /\ ~ui.re.open /\ ~ui.open
  /\ ui' = [ui EXCEPT !.left = @ - 1, !.re = [open |-> TRUE, step |-> "form", plan |-> DefaultPlan,
              fields |-> Spec0, target |-> NoPreview, kind |-> None, busy |-> ui.re.busy, error |-> FALSE]]
  /\ UNCHANGED <<server, calls, cast>>

CloseResize ==
  /\ Shown /\ ui.re.open
  /\ ui' = [ui EXCEPT !.re.open = FALSE]
  /\ UNCHANGED <<server, calls, cast>>

Filling == Does("resize") /\ Shown /\ ui.re.open /\ ui.re.step = "form"

\* A plan never takes disk away.
FillFromPlan(name) ==
  /\ Filling /\ name # ui.re.plan
  /\ ui' = [ui EXCEPT !.left = @ - 1, !.re.plan = name,
              !.re.fields = IF ~IsPlan(name) THEN @
                            ELSE [ui.plans[name] EXCEPT !.disk = IF @ < Spec0.disk THEN Spec0.disk ELSE @]]
  /\ UNCHANGED <<server, calls, cast>>

Type(field, n) ==
  /\ Filling /\ ui.re.fields[field] # n
  /\ ui' = [ui EXCEPT !.left = @ - 1, !.re.plan = Custom, !.re.fields[field] = n,
              !.re.error = @ /\ ~(field = "disk" /\ n >= Spec0.disk)]
  /\ UNCHANGED <<server, calls, cast>>

\* Leaving the field of the disk puts the current size back.
LeaveDisk ==
  /\ Shown /\ ui.re.open /\ ui.re.step = "form" /\ DiskBelowMin
  /\ ui' = [ui EXCEPT !.re.fields.disk = Spec0.disk, !.re.error = TRUE]
  /\ UNCHANGED <<server, calls, cast>>

Preview ==
  /\ Filling /\ ~DiskBelowMin
  /\ ui' = IF ~Valid(ui.re.fields) THEN [ui EXCEPT !.re.error = TRUE, !.left = @ - 1]
           ELSE [ui EXCEPT !.re.error = FALSE, !.re.target = ui.re.fields, !.left = @ - 1,
                           !.re.kind = Classify(Spec0, ui.re.fields), !.re.step = "preview"]
  /\ UNCHANGED <<server, calls, cast>>

BackToForm ==
  /\ Does("resize") /\ Shown /\ ui.re.open /\ ui.re.step = "preview"
  /\ ui' = [ui EXCEPT !.re.step = "form", !.left = @ - 1]
  /\ UNCHANGED <<server, calls, cast>>

\* The body is the size of the preview; shown is the size the row has now, and
\* fresh remembers whether the machine still is what the row and the preview say.
Confirm(c) ==
  /\ Shown /\ ui.re.open /\ ui.re.step = "preview" /\ ~ui.re.busy /\ PreviewValid(ui.re.kind) /\ Free(c)
  /\ ui' = [ui EXCEPT !.re.busy = TRUE, !.re.error = FALSE]
  /\ calls' = [calls EXCEPT ![c] = [NoCall EXCEPT !.op = "resize", !.st = "sent", !.size = ui.re.target,
                 !.live = TRUE, !.shown = Spec0, !.now = ApplyNow, !.fresh = ui.re.kind = Classify(Spec0, ui.re.target)]]
  /\ UNCHANGED <<server, cast>>

ConfirmReturns(c) ==
  LET k == calls[c] IN
  /\ k.op = "resize" /\ k.st = "answered"
  /\ ui' = IF ~k.live THEN ui
           ELSE IF k.ans \in {"applied", "pending"}
           THEN [ui EXCEPT !.re.open = FALSE, !.re.busy = FALSE]
           ELSE [ui EXCEPT !.re.busy = FALSE, !.re.error = TRUE]
  /\ Drop(c)
  /\ UNCHANGED <<server, cast>>

\* The list behind the dialog is polled; a dialog the row no longer shows is
\* gone, with the busy flag and the answer it waited for.
Unmounted(cs) == [c \in Slots |-> IF cs[c].op = "resize" THEN [cs[c] EXCEPT !.live = FALSE] ELSE cs[c]]

Poll ==
  LET row == [spec |-> server.spec, pending |-> server.pending, status |-> server.status] IN
  /\ "resize" \in cast.does /\ ui.row # row
  /\ ui' = [ui EXCEPT !.row = row, !.re = IF Resizable(row) THEN @ ELSE Mounted]
  /\ calls' = IF Resizable(row) THEN calls ELSE Unmounted(calls)
  /\ UNCHANGED <<server, cast>>

(* The server *)

Answer(c, ans) == calls' = [calls EXCEPT ![c].st = "answered", ![c].ans = ans]
Develops == IsPlatformAdmin(cast.platform) \/ cast.role \in {"owner", "admin", "developer"}

ServeQuery(c) ==
  /\ calls[c].op = "availability" /\ calls[c].st = "sent"
  /\ \E ans \in {"failed", IF calls[c].for \in server.free THEN "free" ELSE "full"} : Answer(c, ans)
  /\ UNCHANGED <<server, ui, cast>>

\* An administrator's request is placed at once and may find the nodes full.
ServeCreate(c) ==
  /\ calls[c].op = "create" /\ calls[c].st = "sent"
  /\ Answer(c, IF ~Develops \/ ~cast.purpose THEN "forbidden"
               ELSE IF Approves /\ calls[c].for \notin server.free THEN "insufficient" ELSE "ok")
  /\ UNCHANGED <<server, ui, cast>>

Pending(s) == [s EXCEPT !.pending = TRUE]

\* RequestResize, with ApproveResize when the requester may approve an upgrade:
\* by then the request is written, and stays when the approval fails for want
\* of capacity, or the agent or the store fails.
ServeResize(c) ==
  LET k == calls[c]
      up == {d \in {"cpu", "mem", "disk"} : k.size[d] > server.spec[d]}
      down == {d \in {"cpu", "mem", "disk"} : k.size[d] < server.spec[d]}
      permitted == /\ Develops /\ cast.purpose /\ server.status \in Accepting /\ ~server.pending
                   /\ (up = {}) # (down = {})
      grows == up # {}
      atOnce == grows /\ Approves
  IN
  /\ k.op = "resize" /\ k.st = "sent"
  /\ \/ ~permitted /\ Answer(c, "refused") /\ UNCHANGED server
     \/ permitted /\ grows /\ ~server.room /\ Answer(c, "budget") /\ UNCHANGED server
     \/ /\ permitted /\ (grows => server.room)
        /\ \/ Answer(c, "failed") /\ (UNCHANGED server \/ (atOnce /\ server' = Pending(server)))
           \/ atOnce /\ Answer(c, "applied") /\ server' = [server EXCEPT !.spec = k.size]
           \/ ~atOnce /\ Answer(c, "pending") /\ server' = Pending(server)
  /\ UNCHANGED <<ui, cast>>

\* Others place machines, use the budget up, stop or resize this one, review a
\* pending resize; the request in flight no longer meets what was shown.
World ==
  /\ "world" \in cast.does /\ ui.left > 0
  /\ \/ \E ch \in Choices : server' = [server EXCEPT !.free = IF ch \in @ THEN @ \ {ch} ELSE @ \cup {ch}]
     \/ "resize" \in cast.does /\ server.room /\ server' = [server EXCEPT !.room = FALSE]
     \/ /\ "resize" \in cast.does /\ server.status # "destroying"
        /\ \E s \in {"running", "suspended", "destroying"} \ {server.status} : server' = [server EXCEPT !.status = s]
     \/ "resize" \in cast.does /\ server.pending /\ server' = [server EXCEPT !.pending = FALSE]
     \/ /\ "resize" \in cast.does
        /\ \E d \in {"cpu", "mem", "disk"}, n \in Sizes \ {0} :
             n # server.spec[d] /\ (d = "disk" => n > server.spec[d]) /\ server' = [server EXCEPT !.spec[d] = n]
  /\ ui' = [ui EXCEPT !.left = @ - 1]
  /\ UNCHANGED <<calls, cast>>

Next ==
  \/ CloseCreate \/ OpenResize \/ CloseResize \/ LeaveDisk \/ Preview \/ BackToForm \/ Poll \/ World
  \/ UsageReturns \/ \E name \in DOMAIN ui.plans \cup {Custom} : FillFromPlan(name)
  \/ \E field \in {"cpu", "mem", "disk"}, n \in Sizes : Type(field, n)
  \/ \E c \in Slots :
       \/ OpenCreate(c) \/ (\E ch \in Choices : Select(c, ch)) \/ QueryReturns(c)
       \/ SubmitCreate(c) \/ CreateReturns(c)
       \/ Confirm(c) \/ ConfirmReturns(c) \/ ServeQuery(c) \/ ServeCreate(c) \/ ServeResize(c)

Spec == Init /\ [][Next]_vars

(* However the selections and the late answers interleave, a capacity that *)
(* is shown as settled is the one of the current selection (the cancelled  *)
(* flag of the effect in CreateForm.tsx).                                  *)
CapacityMatchesSelection == ui.open /\ ~ui.loading /\ ui.capacity # None => ui.capacity = ui.choice

(* A confirmed preview whose machine did not change meanwhile takes effect *)
(* at once exactly when the dialog said so, and waits for a review         *)
(* otherwise: the console's classification and the server's agree.  It is  *)
(* refused only for want of budget, and always on a suspended machine,     *)
(* which the row offers the dialog for; and a request that fails leaves    *)
(* the size alone, but one that was to take effect at once may be left     *)
(* behind for a review nobody asked for.  (The dialog is shown to a viewer *)
(* too, who is refused.)                                                   *)
AnsweredAsShown ==
  Develops /\ cast.purpose => \A c \in Slots :
    calls[c].op = "resize" /\ calls[c].st = "sent" /\ calls'[c].st = "answered"
    /\ calls[c].fresh /\ calls[c].shown = server.spec /\ server.status \in Offering /\ ~server.pending
    => \/ server.status = "suspended" /\ calls'[c].ans = "refused"
       \/ /\ server.status # "suspended"
          /\ \/ calls'[c].ans = "budget"
             \/ calls[c].now /\ calls'[c].ans = "applied"
             \/ ~calls[c].now /\ calls'[c].ans = "pending"
             \/ /\ calls'[c].ans = "failed" /\ server'.spec = calls[c].shown
                /\ server'.pending => calls[c].now

ConfirmMeansWhatItSays == [][AnsweredAsShown]_vars
=============================================================================
