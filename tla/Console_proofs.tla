--------------------------- MODULE Console_proofs ---------------------------
(***************************************************************************)
(* Proofs about WorkspaceConsole, for any list of workspaces, any number   *)
(* of operations in flight and whatever other people do meanwhile: a row   *)
(* sends one operation at a time, and the server refuses an operation to   *)
(* those who administer the project only because the row has changed since *)
(* the person looked at it.                                                *)
(*                                                                         *)
(* The argument orders the copies of a row by age: what a dialog was       *)
(* opened on is no newer than what the list shows, the list no newer than  *)
(* the answer on its way to it, and that no newer than what the server     *)
(* holds.  If the first and the last are the same, so is the list between, *)
(* and then the buttons of the page and the guards of the handlers agree.  *)
(***************************************************************************)
EXTENDS WorkspaceConsole, TLAPS

Froms == Statuses \cup {"none"}
Copy == [status : Froms, from : Froms, resize : BOOLEAN, rev : Nat]

Direct == {"approve", "resize-approve", "resize-reject", "start", "stop", "destroy-approve", "destroy-force"}
Asked == {"reject", "cancel", "destroy", "destroy-reject", "platform-reject"}
Ops == Direct \cup Asked \cup {"resize"}

Answers == {"ok", "forbidden", "no_purpose", "conflict", "unavailable", "lost"}

RowState ==
  [action : Ops \cup {"none"}, optimistic : {"none", "destroying"}, destroyOpen : BOOLEAN,
   rejectOpen : BOOLEAN, keepOpen : BOOLEAN, seen : Copy, resizeOpen : BOOLEAN, known : BOOLEAN]
Call ==
  [w : Rows \cup {"none"}, op : Ops \cup {"none"}, st : {"idle", "sent", "answered", "refreshing"},
   ans : {"none"} \cup Answers,
   live : BOOLEAN, known : BOOLEAN, seen : Copy]
Fetch ==
  [st : {"idle", "sent", "answered"}, by : Slots \cup {"none", "poll", "filter", "resize"},
   rows : [Rows -> Copy] \cup {<<>>}]

ServerState == [ws : [Rows -> Copy], left : Nat]
Page ==
  [shown : [Rows -> Copy], fetch : Fetch, window : {"closed", "open", "polled"},
   busy : Rows \cup {"none"}, row : [Rows -> RowState], projects : BOOLEAN, abnormal : BOOLEAN,
   filtered : BOOLEAN, listed : BOOLEAN]

Typed(s, u, k) ==
  /\ s \in ServerState /\ u \in Page /\ k \in [Slots -> Call]
  /\ u.fetch.st = "answered" => u.fetch.rows \in [Rows -> Copy]
  /\ \A c \in Slots : k[c].st # "idle" => k[c].w \in Rows /\ k[c].op \in Ops

\* a is a copy of the row that b is a copy of, taken no later.
NoNewer(a, b) == a.rev < b.rev \/ a = b

\* The server would do it, were this the row it holds; a suspended row is
\* offered a resize, too.
Offered(op, r) == IF op = "resize" THEN r.status \in Sizable /\ ~r.resize ELSE Accepts(op, r)
Welcome(op, r) == Offered(op, r) /\ (Administers => Permits(op))

\* The dialogs of a row: one at most, opened on a row that called for it.
DialogOK(r, s) ==
  /\ Asking(r) => NoNewer(r.seen, s)
  /\ r.destroyOpen => Welcome("destroy", r.seen) /\ ~r.rejectOpen /\ ~r.keepOpen
  /\ r.rejectOpen => Welcome("reject", r.seen) /\ ~r.keepOpen
  /\ r.keepOpen => Welcome("destroy-reject", r.seen) \/ Welcome("platform-reject", r.seen)
  /\ r.resizeOpen => Welcome("resize", s) /\ (r.known => cast.purpose)

ListOK(ws, shown, fetch) ==
  \A w \in Rows :
    /\ NoNewer(shown[w], ws[w])
    /\ fetch.st = "answered" => NoNewer(shown[w], fetch.rows[w]) /\ NoNewer(fetch.rows[w], ws[w])

DialogsOK(row, shown) == \A w \in Rows : DialogOK(row[w], shown[w])

\* A call on its way was sent from a row that called for it, if that is still
\* the row the server holds.
SentOK(k, ws) ==
  k.st = "sent" =>
    /\ NoNewer(k.seen, ws[k.w])
    /\ k.seen = ws[k.w] => Welcome(k.op, k.seen)
    /\ k.op \in NeedsPurpose /\ k.known => cast.purpose

\* The row a call belongs to waits for it, behind the dialog that sent it; for
\* a call of the resize dialog no row waits, and no refresh follows it.
AwaitedOK(k, row) ==
  /\ k.live => k.st # "idle"
  /\ k.live /\ ByDialog(k) => k.st # "refreshing"
  /\ k.live /\ ~ByDialog(k) =>
    /\ row[k.w].action # "none" /\ ~row[k.w].rejectOpen
    /\ row[k.w].destroyOpen => k.op \in {"cancel", "destroy"}
    /\ row[k.w].keepOpen => k.op \in {"destroy-reject", "platform-reject"}
    /\ k.st = "refreshing" => ~Asking(row[k.w])

AloneOK(ks) ==
  \A c, d \in Slots :
    ks[c].live /\ ks[d].live /\ ks[c].w = ks[d].w /\ (ByDialog(ks[c]) <=> ByDialog(ks[d])) => c = d

CallsOK(ks, ws, row) == \A c \in Slots : SentOK(ks[c], ws) /\ AwaitedOK(ks[c], row)

Sound(s, u, k) ==
  /\ Typed(s, u, k)
  /\ ListOK(s.ws, u.shown, u.fetch) /\ DialogsOK(u.row, u.shown)
  /\ CallsOK(k, s.ws, u.row) /\ AloneOK(k)

ConsoleInv == cast \in Casts /\ Sound(server, ui, calls)

----------------------------------------------------------------------------
(* Values                                                                  *)

LEMMA NothingIsTyped ==
  /\ Unseen \in Copy /\ NoRow \in RowState /\ NoCall \in Call /\ NoFetch \in Fetch
  /\ ~OpenRow(NoRow) /\ NoRow.action = "none" /\ ~NoCall.live /\ NoCall.st = "idle"
BY DEF Unseen, Copy, Froms, Statuses, NoRow, RowState, NoCall, Call, NoFetch, Fetch, OpenRow, Asking

LEMMA RefetchIsTyped ==
  ASSUME NEW by \in Slots \cup {"poll", "filter", "resize"}
  PROVE  Refetch(by) \in Fetch /\ Refetch(by).st = "sent"
BY DEF Refetch, Fetch

LEMMA WrittenIsCopy ==
  ASSUME NEW r \in Copy
  PROVE  Written(r) \in Copy /\ Written(r).rev = r.rev + 1
BY DEF Written, Copy

LEMMA RestoredIsCopy ==
  ASSUME NEW r \in Copy
  PROVE  Restored(r) \in Copy /\ Restored(r).rev = r.rev
BY DEF Restored, Copy, Froms, Statuses, CanRestore

LEMMA AppliedIsCopy ==
  ASSUME NEW r \in Copy, NEW o \in Direct \cup Asked
  PROVE  Applied(o, r) \in Copy /\ Applied(o, r).rev = r.rev
<1>1. CASE o \in {"approve", "reject", "cancel", "start", "stop", "destroy-approve", "destroy-force"}
  BY <1>1 DEF Applied, Copy, Froms, Statuses
<1>2. CASE o \in {"resize-approve", "resize-reject"}
  BY <1>2 DEF Applied, Copy
<1>3. CASE o = "destroy"
  BY <1>3 DEF Applied, Copy, Froms, Statuses
<1>4. CASE o \in {"destroy-reject", "platform-reject"}
  BY <1>4, RestoredIsCopy DEF Applied
<1> QED BY <1>1, <1>2, <1>3, <1>4 DEF Direct, Asked

LEMMA ResultsAreCopies ==
  ASSUME NEW r \in Copy, NEW o \in Ops, NEW n \in Results(o, r) \cup LeftBehind(o, r)
  PROVE  n \in Copy /\ n.rev = r.rev
<1>1. CASE n \in LeftBehind(o, r)
  BY <1>1 DEF LeftBehind, Copy, Froms, Statuses
<1>2. CASE n \in Results(o, r) /\ o = "resize"
  BY <1>2 DEF Results, Copy
<1>3. CASE n \in Results(o, r) /\ o # "resize"
  BY <1>3, AppliedIsCopy DEF Results, Ops
<1> QED BY <1>1, <1>2, <1>3

LEMMA OthersMakeCopies ==
  ASSUME NEW r \in Copy, NEW n \in OtherSteps(r)
  PROVE  n \in Copy /\ n.rev = r.rev
<1>1. CASE r.status = "running"
  <2> DEFINE Alike(m) == m \in Copy /\ m.rev = r.rev
  <2>1. /\ \A st \in {"stopped", "fabric_degraded", "node_lost"} : Alike([r EXCEPT !.status = st])
        /\ Alike([r EXCEPT !.status = "destroy_requested", !.from = "running"])
        /\ Alike([r EXCEPT !.resize = TRUE])
    BY DEF Copy, Froms, Statuses
  <2> QED BY <1>1, <2>1 DEF OtherSteps
<1>2. CASE r.status = "destroy_requested"
  BY <1>2, RestoredIsCopy DEF OtherSteps, Copy, Froms, Statuses
<1>3. CASE r.status \notin {"running", "destroy_requested"}
  BY <1>3 DEF OtherSteps, Copy, Froms, Statuses
<1> QED BY <1>1, <1>2, <1>3

\* Age is an order.
LEMMA NoNewerIsAnOrder ==
  ASSUME NEW a \in Copy, NEW b \in Copy, NEW c \in Copy, NoNewer(a, b)
  PROVE  NoNewer(a, a) /\ (NoNewer(b, c) => NoNewer(a, c) /\ (a = c => a = b))
BY DEF NoNewer, Copy

----------------------------------------------------------------------------
(* The server writes a row                                                 *)

LEMMA ServerWrites ==
  ASSUME NEW s \in ServerState, NEW u, NEW k, Typed(s, u, k), ListOK(s.ws, u.shown, u.fetch),
         CallsOK(k, s.ws, u.row),
         NEW w \in Rows, NEW r \in Copy, r.rev = s.ws[w].rev + 1,
         NEW ws, ws = [s.ws EXCEPT ![w] = r]
  PROVE  /\ ws \in [Rows -> Copy] /\ ListOK(ws, u.shown, u.fetch)
         /\ \A c \in Slots : SentOK(k[c], ws)
<1>1. \A v \in Rows : s.ws[v] \in Copy /\ ws[v] \in Copy /\ (v # w => ws[v] = s.ws[v]) /\ ws[w] = r
  BY DEF ServerState
<1>2. \A a \in Copy, v \in Rows : NoNewer(a, s.ws[v]) => NoNewer(a, ws[v])
  BY <1>1 DEF NoNewer, Copy
<1>3. \A a \in Copy, v \in Rows : NoNewer(a, s.ws[v]) /\ a = ws[v] => a = s.ws[v]
  BY <1>1 DEF NoNewer, Copy
<1>4. ListOK(ws, u.shown, u.fetch)
  BY <1>2 DEF ListOK, Typed, Page
<1>5. ASSUME NEW c \in Slots PROVE SentOK(k[c], ws)
  <2>1. k[c] \in Call /\ (k[c].st = "sent" => k[c].w \in Rows) /\ SentOK(k[c], s.ws)
    BY DEF Typed, CallsOK
  <2>2. k[c].seen \in Copy
    BY <2>1 DEF Call
  <2> QED BY <1>2, <1>3, <2>1, <2>2 DEF SentOK
<1>6. ws \in [Rows -> Copy]
  BY DEF ServerState
<1> QED BY <1>4, <1>5, <1>6

----------------------------------------------------------------------------
(* One row, one call                                                       *)

LEMMA OneRow ==
  ASSUME NEW row \in [Rows -> RowState], NEW shown, DialogsOK(row, shown),
         NEW w \in Rows, NEW r \in RowState, DialogOK(r, shown[w]),
         NEW row2, row2 = [row EXCEPT ![w] = r]
  PROVE  row2 \in [Rows -> RowState] /\ DialogsOK(row2, shown)
BY DEF DialogsOK

\* One entry of a table is replaced.
Replaces(new, old, x, entry) == new = [old EXCEPT ![x] = entry]

\* Calls that are on their way are about a row.
Placed(k) == \A d \in Slots : k[d].st # "idle" => k[d].w \in Rows

\* No row waits for a call of another slot.
NobodyElse(k, c, w) == \A d \in Slots : k[d].live /\ ~ByDialog(k[d]) /\ k[d].w = w => d = c

LEMMA OneCall ==
  ASSUME NEW k \in [Slots -> Call], NEW ws, NEW row \in [Rows -> RowState],
         CallsOK(k, ws, row), AloneOK(k), Placed(k),
         NEW c \in Slots, NEW w \in Rows, NEW new \in Call, NEW r \in RowState,
         NEW k2, Replaces(k2, k, c, new), NEW row2, Replaces(row2, row, w, r),
         NobodyElse(k, c, w), SentOK(new, ws), AwaitedOK(new, row2),
         new.live => new.w = w /\ ~ByDialog(new)
  PROVE  k2 \in [Slots -> Call] /\ CallsOK(k2, ws, row2) /\ AloneOK(k2)
<1>1. k2 \in [Slots -> Call] /\ k2[c] = new /\ \A d \in Slots : d # c => k2[d] = k[d]
  BY DEF Replaces
<1>2. ASSUME NEW d \in Slots, d # c PROVE AwaitedOK(k[d], row2)
  <2>1. AwaitedOK(k[d], row) /\ (k[d].live /\ ~ByDialog(k[d]) => k[d].w \in Rows /\ k[d].w # w)
    BY <1>2 DEF CallsOK, AwaitedOK, Placed, NobodyElse
  <2> QED BY <2>1 DEF AwaitedOK, Replaces
<1>3. CallsOK(k2, ws, row2)
  BY <1>1, <1>2 DEF CallsOK
<1>4. AloneOK(k2)
  BY <1>1 DEF AloneOK, NobodyElse
<1> QED BY <1>1, <1>3, <1>4

\* A row that waits for nothing may change while calls are on their way.
LEMMA QuietRow ==
  ASSUME NEW k \in [Slots -> Call], NEW ws, NEW row \in [Rows -> RowState], CallsOK(k, ws, row),
         Placed(k), NEW w \in Rows, row[w].action = "none", NEW r, NEW row2, Replaces(row2, row, w, r)
  PROVE  CallsOK(k, ws, row2) /\ \A c \in Slots : NobodyElse(k, c, w)
<1>1. ASSUME NEW d \in Slots PROVE AwaitedOK(k[d], row2) /\ ~(k[d].live /\ ~ByDialog(k[d]) /\ k[d].w = w)
  <2>1. AwaitedOK(k[d], row) /\ (k[d].live /\ ~ByDialog(k[d]) => k[d].w \in Rows /\ k[d].w # w)
    BY DEF CallsOK, AwaitedOK, Placed
  <2> QED BY <2>1 DEF AwaitedOK, Replaces
<1> QED BY <1>1 DEF CallsOK, NobodyElse

\* Some calls are no longer waited for.
LetsGo(new, old, gone) == new = [d \in Slots |-> IF d \in gone THEN Forgotten(old[d]) ELSE old[d]]

LEMMA LetGo ==
  ASSUME NEW k \in [Slots -> Call], NEW ws, NEW row, CallsOK(k, ws, row), AloneOK(k), NEW gone \in SUBSET Slots,
         NEW k2, LetsGo(k2, k, gone)
  PROVE  /\ k2 \in [Slots -> Call] /\ CallsOK(k2, ws, row) /\ AloneOK(k2)
         /\ \A d \in Slots : k2[d].w = k[d].w /\ k2[d].op = k[d].op /\ k2[d].st = k[d].st
<1>1. ASSUME NEW d \in Slots
      PROVE  /\ k2[d] \in Call /\ (k2[d].live => k2[d] = k[d])
             /\ k2[d].w = k[d].w /\ k2[d].op = k[d].op /\ k2[d].st = k[d].st
             /\ k2[d].seen = k[d].seen /\ k2[d].known = k[d].known
  <2>1. k[d] \in Call /\ k2[d] = IF d \in gone THEN Forgotten(k[d]) ELSE k[d]
    BY DEF LetsGo
  <2> QED BY <2>1 DEF Forgotten, Call
<1>2. ASSUME NEW d \in Slots PROVE SentOK(k2[d], ws) /\ AwaitedOK(k2[d], row)
  <2>1. SentOK(k[d], ws) /\ AwaitedOK(k[d], row)
    BY DEF CallsOK
  <2>2. SentOK(k2[d], ws)
    BY <1>1, <2>1 DEF SentOK
  <2>3. AwaitedOK(k2[d], row)
    BY <1>1, <2>1 DEF AwaitedOK
  <2> QED BY <2>2, <2>3
<1>3. AloneOK(k2)
  BY <1>1 DEF AloneOK
<1>4. k2 \in [Slots -> Call]
  BY <1>1 DEF LetsGo
<1> QED BY <1>1, <1>2, <1>3, <1>4 DEF CallsOK

----------------------------------------------------------------------------
(* Steps of the person                                                     *)

LEMMA RunStep ==
  ASSUME Sound(server, ui, calls), NEW c \in Slots, NEW w \in Rows, NEW o \in Direct \cup Asked,
         NEW r \in RowState, Run(c, w, o, r), ui.row[w].action = "none",
         DialogOK(r, ui.shown[w]), ~r.rejectOpen, NoNewer(r.seen, server.ws[w]),
         r.destroyOpen => o \in {"cancel", "destroy"},
         r.keepOpen => o \in {"destroy-reject", "platform-reject"},
         r.seen = server.ws[w] => Welcome(o, r.seen),
         o \in NeedsPurpose /\ ui.projects => cast.purpose
  PROVE  Sound(server', ui', calls')
<1> DEFINE soon == (o = "destroy" /\ DestroyNow) \/ o = "destroy-force"
           settled == ui.shown[w].status \in {"destroyed", "destroying"}
           new == [NoCall EXCEPT !.w = w, !.op = o, !.st = "sent", !.live = TRUE, !.known = ui.projects,
                                 !.seen = r.seen]
           noted == [r EXCEPT !.action = o, !.optimistic = IF soon /\ ~settled THEN "destroying" ELSE @]
           row == Drawn(noted, ui.shown[w])
           gone == {d \in Slots : calls[d].w = w /\ ByDialog(calls[d]) /\ ~CanResize(noted, ui.shown[w])}
           mid == [d \in Slots |-> IF d \in gone THEN Forgotten(calls[d]) ELSE calls[d]]
<1>1. /\ calls' = [mid EXCEPT ![c] = new]
      /\ ui' = [ui EXCEPT !.busy = w, !.row[w] = row]
      /\ server' = [server EXCEPT !.left = @ - 1] /\ server.left > 0
  BY DEF Run, Spend
<1>2. /\ server \in ServerState /\ ui \in Page /\ calls \in [Slots -> Call] /\ Typed(server, ui, calls)
      /\ ListOK(server.ws, ui.shown, ui.fetch) /\ DialogsOK(ui.row, ui.shown)
      /\ CallsOK(calls, server.ws, ui.row) /\ AloneOK(calls)
      /\ ui.row \in [Rows -> RowState] /\ Placed(calls)
  BY DEF Sound, Typed, Page, Placed
<1>3. /\ row \in RowState /\ row.action = o /\ o # "none" /\ row.seen = r.seen
      /\ row.destroyOpen = r.destroyOpen /\ row.rejectOpen = r.rejectOpen /\ row.keepOpen = r.keepOpen
      /\ row.resizeOpen => r.resizeOpen /\ row.known = r.known
  <2>1. /\ noted \in RowState /\ noted.action = o /\ o # "none" /\ noted.seen = r.seen
        /\ noted.destroyOpen = r.destroyOpen /\ noted.rejectOpen = r.rejectOpen
        /\ noted.keepOpen = r.keepOpen /\ noted.resizeOpen = r.resizeOpen /\ noted.known = r.known
    BY DEF RowState, Ops, Direct, Asked
  <2> HIDE DEF noted
  <2> QED BY <2>1 DEF Drawn, RowState
<1>4. /\ new \in Call /\ new.live /\ new.st = "sent" /\ new.w = w /\ new.op = o /\ new.seen = r.seen
      /\ new.known = ui.projects /\ ~ByDialog(new)
  BY <1>2 DEF NoCall, Call, RowState, Page, Ops, ByDialog, Direct, Asked
<1> HIDE DEF new, row, noted
<1>5. server' \in ServerState /\ server'.ws = server.ws
  BY <1>1, <1>2 DEF ServerState
<1> DEFINE rows == [ui.row EXCEPT ![w] = row]
<1>6. DialogOK(row, ui.shown[w])
  BY <1>3 DEF DialogOK, Asking
<1>7. rows \in [Rows -> RowState] /\ DialogsOK(rows, ui.shown)
  BY <1>2, <1>3, <1>6, OneRow
<1>8. ui' \in Page /\ ui'.row = rows /\ ui'.shown = ui.shown /\ ui'.fetch = ui.fetch
  BY <1>1, <1>2, <1>7 DEF Page
<1>9. rows[w] = row
  BY <1>2
<1>10. SentOK(new, server.ws)
  BY <1>4 DEF SentOK
<1>11. AwaitedOK(new, rows)
  BY <1>3, <1>4, <1>9 DEF AwaitedOK
<1>12. /\ mid \in [Slots -> Call] /\ CallsOK(mid, server.ws, ui.row) /\ AloneOK(mid)
       /\ \A d \in Slots : mid[d].w = calls[d].w /\ mid[d].op = calls[d].op /\ mid[d].st = calls[d].st
  <2>1. PICK g \in SUBSET Slots : g = gone
    OBVIOUS
  <2>2. LetsGo(mid, calls, g)
    BY <2>1 DEF LetsGo
  <2> HIDE DEF mid
  <2> QED BY <1>2, <2>2, LetGo
<1> HIDE DEF mid
<1>13. Replaces(calls', mid, c, new) /\ Replaces(rows, ui.row, w, row) /\ Placed(mid)
  BY <1>1, <1>2, <1>12 DEF Replaces, Placed
<1> HIDE DEF rows
<1>14. calls' \in [Slots -> Call] /\ CallsOK(calls', server.ws, rows) /\ AloneOK(calls')
  <2>1. NobodyElse(mid, c, w)
    BY <1>2, <1>12, <1>13, QuietRow
  <2> QED BY <1>2, <1>3, <1>4, <1>10, <1>11, <1>12, <1>13, <2>1, OneCall
<1>15. \A d \in Slots : calls'[d].st # "idle" => calls'[d].w \in Rows /\ calls'[d].op \in Ops
  BY <1>1, <1>2, <1>4, <1>12 DEF Typed, Ops
<1>16. Typed(server', ui', calls')
  BY <1>2, <1>5, <1>8, <1>14, <1>15 DEF Typed
<1> QED BY <1>2, <1>5, <1>7, <1>8, <1>14, <1>16 DEF Sound

\* What a button offers, the server would do to the row the button is shown on.
LEMMA ButtonsAreWelcome ==
  ASSUME NEW w \in Rows, NEW o \in Buttons(w)
  PROVE  /\ o \in Direct \cup {"reject", "destroy", "platform-reject", "resize"} => Welcome(o, ui.shown[w])
         /\ o = "cancel" => Welcome("destroy", ui.shown[w])
         /\ o = "destroy-reject" => Welcome("destroy-reject", ui.shown[w])
<1> USE DEF Welcome, Offered, Accepts, Permits, Administers, Develops, Status
<1>1. CASE o \in ReviewButtons(w)
  BY <1>1 DEF ReviewButtons, Direct
<1>2. CASE o \in ResizeButtons(w)
  BY <1>2 DEF ResizeButtons, CanResize, Direct
<1>3. CASE o \in PowerButtons(w)
  BY <1>3 DEF PowerButtons, Direct, Closed, Destroying
<1>4. CASE o \in CancelButton(w)
  BY <1>4 DEF CancelButton, Direct, Closed, Destroying
<1>5. CASE o \in DestroyReviewButtons(w)
  BY <1>5 DEF DestroyReviewButtons, Direct, Destroying
<1>6. CASE o \in DestroyButton(w)
  BY <1>6 DEF DestroyButton, Direct, Closed, Destroying
<1>7. CASE o \in PlatformButtons(w)
  BY <1>7 DEF PlatformButtons, Direct, DestroyNow
<1>8. CASE o \in TerminalButton(w)
  BY <1>8 DEF TerminalButton, Direct
<1> QED BY <1>1, <1>2, <1>3, <1>4, <1>5, <1>6, <1>7, <1>8 DEF Buttons

LEMMA ClickStep ==
  ASSUME ConsoleInv, NEW c \in Slots, NEW w \in Rows, NEW o \in Direct, Click(c, w, o)
  PROVE  Sound(server', ui', calls')
<1> DEFINE r == [ui.row[w] EXCEPT !.seen = ui.shown[w]]
<1>1. Enabled(w, o) /\ Run(c, w, o, r)
  BY DEF Click, Row
<1>2. o \in Buttons(w) /\ ui.row[w].action = "none" /\ ~OpenRow(ui.row[w])
      /\ (o \in NeedsPurpose => ~OpsLocked)
  BY <1>1 DEF Enabled, Busy, Row
<1>3. Sound(server, ui, calls) /\ ui.row[w] \in RowState /\ ui.shown[w] \in Copy
      /\ NoNewer(ui.shown[w], server.ws[w])
  BY DEF ConsoleInv, Sound, Typed, Page, ListOK
<1>4. /\ r \in RowState /\ r.seen = ui.shown[w] /\ ~r.destroyOpen /\ ~r.rejectOpen /\ ~r.keepOpen
      /\ ~r.resizeOpen
  BY <1>2, <1>3 DEF RowState, OpenRow, Asking
<1> HIDE DEF r
<1>5. DialogOK(r, ui.shown[w])
  BY <1>4 DEF DialogOK, Asking
<1>6. Welcome(o, ui.shown[w])
  BY <1>2, ButtonsAreWelcome
<1>7. o \in NeedsPurpose /\ ui.projects => cast.purpose
  BY <1>2 DEF OpsLocked
<1> QED BY <1>1, <1>2, <1>3, <1>4, <1>5, <1>6, <1>7, RunStep

\* What an open dialog sends, the server would do to the row it was opened on,
\* if the list still shows that row.
LEMMA DialogsAreWelcome ==
  ASSUME NEW w \in Rows, DialogOK(ui.row[w], ui.shown[w]), NEW o \in Sends(w),
         ui.row[w].seen = ui.shown[w]
  PROVE  Welcome(o, ui.row[w].seen)
BY DEF Sends, DialogOK, Row, Welcome, Offered, Accepts, Permits, Administers

LEMMA ConfirmStep ==
  ASSUME ConsoleInv, NEW c \in Slots, NEW w \in Rows, NEW o \in Asked, Confirm(c, w, o)
  PROVE  Sound(server', ui', calls')
<1> DEFINE r == [ui.row[w] EXCEPT !.rejectOpen = FALSE]
<1>1. Run(c, w, o, r) /\ o \in Sends(w) /\ ui.row[w].action = "none"
  BY DEF Confirm, Row
<1>2. /\ Sound(server, ui, calls) /\ ui.row[w] \in RowState /\ ui.shown[w] \in Copy
      /\ server.ws[w] \in Copy /\ NoNewer(ui.shown[w], server.ws[w]) /\ DialogOK(ui.row[w], ui.shown[w])
  BY DEF ConsoleInv, Sound, Typed, Page, ServerState, ListOK, DialogsOK
<1>3. r \in RowState /\ r.seen = ui.row[w].seen /\ r.destroyOpen = ui.row[w].destroyOpen
      /\ ~r.rejectOpen /\ r.keepOpen = ui.row[w].keepOpen /\ r.seen \in Copy
      /\ r.resizeOpen = ui.row[w].resizeOpen /\ r.known = ui.row[w].known
  BY <1>2 DEF RowState
<1>4. Asking(ui.row[w])
  BY <1>1 DEF Sends, Asking, Row
<1> HIDE DEF r
<1>5. DialogOK(r, ui.shown[w])
  BY <1>2, <1>3 DEF DialogOK, Asking
<1>6. NoNewer(r.seen, ui.shown[w])
  BY <1>2, <1>3, <1>4 DEF DialogOK
<1>7. NoNewer(r.seen, server.ws[w]) /\ (r.seen = server.ws[w] => r.seen = ui.shown[w])
  BY <1>2, <1>3, <1>6, NoNewerIsAnOrder
<1>8. r.seen = server.ws[w] => Welcome(o, r.seen)
  BY <1>1, <1>2, <1>3, <1>7, DialogsAreWelcome
<1>9. /\ r.destroyOpen => o \in {"cancel", "destroy"}
      /\ r.keepOpen => o \in {"destroy-reject", "platform-reject"}
  BY <1>1, <1>2, <1>3 DEF Sends, DialogOK, Row
<1>10. o \notin NeedsPurpose
  BY DEF NeedsPurpose, Asked
<1> QED BY <1>1, <1>2, <1>3, <1>5, <1>7, <1>8, <1>9, <1>10, RunStep

\* A row that waits for nothing opens or closes a dialog.
LEMMA DialogStep ==
  ASSUME ConsoleInv, NEW w \in Rows, ui.row[w].action = "none", NEW r \in RowState,
         DialogOK(r, ui.shown[w]), ui' = [ui EXCEPT !.row[w] = r], UNCHANGED <<server, calls>>
  PROVE  Sound(server', ui', calls')
<1>1. /\ ui \in Page /\ calls \in [Slots -> Call] /\ ui.row \in [Rows -> RowState] /\ Placed(calls)
      /\ Typed(server, ui, calls) /\ ListOK(server.ws, ui.shown, ui.fetch)
      /\ DialogsOK(ui.row, ui.shown) /\ CallsOK(calls, server.ws, ui.row) /\ AloneOK(calls)
  BY DEF ConsoleInv, Sound, Typed, Page, Placed
<1> DEFINE rows == [ui.row EXCEPT ![w] = r]
<1>2. rows \in [Rows -> RowState] /\ DialogsOK(rows, ui.shown)
  BY <1>1, OneRow
<1>3. Replaces(rows, ui.row, w, r)
  BY DEF Replaces
<1>4. ui' \in Page /\ ui'.row = rows /\ ui'.shown = ui.shown /\ ui'.fetch = ui.fetch
  BY <1>1, <1>2 DEF Page
<1> HIDE DEF rows
<1>5. CallsOK(calls, server.ws, rows)
  BY <1>1, <1>3, QuietRow
<1>6. Typed(server, ui', calls)
  BY <1>1, <1>4 DEF Typed
<1> QED BY <1>1, <1>2, <1>4, <1>5, <1>6 DEF Sound

LEMMA OpenStep ==
  ASSUME ConsoleInv, NEW w \in Rows, NEW o \in Asked, Open(w, o)
  PROVE  Sound(server', ui', calls')
<1> DEFINE r == [ui.row[w] EXCEPT !.destroyOpen = o \in {"cancel", "destroy"}, !.rejectOpen = o = "reject",
                                  !.keepOpen = o \in {"destroy-reject", "platform-reject"},
                                  !.seen = ui.shown[w]]
<1>1. Enabled(w, o) /\ ui' = [ui EXCEPT !.row[w] = r] /\ UNCHANGED <<server, calls>>
  BY DEF Open
<1>2. o \in Buttons(w) /\ ui.row[w].action = "none" /\ ~ui.row[w].resizeOpen
  BY <1>1 DEF Enabled, Busy, Row, OpenRow
<1>3. ui.row[w] \in RowState /\ ui.shown[w] \in Copy
  BY DEF ConsoleInv, Sound, Typed, Page
<1>4. /\ r \in RowState /\ r.seen = ui.shown[w]
      /\ r.destroyOpen <=> o \in {"cancel", "destroy"}
      /\ r.rejectOpen <=> o = "reject"
      /\ r.keepOpen <=> o \in {"destroy-reject", "platform-reject"}
      /\ ~r.resizeOpen
  <2>1. /\ (o \in {"cancel", "destroy"}) \in BOOLEAN /\ (o = "reject") \in BOOLEAN
        /\ (o \in {"destroy-reject", "platform-reject"}) \in BOOLEAN
    OBVIOUS
  <2>2. PICK x \in BOOLEAN : x = (o \in {"cancel", "destroy"})
    BY <2>1
  <2>3. PICK y \in BOOLEAN : y = (o = "reject")
    BY <2>1
  <2>4. PICK z \in BOOLEAN : z = (o \in {"destroy-reject", "platform-reject"})
    BY <2>1
  <2>5. r = [ui.row[w] EXCEPT !.destroyOpen = x, !.rejectOpen = y, !.keepOpen = z, !.seen = ui.shown[w]]
    BY <2>2, <2>3, <2>4
  <2> HIDE DEF r
  <2>6. /\ r \in RowState /\ r.seen = ui.shown[w]
        /\ r.destroyOpen = x /\ r.rejectOpen = y /\ r.keepOpen = z /\ ~r.resizeOpen
    BY <1>2, <1>3, <2>5 DEF RowState
  <2> QED BY <2>2, <2>3, <2>4, <2>6
<1> HIDE DEF r
<1>5. /\ o \in {"cancel", "destroy"} => Welcome("destroy", r.seen)
      /\ o = "reject" => Welcome("reject", r.seen)
      /\ o \in {"destroy-reject", "platform-reject"} =>
           Welcome("destroy-reject", r.seen) \/ Welcome("platform-reject", r.seen)
  BY <1>2, <1>4, ButtonsAreWelcome
<1>6. NoNewer(r.seen, ui.shown[w])
  BY <1>4 DEF NoNewer
<1>7. DialogOK(r, ui.shown[w])
  BY <1>4, <1>5, <1>6 DEF DialogOK
<1> QED BY <1>1, <1>2, <1>4, <1>7, DialogStep

LEMMA DismissStep ==
  ASSUME ConsoleInv, NEW w \in Rows, Dismiss(w)
  PROVE  Sound(server', ui', calls')
<1> DEFINE r == [ui.row[w] EXCEPT !.destroyOpen = FALSE, !.rejectOpen = FALSE, !.keepOpen = FALSE,
                                  !.seen = Unseen]
<1>1. ui.row[w].action = "none" /\ ui' = [ui EXCEPT !.row[w] = r] /\ UNCHANGED <<server, calls>>
  BY DEF Dismiss, Row
<1>2. ui.row[w] \in RowState
  BY DEF ConsoleInv, Sound, Typed, Page
<1>3. /\ r \in RowState /\ ~r.destroyOpen /\ ~r.rejectOpen /\ ~r.keepOpen
      /\ r.resizeOpen = ui.row[w].resizeOpen /\ r.known = ui.row[w].known
  BY <1>2, NothingIsTyped DEF RowState
<1> HIDE DEF r
<1>4. DialogOK(r, ui.shown[w])
  <2>1. DialogOK(ui.row[w], ui.shown[w])
    BY DEF ConsoleInv, Sound, DialogsOK
  <2> QED BY <1>3, <2>1 DEF DialogOK, Asking
<1> QED BY <1>1, <1>3, <1>4, DialogStep

----------------------------------------------------------------------------
(* Steps of the server and of the network                                  *)

LEMMA AnswerStep ==
  ASSUME Sound(server, ui, calls), NEW c \in Slots, calls[c].st \in {"sent", "answered"},
         NEW a \in Answers,
         calls' = [calls EXCEPT ![c].st = "answered", ![c].ans = a], ui' = ui,
         server' \in ServerState, ListOK(server'.ws, ui.shown, ui.fetch),
         \A d \in Slots : SentOK(calls[d], server'.ws)
  PROVE  Sound(server', ui', calls')
<1> DEFINE new == [calls[c] EXCEPT !.st = "answered", !.ans = a]
<1>1. Typed(server, ui, calls) /\ calls[c] \in Call /\ AwaitedOK(calls[c], ui.row)
  BY DEF Sound, Typed, CallsOK
<1>2. /\ new \in Call /\ new.st = "answered" /\ new.live = calls[c].live /\ new.w = calls[c].w
      /\ new.op = calls[c].op /\ calls' = [calls EXCEPT ![c] = new]
  BY <1>1 DEF Call, Typed
<1> HIDE DEF new
<1>3. SentOK(new, server'.ws) /\ AwaitedOK(new, ui.row)
  BY <1>1, <1>2 DEF SentOK, AwaitedOK, ByDialog
<1>4. calls' \in [Slots -> Call] /\ calls'[c] = new /\ \A d \in Slots : d # c => calls'[d] = calls[d]
  BY <1>1, <1>2 DEF Typed
<1>5. CallsOK(calls', server'.ws, ui.row)
  BY <1>3, <1>4 DEF CallsOK, Sound
<1>6. AloneOK(calls')
  BY <1>2, <1>4 DEF AloneOK, Sound, ByDialog
<1>7. Typed(server', ui', calls')
  BY <1>1, <1>2, <1>4 DEF Typed
<1> QED BY <1>5, <1>6, <1>7 DEF Sound

LEMMA ServerStep ==
  ASSUME ConsoleInv, NEW w \in Rows, NEW r \in Copy,
         server' \in ServerState, server'.ws = [server.ws EXCEPT ![w] = Written(r)],
         r.rev = server.ws[w].rev, UNCHANGED <<ui, calls>>
  PROVE  Sound(server', ui', calls')
<1>1. /\ server \in ServerState /\ Typed(server, ui, calls) /\ ListOK(server.ws, ui.shown, ui.fetch)
      /\ CallsOK(calls, server.ws, ui.row) /\ DialogsOK(ui.row, ui.shown) /\ AloneOK(calls)
  BY DEF ConsoleInv, Sound, Typed
<1>2. Written(r) \in Copy /\ Written(r).rev = server.ws[w].rev + 1
  BY WrittenIsCopy
<1>3. PICK ws : ws = server'.ws
  OBVIOUS
<1>4. ListOK(ws, ui.shown, ui.fetch) /\ \A c \in Slots : SentOK(calls[c], ws)
  <2>1. ws = [server.ws EXCEPT ![w] = Written(r)]
    BY <1>3
  <2> QED BY <1>1, <1>2, <2>1, ServerWrites
<1>5. CallsOK(calls, ws, ui.row)
  BY <1>1, <1>4 DEF CallsOK
<1>6. Typed(server', ui, calls)
  BY <1>1 DEF Typed
<1> QED BY <1>1, <1>3, <1>4, <1>5, <1>6 DEF Sound

LEMMA ServeStep ==
  ASSUME ConsoleInv, NEW c \in Slots, Serve(c)
  PROVE  Sound(server', ui', calls')
<1> DEFINE k == calls[c]
           r == server.ws[k.w]
           o == k.op
           Write(n) == server' = [server EXCEPT !.ws[k.w] = Written(n)]
<1>1. /\ k.st = "sent" /\ ui' = ui
      /\ \E a \in Answers : Answer(c, a)
      /\ server' = server \/ \E n \in Results(o, r) \cup LeftBehind(o, r) : Write(n)
  <2>1. Refusal(o, r) # "none" => Refusal(o, r) \in Answers
    BY DEF Refusal, Answers
  <2>2. "ok" \in Answers /\ "unavailable" \in Answers
    BY DEF Answers
  <2> QED BY <2>1, <2>2 DEF Serve
<1>2. PICK a \in Answers : calls' = [calls EXCEPT ![c].st = "answered", ![c].ans = a]
  BY <1>1 DEF Answer
<1>3. /\ Sound(server, ui, calls) /\ server \in ServerState /\ Typed(server, ui, calls)
      /\ ListOK(server.ws, ui.shown, ui.fetch) /\ CallsOK(calls, server.ws, ui.row)
      /\ k.w \in Rows /\ o \in Ops /\ r \in Copy
  BY <1>1 DEF ConsoleInv, Sound, Typed, ServerState
<1>4. CASE server' = server
  <2>1. \A d \in Slots : SentOK(calls[d], server.ws)
    BY <1>3 DEF CallsOK
  <2> QED BY <1>1, <1>2, <1>3, <1>4, <2>1, AnswerStep
<1>5. ASSUME NEW n \in Results(o, r) \cup LeftBehind(o, r), Write(n)
      PROVE  Sound(server', ui', calls')
  <2>1. Written(n) \in Copy /\ Written(n).rev = r.rev + 1
    BY <1>3, ResultsAreCopies, WrittenIsCopy
  <2>2. PICK done : done = Written(n)
    OBVIOUS
  <2>3. PICK ws : ws = [server.ws EXCEPT ![k.w] = done]
    OBVIOUS
  <2>4. /\ ws \in [Rows -> Copy] /\ ListOK(ws, ui.shown, ui.fetch)
        /\ \A d \in Slots : SentOK(calls[d], ws)
    <3>1. PICK w \in Rows : w = k.w
      BY <1>3
    <3> QED BY <1>3, <2>1, <2>2, <2>3, <3>1, ServerWrites
  <2>5. server' \in ServerState /\ server'.ws = ws
    BY <1>3, <1>5, <2>2, <2>3, <2>4 DEF ServerState
  <2> QED BY <1>1, <1>2, <1>3, <2>4, <2>5, AnswerStep
<1> QED BY <1>1, <1>4, <1>5

LEMMA LoseStep ==
  ASSUME ConsoleInv, NEW c \in Slots, Lose(c)
  PROVE  Sound(server', ui', calls')
<1>1. /\ Sound(server, ui, calls) /\ server \in ServerState /\ ListOK(server.ws, ui.shown, ui.fetch)
      /\ \A d \in Slots : SentOK(calls[d], server.ws)
  BY DEF ConsoleInv, Sound, Typed, CallsOK
<1>2. server' \in ServerState /\ server'.ws = server.ws
  BY <1>1 DEF Lose, Spend, ServerState
<1> QED BY <1>1, <1>2, AnswerStep DEF Lose, Answers

LEMMA ElsewhereStep ==
  ASSUME ConsoleInv, NEW w \in Rows, Elsewhere(w)
  PROVE  Sound(server', ui', calls')
<1>1. PICK r \in OtherSteps(server.ws[w]) :
        server' = [server EXCEPT !.ws[w] = Written(r), !.left = @ - 1]
  BY DEF Elsewhere
<1>2. server \in ServerState /\ server.ws[w] \in Copy
  BY DEF ConsoleInv, Sound, Typed, ServerState
<1>3. r \in Copy /\ r.rev = server.ws[w].rev
  BY <1>2, OthersMakeCopies
<1>4. Written(r) \in Copy
  BY <1>3, WrittenIsCopy
<1>5. server' \in ServerState /\ server'.ws = [server.ws EXCEPT ![w] = Written(r)]
  <2>1. PICK row \in Copy : row = Written(r)
    BY <1>4
  <2>2. server.left \in Nat \ {0} /\ server' = [server EXCEPT !.ws[w] = row, !.left = server.left - 1]
    BY <1>1, <1>2, <2>1 DEF Elsewhere, Spend, ServerState
  <2>3. PICK n \in Nat : n = server.left - 1
    BY <2>2
  <2>4. server' = [server EXCEPT !.ws[w] = row, !.left = n]
    BY <2>2, <2>3
  <2> QED BY <1>2, <2>1, <2>4 DEF ServerState
<1> QED BY <1>3, <1>5, ServerStep DEF Elsewhere

LEMMA FinishDestroyStep ==
  ASSUME ConsoleInv, NEW w \in Rows, FinishDestroy(w)
  PROVE  Sound(server', ui', calls')
<1> DEFINE r == [server.ws[w] EXCEPT !.status = "destroyed"]
<1>1. server \in ServerState /\ server.ws[w] \in Copy
  BY DEF ConsoleInv, Sound, Typed, ServerState
<1>2. r \in Copy /\ r.rev = server.ws[w].rev
  BY <1>1 DEF Copy, Froms, Statuses
<1>3. server' = [server EXCEPT !.ws[w] = Written(r)]
  BY DEF FinishDestroy
<1> HIDE DEF r
<1>4. server' \in ServerState /\ server'.ws = [server.ws EXCEPT ![w] = Written(r)]
  BY <1>1, <1>2, <1>3, WrittenIsCopy DEF ServerState
<1> QED BY <1>2, <1>4, ServerStep DEF FinishDestroy

----------------------------------------------------------------------------
(* Steps of the list                                                       *)

\* The page fetches, polls or hears of its projects; its rows stay as they are.
LEMMA PageStep ==
  ASSUME ConsoleInv, server' \in ServerState, server'.ws = server.ws, calls' = calls, ui' \in Page,
         ui'.row = ui.row, ui'.shown = ui.shown,
         ui'.fetch.st = "answered" => ui'.fetch.rows \in [Rows -> Copy],
         ListOK(server.ws, ui.shown, ui'.fetch)
  PROVE  Sound(server', ui', calls')
<1>1. Typed(server', ui', calls')
  BY DEF ConsoleInv, Sound, Typed
<1> QED BY <1>1 DEF ConsoleInv, Sound

LEMMA FetchSteps ==
  ASSUME ConsoleInv, Poll \/ ServeFetch \/ LoseFetch \/ CloseWindow \/ LoadProjects
  PROVE  Sound(server', ui', calls')
<1>1. /\ server \in ServerState /\ ui \in Page /\ ListOK(server.ws, ui.shown, ui.fetch)
      /\ ui.fetch \in Fetch /\ (ui.fetch.st = "answered" => ui.fetch.rows \in [Rows -> Copy])
  BY DEF ConsoleInv, Sound, Typed, Page
<1>2. CASE Poll
  <2>1. /\ ui' \in Page /\ ui'.row = ui.row /\ ui'.shown = ui.shown /\ ui'.fetch.st = "sent"
        /\ UNCHANGED <<server, calls>>
    BY <1>1, <1>2, RefetchIsTyped DEF Poll, Page
  <2>2. ListOK(server.ws, ui.shown, ui'.fetch)
    BY <1>1, <2>1 DEF ListOK
  <2> QED BY <1>1, <2>1, <2>2, PageStep
<1>3. CASE ServeFetch
  <2> DEFINE f == [ui.fetch EXCEPT !.st = "answered", !.rows = server.ws]
  <2>1. f \in Fetch /\ f.st = "answered" /\ f.rows = server.ws /\ server.ws \in [Rows -> Copy]
    BY <1>1 DEF Fetch, ServerState
  <2>2. ui' = [ui EXCEPT !.fetch = f] /\ UNCHANGED <<server, calls>>
    BY <1>1, <1>3 DEF ServeFetch, Page, Fetch
  <2> HIDE DEF f
  <2>3. ui' \in Page /\ ui'.row = ui.row /\ ui'.shown = ui.shown /\ ui'.fetch = f
    BY <1>1, <2>1, <2>2 DEF Page
  <2>4. ListOK(server.ws, ui.shown, f)
    BY <1>1, <2>1 DEF ListOK, NoNewer
  <2> QED BY <1>1, <2>1, <2>2, <2>3, <2>4, PageStep
<1>4. CASE LoseFetch
  <2>1. /\ ui' \in Page /\ ui'.row = ui.row /\ ui'.shown = ui.shown /\ ui'.fetch.st = "idle" /\ calls' = calls
    BY <1>1, <1>4, NothingIsTyped DEF LoseFetch, Page, NoFetch
  <2>2. server' \in ServerState /\ server'.ws = server.ws
    BY <1>1, <1>4 DEF LoseFetch, Spend, ServerState
  <2>3. ListOK(server.ws, ui.shown, ui'.fetch)
    BY <1>1, <2>1 DEF ListOK
  <2> QED BY <2>1, <2>2, <2>3, PageStep
<1>5. CASE CloseWindow
  BY <1>1, <1>5, PageStep DEF CloseWindow, Page
<1>6. CASE LoadProjects
  BY <1>1, <1>6, PageStep DEF LoadProjects, Page
<1> QED BY <1>2, <1>3, <1>4, <1>5, <1>6

\* A row keeps what it waits for and what its dialogs were opened on.
Kept(new, old) ==
  /\ new.action = old.action /\ new.seen = old.seen
  /\ new.destroyOpen = old.destroyOpen /\ new.rejectOpen = old.rejectOpen /\ new.keepOpen = old.keepOpen

\* A call is the same, but perhaps no row waits for it any more.
Followed(new, old, row) ==
  /\ new.w = old.w /\ new.op = old.op /\ new.st = old.st /\ new.known = old.known /\ new.seen = old.seen
  /\ new.live => old.live /\ (ByDialog(old) \/ row[old.w] # NoRow)

\* A resize dialog is open on a row that can be resized.
ResizeOK(r, s) == r.resizeOpen => Welcome("resize", s) /\ (r.known => cast.purpose)

\* Rows are mounted anew, with the calls they waited for forgotten, or kept.
LEMMA RowsForget ==
  ASSUME ConsoleInv, server' \in ServerState, server'.ws = server.ws, ui' \in Page,
         ui'.fetch.st = "answered" => ui'.fetch.rows \in [Rows -> Copy],
         ListOK(server.ws, ui'.shown, ui'.fetch),
         \A w \in Rows : ui'.row[w] = NoRow \/ Kept(ui'.row[w], ui.row[w]),
         \A w \in Rows : ResizeOK(ui'.row[w], ui'.shown[w]),
         \A w \in Rows : Asking(ui.row[w]) => NoNewer(ui.row[w].seen, ui'.shown[w]),
         calls' \in [Slots -> Call], \A c \in Slots : Followed(calls'[c], calls[c], ui'.row)
  PROVE  Sound(server', ui', calls')
<1>1. /\ Typed(server, ui, calls) /\ DialogsOK(ui.row, ui.shown) /\ CallsOK(calls, server.ws, ui.row)
      /\ AloneOK(calls)
  BY DEF ConsoleInv, Sound
<1>2. ASSUME NEW w \in Rows PROVE DialogOK(ui'.row[w], ui'.shown[w])
  <2>1. CASE ui'.row[w] = NoRow
    BY <2>1, NothingIsTyped DEF DialogOK, OpenRow, Asking
  <2>2. CASE Kept(ui'.row[w], ui.row[w])
    <3>1. DialogOK(ui.row[w], ui.shown[w])
      BY <1>1 DEF DialogsOK
    <3>2. ResizeOK(ui'.row[w], ui'.shown[w])
      OBVIOUS
    <3> QED BY <2>2, <3>1, <3>2 DEF DialogOK, Asking, Kept, ResizeOK
  <2> QED BY <2>1, <2>2
<1>3. ASSUME NEW c \in Slots PROVE SentOK(calls'[c], server.ws) /\ AwaitedOK(calls'[c], ui'.row)
  <2>1. Followed(calls'[c], calls[c], ui'.row) /\ SentOK(calls[c], server.ws) /\ AwaitedOK(calls[c], ui.row)
    BY <1>1 DEF CallsOK
  <2>2. SentOK(calls'[c], server.ws)
    BY <2>1 DEF Followed, SentOK
  <2>3. ASSUME calls'[c].live PROVE AwaitedOK(calls'[c], ui'.row)
    <3>1. /\ calls[c].live /\ calls[c].st # "idle" /\ (ByDialog(calls[c]) <=> ByDialog(calls'[c]))
          /\ ~ByDialog(calls[c]) => ui'.row[calls[c].w] # NoRow
      BY <2>1, <2>3 DEF Followed, AwaitedOK, ByDialog
    <3>2. calls[c].w \in Rows
      BY <1>1, <3>1 DEF Typed
    <3>3. ~ByDialog(calls[c]) => Kept(ui'.row[calls[c].w], ui.row[calls[c].w])
      BY <3>1, <3>2
    <3>4. ByDialog(calls[c]) => AwaitedOK(calls'[c], ui'.row)
      BY <2>1, <3>1 DEF AwaitedOK, Followed
    <3>5. ~ByDialog(calls[c]) => AwaitedOK(calls'[c], ui'.row)
      BY <2>1, <3>1, <3>3 DEF AwaitedOK, Followed, Kept, Asking
    <3> QED BY <3>4, <3>5
  <2>4. ~calls'[c].live => AwaitedOK(calls'[c], ui'.row)
    BY DEF AwaitedOK
  <2> QED BY <2>2, <2>3, <2>4
<1>4. AloneOK(calls')
  BY <1>1 DEF AloneOK, Followed, ByDialog
<1>5. Typed(server', ui', calls')
  BY <1>1 DEF Typed, Followed
<1> QED BY <1>2, <1>3, <1>4, <1>5 DEF Sound, DialogsOK, CallsOK

LEMMA LiveCalls ==
  ASSUME ConsoleInv, NEW c \in Slots
  PROVE  /\ calls[c] \in Call
         /\ calls[c].live => /\ calls[c].st # "idle" /\ calls[c].w \in Rows
                             /\ ByDialog(calls[c]) \/ ui.row[calls[c].w] # NoRow
BY DEF ConsoleInv, Sound, Typed, CallsOK, AwaitedOK, NoRow

LEMMA FetchReturnsStep ==
  ASSUME ConsoleInv, FetchReturns
  PROVE  Sound(server', ui', calls')
<1> DEFINE new == ui.fetch.rows
           Rest(w) == IF Hidden(new[w]) THEN NoRow
                      ELSE Settle(Drawn(ui.row[w], new[w]), new[w].status)
           Lost(c) == /\ calls[c].st # "idle"
                      /\ \/ Hidden(new[calls[c].w])
                         \/ ByDialog(calls[c]) /\ ~CanResize(ui.row[calls[c].w], new[calls[c].w])
<1>1. /\ server \in ServerState /\ ui \in Page /\ ListOK(server.ws, ui.shown, ui.fetch)
      /\ new \in [Rows -> Copy] /\ ui.fetch.st = "answered" /\ DialogsOK(ui.row, ui.shown)
      /\ ui.row \in [Rows -> RowState] /\ ui.shown \in [Rows -> Copy]
  BY DEF ConsoleInv, Sound, Typed, Page, FetchReturns
<1>2. /\ ui' = [ui EXCEPT !.shown = new, !.listed = TRUE, !.fetch = NoFetch,
                          !.window = IF @ = "open" THEN "polled" ELSE @,
                          !.row = [w \in Rows |-> Rest(w)]]
      /\ calls' = [c \in Slots |-> IF Lost(c) THEN Forgotten(calls[c]) ELSE calls[c]]
      /\ server' = server
  BY DEF FetchReturns, Row
<1>3. ASSUME NEW w \in Rows
      PROVE  Rest(w) \in RowState /\ (Hidden(new[w]) => Rest(w) = NoRow)
             /\ (~Hidden(new[w]) => Kept(Rest(w), ui.row[w]))
             /\ ResizeOK(Rest(w), new[w])
  <2>1. PICK d : d = Drawn(ui.row[w], new[w])
    OBVIOUS
  <2>2. ui.row[w] \in RowState /\ ResizeOK(ui.row[w], ui.shown[w])
    BY <1>1 DEF DialogsOK, DialogOK, ResizeOK
  <2>3. d \in RowState /\ Kept(d, ui.row[w]) /\ ResizeOK(d, new[w])
    BY <2>1, <2>2 DEF Drawn, RowState, Kept, ResizeOK, CanResize, Welcome, Offered
  <2>4. Settle(d, new[w].status) \in RowState /\ Kept(Settle(d, new[w].status), ui.row[w])
        /\ ResizeOK(Settle(d, new[w].status), new[w])
    BY <2>3 DEF Settle, RowState, Kept, ResizeOK
  <2> QED BY <2>1, <2>4, NothingIsTyped DEF ResizeOK, OpenRow
<1> HIDE DEF Rest
<1> DEFINE rows == [w \in Rows |-> Rest(w)]
<1>4. rows \in [Rows -> RowState] /\ \A w \in Rows : rows[w] = Rest(w)
  BY <1>3
<1> HIDE DEF rows
<1>5. ui' \in Page /\ ui'.row = rows /\ ui'.shown = new /\ ui'.fetch = NoFetch
  <2>1. ui' = [ui EXCEPT !.shown = new, !.listed = TRUE, !.fetch = NoFetch,
                         !.window = IF @ = "open" THEN "polled" ELSE @, !.row = rows]
    BY <1>2 DEF rows
  <2> HIDE DEF new
  <2> QED BY <1>1, <1>4, <2>1, NothingIsTyped DEF Page
<1>6. ListOK(server.ws, new, NoFetch)
  BY <1>1 DEF ListOK, NoFetch
<1>7. ASSUME NEW w \in Rows, Asking(ui.row[w]) PROVE NoNewer(ui.row[w].seen, new[w])
  <2>1. NoNewer(ui.row[w].seen, ui.shown[w]) /\ NoNewer(ui.shown[w], new[w])
    BY <1>1, <1>7 DEF DialogsOK, DialogOK, ListOK
  <2>2. ui.row[w].seen \in Copy /\ ui.shown[w] \in Copy /\ new[w] \in Copy
    BY <1>1 DEF RowState
  <2> QED BY <2>1, <2>2, NoNewerIsAnOrder
<1>8. ASSUME NEW c \in Slots PROVE calls'[c] \in Call /\ Followed(calls'[c], calls[c], rows)
  <2>1. calls[c] \in Call /\ (calls[c].live => calls[c].st # "idle" /\ calls[c].w \in Rows)
    BY LiveCalls
  <2>2. calls[c].live /\ ~ByDialog(calls[c]) => ui.row[calls[c].w].action # "none"
    BY DEF ConsoleInv, Sound, CallsOK, AwaitedOK
  <2>3. calls[c].live /\ ~ByDialog(calls[c]) /\ ~Hidden(new[calls[c].w]) => rows[calls[c].w] # NoRow
    BY <1>3, <1>4, <2>1, <2>2, NothingIsTyped DEF Kept
  <2>4. calls'[c] = IF Lost(c) THEN Forgotten(calls[c]) ELSE calls[c]
    BY <1>2
  <2>5. calls[c].live /\ ~ByDialog(calls[c]) /\ ~Lost(c) => rows[calls[c].w] # NoRow
    BY <2>1, <2>3
  <2> HIDE DEF Lost
  <2> QED BY <2>1, <2>4, <2>5 DEF Followed, Call, Forgotten
<1>9. calls' \in [Slots -> Call]
  BY <1>2, <1>8
<1>10. \A w \in Rows : (rows[w] = NoRow \/ Kept(rows[w], ui.row[w])) /\ ResizeOK(rows[w], new[w])
  BY <1>3, <1>4
<1>11. ui'.fetch.st = "idle"
  BY <1>5 DEF NoFetch
<1> HIDE DEF new
<1> QED BY <1>1, <1>2, <1>5, <1>6, <1>7, <1>8, <1>9, <1>10, <1>11, RowsForget

\* The list is drawn anew, on a narrower screen or for another project.
LEMMA RemountStep ==
  ASSUME ConsoleInv, server' \in ServerState, server'.ws = server.ws, ui' \in Page,
         ui'.fetch.st = "answered" => ui'.fetch = ui.fetch, ui'.shown = ui.shown,
         ui'.row = [w \in Rows |-> NoRow],
         calls' = [c \in Slots |-> Forgotten(calls[c])]
  PROVE  Sound(server', ui', calls')
<1>1. /\ ListOK(server.ws, ui.shown, ui.fetch) /\ DialogsOK(ui.row, ui.shown)
      /\ ui.fetch.st = "answered" => ui.fetch.rows \in [Rows -> Copy]
  BY DEF ConsoleInv, Sound, Typed
<1>2. ListOK(server.ws, ui'.shown, ui'.fetch)
  BY <1>1 DEF ListOK
<1>3. \A w \in Rows : ui'.row[w] = NoRow /\ ResizeOK(NoRow, ui'.shown[w])
  BY NothingIsTyped DEF ResizeOK, OpenRow
<1>4. \A w \in Rows : Asking(ui.row[w]) => NoNewer(ui.row[w].seen, ui'.shown[w])
  BY <1>1 DEF DialogsOK, DialogOK
<1>5. ASSUME NEW c \in Slots PROVE calls'[c] \in Call /\ Followed(calls'[c], calls[c], ui'.row)
  <2>1. calls'[c] = Forgotten(calls[c]) /\ calls[c] \in Call
    BY LiveCalls
  <2> QED BY <2>1 DEF Call, Followed, Forgotten
<1>6. calls' \in [Slots -> Call]
  BY <1>5
<1>7. ui'.fetch.st = "answered" => ui'.fetch.rows \in [Rows -> Copy]
  BY <1>1
<1> QED BY <1>2, <1>3, <1>4, <1>5, <1>6, <1>7, RowsForget

LEMMA ToggleAbnormalStep ==
  ASSUME ConsoleInv, ToggleAbnormal
  PROVE  Sound(server', ui', calls')
<1> DEFINE gone == {w \in Rows : HiddenFrom(ui.shown[w], ~ui.abnormal)}
           rows == [w \in Rows |-> IF w \in gone THEN NoRow ELSE ui.row[w]]
<1>1. /\ ui' = [ui EXCEPT !.abnormal = ~@, !.row = rows] /\ server' = server
      /\ calls' = [c \in Slots |-> [calls[c] EXCEPT !.live = @ /\ calls[c].w \notin gone]]
  BY DEF ToggleAbnormal, Row
<1>2. /\ server \in ServerState /\ ui \in Page /\ ListOK(server.ws, ui.shown, ui.fetch)
      /\ DialogsOK(ui.row, ui.shown) /\ (ui.fetch.st = "answered" => ui.fetch.rows \in [Rows -> Copy])
      /\ ui.row \in [Rows -> RowState]
  BY DEF ConsoleInv, Sound, Typed, Page
<1> HIDE DEF gone
<1>3. /\ rows \in [Rows -> RowState]
      /\ \A w \in Rows : IF w \in gone THEN rows[w] = NoRow ELSE rows[w] = ui.row[w]
  BY <1>2, NothingIsTyped
<1> HIDE DEF rows
<1>4. ui' \in Page /\ ui'.row = rows /\ ui'.shown = ui.shown /\ ui'.fetch = ui.fetch
  BY <1>1, <1>2, <1>3 DEF Page
<1>5. \A w \in Rows : (rows[w] = NoRow \/ Kept(rows[w], ui.row[w])) /\ ResizeOK(rows[w], ui.shown[w])
  BY <1>2, <1>3, NothingIsTyped DEF Kept, ResizeOK, DialogsOK, DialogOK, OpenRow
<1>6. \A w \in Rows : Asking(ui.row[w]) => NoNewer(ui.row[w].seen, ui.shown[w])
  BY <1>2 DEF DialogsOK, DialogOK
<1>7. ASSUME NEW c \in Slots PROVE calls'[c] \in Call /\ Followed(calls'[c], calls[c], rows)
  <2>1. calls[c] \in Call /\ (calls[c].live => calls[c].w \in Rows /\ (ByDialog(calls[c]) \/ ui.row[calls[c].w] # NoRow))
    BY LiveCalls
  <2>2. calls[c].live /\ ~ByDialog(calls[c]) /\ calls[c].w \notin gone => rows[calls[c].w] # NoRow
    BY <1>3, <2>1
  <2>3. PICK on \in BOOLEAN : on <=> calls[c].live /\ calls[c].w \notin gone
    OBVIOUS
  <2>4. calls'[c] = [calls[c] EXCEPT !.live = on]
    <3>1. calls'[c] = [calls[c] EXCEPT !.live = calls[c].live /\ calls[c].w \notin gone]
      BY <1>1, <2>1 DEF Call
    <3>2. (calls[c].live /\ calls[c].w \notin gone) = on
      BY <2>3
    <3> QED BY <3>1, <3>2
  <2> QED BY <2>1, <2>2, <2>3, <2>4 DEF Call, Followed
<1>8. calls' \in [Slots -> Call]
  BY <1>1, <1>7
<1> QED BY <1>1, <1>2, <1>4, <1>5, <1>6, <1>7, <1>8, RowsForget

LEMMA ListSteps ==
  ASSUME ConsoleInv, Remount \/ ChangeFilter
  PROVE  Sound(server', ui', calls')
<1>1. server \in ServerState /\ ui \in Page
  BY DEF ConsoleInv, Sound, Typed
<1>2. [w \in Rows |-> NoRow] \in [Rows -> RowState]
  BY NothingIsTyped
<1>3. CASE Remount
  <2>1. /\ ui' \in Page /\ ui'.fetch = ui.fetch /\ ui'.shown = ui.shown
        /\ ui'.row = [w \in Rows |-> NoRow]
    BY <1>1, <1>2, <1>3 DEF Remount, Page
  <2> QED BY <1>1, <1>3, <2>1, RemountStep DEF Remount
<1>4. CASE ChangeFilter
  <2>1. PICK seen \in BOOLEAN :
          ui' = [ui EXCEPT !.filtered = ~@, !.listed = seen, !.row = [w \in Rows |-> NoRow],
                           !.fetch = Refetch("filter")]
    BY <1>4 DEF ChangeFilter
  <2>2. /\ ui' \in Page /\ ui'.fetch.st = "sent" /\ ui'.shown = ui.shown
        /\ ui'.row = [w \in Rows |-> NoRow]
    BY <1>1, <1>2, <2>1, RefetchIsTyped DEF Page
  <2>3. server' \in ServerState /\ server'.ws = server.ws
    <3>1. server' = [server EXCEPT !.left = @ - 1] /\ server.left > 0
      BY <1>4 DEF ChangeFilter, Spend
    <3> QED BY <1>1, <3>1 DEF ServerState
  <2> QED BY <1>4, <2>2, <2>3, RemountStep DEF ChangeFilter
<1> QED BY <1>3, <1>4

----------------------------------------------------------------------------
(* The end of an operation                                                 *)

\* The row of a call that it waits for changes with the call.
LEMMA EndStep ==
  ASSUME ConsoleInv, NEW c \in Slots, calls[c].live, ~ByDialog(calls[c]), NEW new \in Call, NEW r \in RowState,
         server' = server, calls' = [calls EXCEPT ![c] = new], ui' \in Page, ui'.shown = ui.shown,
         ui'.fetch = ui.fetch \/ ui'.fetch.st = "sent", ui'.row = [ui.row EXCEPT ![calls[c].w] = r],
         DialogOK(r, ui.shown[calls[c].w]), new.st # "sent", new.st # "idle" => new.w \in Rows /\ new.op \in Ops,
         new.live => /\ new.w = calls[c].w /\ ~ByDialog(new)
                     /\ new.st = "refreshing" /\ r.action # "none" /\ ~Asking(r)
  PROVE  Sound(server', ui', calls')
<1>1. /\ calls \in [Slots -> Call] /\ ui.row \in [Rows -> RowState] /\ Placed(calls)
      /\ Typed(server, ui, calls) /\ ListOK(server.ws, ui.shown, ui.fetch)
      /\ DialogsOK(ui.row, ui.shown) /\ CallsOK(calls, server.ws, ui.row) /\ AloneOK(calls)
      /\ calls[c].w \in Rows
  <2>1. calls[c].w \in Rows
    BY LiveCalls
  <2> QED BY <2>1 DEF ConsoleInv, Sound, Typed, Page, Placed
<1>2. PICK w \in Rows : w = calls[c].w
  BY <1>1
<1>3. PICK rows : rows = ui'.row
  OBVIOUS
<1>4. rows \in [Rows -> RowState] /\ DialogsOK(rows, ui.shown) /\ rows[w] = r
  BY <1>1, <1>2, <1>3, OneRow
<1>5. PICK k2 : k2 = calls'
  OBVIOUS
<1>6. Replaces(k2, calls, c, new) /\ Replaces(rows, ui.row, w, r)
  BY <1>2, <1>3, <1>5 DEF Replaces
<1>7. NobodyElse(calls, c, w)
  BY <1>1, <1>2 DEF NobodyElse, AloneOK
<1>8. SentOK(new, server.ws) /\ AwaitedOK(new, rows) /\ (new.live => new.w = w /\ ~ByDialog(new))
  BY <1>2, <1>4 DEF SentOK, AwaitedOK, Asking
<1>9. k2 \in [Slots -> Call] /\ CallsOK(k2, server.ws, rows) /\ AloneOK(k2)
  BY <1>1, <1>4, <1>6, <1>7, <1>8, OneCall
<1>10. ListOK(server.ws, ui.shown, ui'.fetch)
  BY <1>1 DEF ListOK
<1>11. Typed(server', ui', calls')
  BY <1>1, <1>5, <1>9 DEF Typed
<1> QED BY <1>3, <1>4, <1>5, <1>9, <1>10, <1>11 DEF Sound

\* A call that no row waits for leaves the rows alone.
LEMMA ForgottenStep ==
  ASSUME ConsoleInv, NEW c \in Slots, NEW new \in Call,
         server' = server, calls' = [calls EXCEPT ![c] = new], ui' \in Page, ui'.shown = ui.shown,
         ui'.fetch = ui.fetch \/ ui'.fetch.st = "sent", ui'.row = ui.row, ~new.live,
         new.st # "sent", new.st # "idle" => new.w \in Rows /\ new.op \in Ops
  PROVE  Sound(server', ui', calls')
<1>1. /\ calls \in [Slots -> Call] /\ Typed(server, ui, calls) /\ ListOK(server.ws, ui.shown, ui.fetch)
      /\ DialogsOK(ui.row, ui.shown) /\ CallsOK(calls, server.ws, ui.row) /\ AloneOK(calls)
  BY DEF ConsoleInv, Sound, Typed
<1>2. calls' \in [Slots -> Call] /\ calls'[c] = new /\ \A d \in Slots : d # c => calls'[d] = calls[d]
  BY <1>1
<1>3. CallsOK(calls', server.ws, ui.row)
  BY <1>1, <1>2 DEF CallsOK, SentOK, AwaitedOK
<1>4. AloneOK(calls')
  BY <1>1, <1>2 DEF AloneOK
<1>5. ListOK(server.ws, ui.shown, ui'.fetch)
  BY <1>1 DEF ListOK
<1>6. Typed(server', ui', calls')
  BY <1>1, <1>2 DEF Typed
<1> QED BY <1>1, <1>3, <1>4, <1>5, <1>6 DEF Sound

LEMMA ReturnStep ==
  ASSUME ConsoleInv, NEW c \in Slots, Return(c)
  PROVE  Sound(server', ui', calls')
<1> DEFINE k == calls[c]
           old == ui.row[k.w]
           going == [k EXCEPT !.st = "refreshing"]
           closed == [old EXCEPT !.destroyOpen = @ /\ k.op \notin {"cancel", "destroy"},
                                 !.keepOpen = @ /\ k.op \notin {"destroy-reject", "platform-reject"}]
           freed == [old EXCEPT !.optimistic = "none", !.action = "none",
                                !.seen = IF Asking(old) THEN @ ELSE Unseen]
<1>1. /\ k.st = "answered" /\ ~ByDialog(k) /\ k \in Call /\ k.w \in Rows /\ k.op \in Ops /\ ui \in Page
      /\ ui.row \in [Rows -> RowState] /\ old \in RowState /\ AwaitedOK(k, ui.row)
      /\ DialogOK(old, ui.shown[k.w]) /\ calls \in [Slots -> Call] /\ server' = server
  BY DEF Return, ConsoleInv, Sound, Typed, Page, CallsOK, DialogsOK
<1>2. CASE k.ans = "ok"
  <2>1. /\ calls' = [calls EXCEPT ![c] = going]
        /\ ui' = [ui EXCEPT !.window = "open", !.fetch = Refetch(c),
                            !.row[k.w] = IF k.live THEN closed ELSE old]
    BY <1>2, Zenon DEF Return, Row
  <2>2. going \in Call /\ going.st = "refreshing" /\ going.w = k.w /\ going.op = k.op /\ going.live = k.live
        /\ ~ByDialog(going)
    BY <1>1 DEF Call, ByDialog
  <2>3. ASSUME k.live
        PROVE  /\ closed \in RowState /\ closed.action # "none" /\ ~Asking(closed)
               /\ closed.resizeOpen = old.resizeOpen /\ closed.known = old.known
    <3>1. /\ old.action # "none" /\ ~old.rejectOpen
          /\ (old.destroyOpen /\ k.op \notin {"cancel", "destroy"}) = FALSE
          /\ (old.keepOpen /\ k.op \notin {"destroy-reject", "platform-reject"}) = FALSE
      BY <1>1, <2>3 DEF AwaitedOK
    <3>2. closed = [old EXCEPT !.destroyOpen = FALSE, !.keepOpen = FALSE]
      BY <1>1, <3>1 DEF RowState
    <3> HIDE DEF closed
    <3> QED BY <1>1, <3>1, <3>2 DEF RowState, Asking
  <2> HIDE DEF closed, going
  <2>4. Refetch(c) \in Fetch /\ Refetch(c).st = "sent"
    BY RefetchIsTyped
  <2>5. CASE k.live
    <3>1. /\ ui' \in Page /\ ui'.row = [ui.row EXCEPT ![k.w] = closed] /\ ui'.shown = ui.shown
          /\ ui'.fetch.st = "sent"
      BY <1>1, <2>1, <2>3, <2>4, <2>5 DEF Page
    <3>2. DialogOK(closed, ui.shown[k.w])
      BY <1>1, <2>3, <2>5 DEF DialogOK, Asking
    <3> QED BY <1>1, <2>1, <2>2, <2>3, <2>5, <3>1, <3>2, EndStep
  <2>6. CASE ~k.live
    <3>1. /\ ui' \in Page /\ ui'.row = ui.row /\ ui'.shown = ui.shown /\ ui'.fetch.st = "sent"
      BY <1>1, <2>1, <2>4, <2>6 DEF Page
    <3> QED BY <1>1, <2>1, <2>2, <2>6, <3>1, ForgottenStep
  <2> QED BY <2>5, <2>6
<1>3. CASE k.ans # "ok"
  <2>1. /\ calls' = [calls EXCEPT ![c] = NoCall]
        /\ ui' = [ui EXCEPT !.busy = "none", !.row[k.w] = IF k.live THEN freed ELSE old]
    BY <1>3, Zenon DEF Return, Row
  <2>2. /\ freed \in RowState /\ freed.seen = IF Asking(old) THEN old.seen ELSE Unseen
        /\ freed.destroyOpen = old.destroyOpen /\ freed.rejectOpen = old.rejectOpen
        /\ freed.keepOpen = old.keepOpen /\ freed.resizeOpen = old.resizeOpen /\ freed.known = old.known
    BY <1>1, NothingIsTyped DEF RowState
  <2> HIDE DEF freed
  <2>3. DialogOK(freed, ui.shown[k.w])
    BY <1>1, <2>2 DEF DialogOK, Asking
  <2>4. CASE k.live
    <3>1. /\ ui' \in Page /\ ui'.row = [ui.row EXCEPT ![k.w] = freed] /\ ui'.shown = ui.shown
          /\ ui'.fetch = ui.fetch
      BY <1>1, <2>1, <2>2, <2>4 DEF Page
    <3> QED BY <1>1, <2>1, <2>2, <2>3, <2>4, <3>1, NothingIsTyped, EndStep
  <2>5. CASE ~k.live
    <3>1. /\ ui' \in Page /\ ui'.row = ui.row /\ ui'.shown = ui.shown /\ ui'.fetch = ui.fetch
      BY <1>1, <2>1, <2>5 DEF Page
    <3> QED BY <1>1, <2>1, <2>5, <3>1, NothingIsTyped, ForgottenStep
  <2> QED BY <2>4, <2>5
<1> QED BY <1>2, <1>3

LEMMA RefreshedStep ==
  ASSUME ConsoleInv, NEW c \in Slots, Refreshed(c)
  PROVE  Sound(server', ui', calls')
<1> DEFINE k == calls[c]
           old == ui.row[k.w]
           freed == [old EXCEPT !.action = "none", !.seen = Unseen]
<1>1. /\ k.st = "refreshing" /\ k \in Call /\ k.w \in Rows /\ ui \in Page
      /\ ui.row \in [Rows -> RowState] /\ old \in RowState /\ AwaitedOK(k, ui.row)
      /\ calls \in [Slots -> Call] /\ server' = server /\ DialogOK(old, ui.shown[k.w])
  BY DEF Refreshed, ConsoleInv, Sound, Typed, Page, CallsOK, DialogsOK
<1>2. /\ calls' = [calls EXCEPT ![c] = NoCall]
      /\ ui' = [ui EXCEPT !.busy = "none", !.row[k.w] = IF k.live THEN freed ELSE old]
  BY DEF Refreshed
<1>3. /\ freed \in RowState /\ freed.destroyOpen = old.destroyOpen /\ freed.rejectOpen = old.rejectOpen
      /\ freed.keepOpen = old.keepOpen /\ freed.resizeOpen = old.resizeOpen /\ freed.known = old.known
  BY <1>1, NothingIsTyped DEF RowState
<1> HIDE DEF freed
<1>4. CASE k.live
  <2>0. ~ByDialog(k)
    BY <1>1, <1>4 DEF AwaitedOK
  <2>1. DialogOK(freed, ui.shown[k.w])
    BY <1>1, <1>3, <1>4, <2>0 DEF AwaitedOK, DialogOK, Asking
  <2>2. /\ ui' \in Page /\ ui'.row = [ui.row EXCEPT ![k.w] = freed] /\ ui'.shown = ui.shown
        /\ ui'.fetch = ui.fetch
    BY <1>1, <1>2, <1>3, <1>4 DEF Page
  <2> QED BY <1>1, <1>2, <1>3, <1>4, <2>0, <2>1, <2>2, NothingIsTyped, EndStep
<1>5. CASE ~k.live
  <2>1. /\ ui' \in Page /\ ui'.row = ui.row /\ ui'.shown = ui.shown /\ ui'.fetch = ui.fetch
    BY <1>1, <1>2, <1>5 DEF Page
  <2> QED BY <1>1, <1>2, <1>5, <2>1, NothingIsTyped, ForgottenStep
<1> QED BY <1>4, <1>5

----------------------------------------------------------------------------
(* The resize dialog                                                       *)

\* No row is asked for more than before, and a call the rows know nothing of comes
\* or goes.
LEMMA AsideStep ==
  ASSUME ConsoleInv, NEW c \in Slots, NEW new \in Call, calls' = [calls EXCEPT ![c] = new],
         server' \in ServerState, server'.ws = server.ws, ui' \in Page, ui'.shown = ui.shown,
         ui'.fetch = ui.fetch \/ ui'.fetch.st = "sent",
         \A w \in Rows : /\ Kept(ui'.row[w], ui.row[w])
                         /\ ui'.row[w].resizeOpen =>
                              ui.row[w].resizeOpen /\ ui'.row[w].known = ui.row[w].known,
         SentOK(new, server.ws), new.st # "idle" => new.w \in Rows /\ new.op \in Ops,
         new.live => /\ ByDialog(new) /\ new.st = "sent"
                     /\ \A d \in Slots : ~(calls[d].live /\ ByDialog(calls[d]) /\ calls[d].w = new.w)
  PROVE  Sound(server', ui', calls')
<1>1. /\ calls \in [Slots -> Call] /\ Typed(server, ui, calls) /\ ListOK(server.ws, ui.shown, ui.fetch)
      /\ DialogsOK(ui.row, ui.shown) /\ CallsOK(calls, server.ws, ui.row) /\ AloneOK(calls)
  BY DEF ConsoleInv, Sound, Typed
<1>2. calls' \in [Slots -> Call] /\ calls'[c] = new /\ \A d \in Slots : d # c => calls'[d] = calls[d]
  BY <1>1
<1>3. ASSUME NEW d \in Slots PROVE SentOK(calls'[d], server.ws) /\ AwaitedOK(calls'[d], ui'.row)
  <2>1. CASE d = c
    BY <1>2, <2>1 DEF AwaitedOK
  <2>2. CASE d # c
    <3>1. SentOK(calls[d], server.ws) /\ AwaitedOK(calls[d], ui.row) /\ calls'[d] = calls[d]
      BY <1>1, <1>2, <2>2 DEF CallsOK
    <3>2. calls[d].live => calls[d].w \in Rows
      BY LiveCalls
    <3>3. calls[d].live => Kept(ui'.row[calls[d].w], ui.row[calls[d].w])
      BY <3>2
    <3> QED BY <3>1, <3>3 DEF AwaitedOK, Kept, Asking
  <2> QED BY <2>1, <2>2
<1>4. AloneOK(calls')
  BY <1>1, <1>2 DEF AloneOK
<1>5. DialogsOK(ui'.row, ui.shown)
  BY <1>1 DEF DialogsOK, DialogOK, Asking, Kept
<1>6. ListOK(server.ws, ui.shown, ui'.fetch)
  BY <1>1 DEF ListOK
<1>7. Typed(server', ui', calls')
  BY <1>1, <1>2 DEF Typed
<1> QED BY <1>3, <1>4, <1>5, <1>6, <1>7 DEF Sound, CallsOK

\* The dialog opens on a row that offers it, or closes.
LEMMA ResizeDialogStep ==
  ASSUME ConsoleInv, NEW w \in Rows, OpenResize(w) \/ CloseResize(w)
  PROVE  Sound(server', ui', calls')
<1>1. /\ server \in ServerState /\ ui \in Page /\ ListOK(server.ws, ui.shown, ui.fetch)
      /\ DialogsOK(ui.row, ui.shown) /\ (ui.fetch.st = "answered" => ui.fetch.rows \in [Rows -> Copy])
      /\ ui.row \in [Rows -> RowState] /\ calls \in [Slots -> Call]
  BY DEF ConsoleInv, Sound, Typed, Page
<1>2. PICK open \in BOOLEAN, known \in BOOLEAN :
        /\ ui' = [ui EXCEPT !.row[w] = [@ EXCEPT !.resizeOpen = open, !.known = known]]
        /\ UNCHANGED <<server, calls>>
        /\ open => Enabled(w, "resize") /\ known = ui.projects
  BY <1>1 DEF OpenResize, CloseResize, Page
<1>3. PICK r : r = [ui.row[w] EXCEPT !.resizeOpen = open, !.known = known]
  OBVIOUS
<1>4. r \in RowState /\ Kept(r, ui.row[w]) /\ r.resizeOpen = open /\ r.known = known
  BY <1>1, <1>3 DEF RowState, Kept
<1>5. ResizeOK(r, ui.shown[w])
  <2> SUFFICES ASSUME open PROVE Welcome("resize", ui.shown[w]) /\ (known => cast.purpose)
    BY <1>4 DEF ResizeOK
  <2>1. "resize" \in Buttons(w) /\ ("resize" \in NeedsPurpose => ~OpsLocked)
    BY <1>2 DEF Enabled
  <2> QED BY <1>2, <2>1, ButtonsAreWelcome DEF NeedsPurpose, OpsLocked
<1>6. ui' \in Page /\ ui'.row = [ui.row EXCEPT ![w] = r] /\ ui'.shown = ui.shown /\ ui'.fetch = ui.fetch
  BY <1>1, <1>2, <1>3, <1>4 DEF Page
<1>7. ASSUME NEW v \in Rows PROVE Kept(ui'.row[v], ui.row[v]) /\ ResizeOK(ui'.row[v], ui'.shown[v])
  BY <1>1, <1>4, <1>5, <1>6 DEF Kept, ResizeOK, DialogsOK, DialogOK
<1>8. \A v \in Rows : Asking(ui.row[v]) => NoNewer(ui.row[v].seen, ui'.shown[v])
  BY <1>1, <1>6 DEF DialogsOK, DialogOK
<1>9. ASSUME NEW c \in Slots PROVE Followed(calls'[c], calls[c], ui'.row)
  <2>1. calls[c].live /\ ~ByDialog(calls[c]) => calls[c].w \in Rows /\ ui.row[calls[c].w].action # "none"
    BY LiveCalls DEF ConsoleInv, Sound, CallsOK, AwaitedOK
  <2>2. calls[c].live /\ ~ByDialog(calls[c]) => ui'.row[calls[c].w] # NoRow
    BY <1>7, <2>1, NothingIsTyped DEF Kept
  <2> QED BY <1>2, <2>2 DEF Followed
<1> QED BY <1>1, <1>2, <1>6, <1>7, <1>8, <1>9, RowsForget

LEMMA ConfirmResizeStep ==
  ASSUME ConsoleInv, NEW c \in Slots, NEW w \in Rows, ConfirmResize(c, w)
  PROVE  Sound(server', ui', calls')
<1> DEFINE new == [NoCall EXCEPT !.w = w, !.op = "resize", !.st = "sent", !.live = TRUE,
                                 !.known = ui.row[w].known, !.seen = ui.shown[w]]
<1>1. /\ calls' = [calls EXCEPT ![c] = new] /\ ui' = ui /\ ui.row[w].resizeOpen
      /\ server' = [server EXCEPT !.left = @ - 1] /\ server.left > 0
      /\ \A d \in Slots : ~(calls[d].live /\ ByDialog(calls[d]) /\ calls[d].w = w)
  BY DEF ConfirmResize, SubmitResize, Row, Spend
<1>2. /\ server \in ServerState /\ ui \in Page /\ ui.row[w] \in RowState /\ ui.shown[w] \in Copy
      /\ NoNewer(ui.shown[w], server.ws[w]) /\ DialogOK(ui.row[w], ui.shown[w])
  BY DEF ConsoleInv, Sound, Typed, Page, ListOK, DialogsOK
<1>3. /\ new \in Call /\ new.live /\ new.st = "sent" /\ new.w = w /\ new.op = "resize"
      /\ new.seen = ui.shown[w] /\ new.known = ui.row[w].known /\ ByDialog(new)
  BY <1>2 DEF NoCall, Call, RowState, Ops, ByDialog
<1> HIDE DEF new
<1>4. SentOK(new, server.ws)
  BY <1>1, <1>2, <1>3 DEF SentOK, DialogOK
<1>5. server' \in ServerState /\ server'.ws = server.ws
  BY <1>1, <1>2 DEF ServerState
<1> QED BY <1>1, <1>2, <1>3, <1>4, <1>5, AsideStep DEF Kept, Ops

LEMMA ResizeReturnsStep ==
  ASSUME ConsoleInv, NEW c \in Slots, ResizeReturns(c)
  PROVE  Sound(server', ui', calls')
<1> DEFINE k == calls[c]
<1>1. /\ k.st = "answered" /\ calls' = [calls EXCEPT ![c] = NoCall] /\ server' = server
      /\ server \in ServerState /\ ui \in Page /\ k.w \in Rows /\ ui.row \in [Rows -> RowState]
  BY DEF ResizeReturns, ConsoleInv, Sound, Typed, Page
<1>2. PICK r : r = [ui.row[k.w] EXCEPT !.resizeOpen = FALSE, !.known = FALSE]
  OBVIOUS
<1>3. r \in RowState /\ Kept(r, ui.row[k.w]) /\ ~r.resizeOpen
  <2>1. PICK old \in RowState : old = ui.row[k.w]
    BY <1>1
  <2> QED BY <1>2, <2>1 DEF RowState, Kept
<1>4. /\ ui' \in Page /\ ui'.shown = ui.shown /\ (ui'.fetch = ui.fetch \/ ui'.fetch.st = "sent")
      /\ ui'.row = ui.row \/ ui'.row = [ui.row EXCEPT ![k.w] = r]
  <2>1. CASE ui' = ui
    BY <1>1, <2>1
  <2>2. CASE k.ans = "ok"
    <3>1. PICK n : n = IF k.live THEN r ELSE ui.row[k.w]
      OBVIOUS
    <3>2. ui' = [ui EXCEPT !.window = "open", !.fetch = Refetch("resize"), !.row[k.w] = n]
      BY <1>1, <1>2, <2>2, <3>1 DEF ResizeReturns, Page
    <3>3. n \in RowState /\ Refetch("resize") \in Fetch /\ Refetch("resize").st = "sent"
      BY <1>1, <1>3, <3>1, RefetchIsTyped
    <3>4. /\ ui' \in Page /\ ui'.row = [ui.row EXCEPT ![k.w] = n] /\ ui'.shown = ui.shown
          /\ ui'.fetch.st = "sent"
      BY <1>1, <3>2, <3>3 DEF Page
    <3> QED BY <1>1, <3>1, <3>4
  <2> QED BY <2>1, <2>2 DEF ResizeReturns
<1>5. ASSUME NEW w \in Rows
      PROVE  /\ Kept(ui'.row[w], ui.row[w])
             /\ ui'.row[w].resizeOpen => ui.row[w].resizeOpen /\ ui'.row[w].known = ui.row[w].known
  BY <1>1, <1>3, <1>4 DEF Kept
<1>6. SentOK(NoCall, server.ws) /\ NoCall \in Call /\ ~NoCall.live /\ NoCall.st = "idle"
  BY NothingIsTyped DEF SentOK
<1> QED BY <1>1, <1>4, <1>5, <1>6, AsideStep

----------------------------------------------------------------------------

LEMMA ConsoleStart == Init => ConsoleInv
<1> SUFFICES ASSUME Init PROVE Sound(server, ui, calls) /\ cast \in Casts
  BY DEF ConsoleInv
<1>1. cast \in Casts /\ cast.start \subseteq Statuses /\ cast.purpose \in BOOLEAN
  BY CastsAssumption DEF Init
<1>2. PICK start \in [Rows -> cast.start] :
        server = [ws |-> [w \in Rows |-> [Unseen EXCEPT !.status = start[w]]], left |-> MaxSteps]
  BY DEF Init
<1>3. ASSUME NEW s \in Statuses PROVE [Unseen EXCEPT !.status = s] \in Copy
  BY NothingIsTyped DEF Copy, Froms
<1>4. server \in ServerState
  BY <1>1, <1>2, <1>3, StepsAssumption DEF ServerState
<1>5. /\ ui.shown = server.ws /\ ui.fetch = NoFetch /\ ui.row = [w \in Rows |-> NoRow] /\ ui \in Page
      /\ calls = [c \in Slots |-> NoCall]
  <2>1. /\ ui = [shown |-> server.ws, fetch |-> NoFetch, window |-> "closed", busy |-> "none",
                 row |-> [w \in Rows |-> NoRow], projects |-> cast.purpose,
                 abnormal |-> FALSE, filtered |-> cast.filtered, listed |-> TRUE]
        /\ calls = [c \in Slots |-> NoCall]
    BY DEF Init
  <2>2. cast.filtered \in BOOLEAN
    BY <1>1, CastsAssumption
  <2> QED BY <1>1, <1>4, <2>1, <2>2, NothingIsTyped DEF Page, ServerState
<1>6. Typed(server, ui, calls)
  BY <1>4, <1>5, NothingIsTyped DEF Typed, NoFetch
<1>7. ListOK(server.ws, ui.shown, ui.fetch) /\ DialogsOK(ui.row, ui.shown)
  BY <1>5, NothingIsTyped DEF ListOK, NoNewer, NoFetch, DialogsOK, DialogOK, OpenRow, Asking
<1>8. CallsOK(calls, server.ws, ui.row) /\ AloneOK(calls)
  BY <1>5, NothingIsTyped DEF CallsOK, AloneOK, SentOK, AwaitedOK
<1> QED BY <1>1, <1>6, <1>7, <1>8 DEF Sound

LEMMA CastStays ==
  ASSUME cast' = cast, Sound(server', ui', calls'), cast \in Casts
  PROVE  ConsoleInv'
<1>1. Typed(server, ui, calls)' /\ ListOK(server.ws, ui.shown, ui.fetch)' /\ AloneOK(calls)'
  BY DEF Sound, Typed, ListOK, AloneOK, ByDialog
<1>2. DialogsOK(ui.row, ui.shown)'
  BY DEF Sound, DialogsOK, DialogOK, Asking, Welcome, Offered, Accepts, Permits, Administers, Develops
<1>3. CallsOK(calls, server.ws, ui.row)'
  <2>1. \A c \in Slots : SentOK(calls[c], server.ws)'
    BY DEF Sound, CallsOK, SentOK, Welcome, Offered, Accepts, Permits, Administers, Develops
  <2>2. \A c \in Slots : AwaitedOK(calls[c], ui.row)'
    BY DEF Sound, CallsOK, AwaitedOK, ByDialog, Asking
  <2> QED BY <2>1, <2>2 DEF CallsOK
<1> QED BY <1>1, <1>2, <1>3 DEF ConsoleInv, Sound

LEMMA ConsoleStep == ConsoleInv /\ [Next]_vars => ConsoleInv'
<1> SUFFICES ASSUME ConsoleInv, [Next]_vars PROVE ConsoleInv'
  OBVIOUS
<1>1. cast' = cast
  BY DEF Next, vars, Click, Run, Open, Confirm, Dismiss, Elsewhere, FinishDestroy, Serve, Lose, Return,
         Refreshed, OpenResize, CloseResize, ConfirmResize, SubmitResize, ResizeReturns, Poll, ServeFetch, LoseFetch, FetchReturns, CloseWindow, LoadProjects, Remount,
         ToggleAbnormal, ChangeFilter
<1>2. CASE UNCHANGED vars
  <2>1. Sound(server', ui', calls')
    BY <1>2 DEF vars, ConsoleInv
  <2> QED BY <1>1, <2>1, CastStays DEF ConsoleInv
<1>3. ASSUME Next PROVE Sound(server', ui', calls')
  BY <1>3, ClickStep, OpenStep, ConfirmStep, DismissStep, ElsewhereStep, FinishDestroyStep, ServeStep,
     LoseStep, ResizeDialogStep, ConfirmResizeStep, ResizeReturnsStep, ReturnStep, RefreshedStep, FetchSteps, FetchReturnsStep, ListSteps, ToggleAbnormalStep
     DEF Next, Direct, Asked
<1> QED BY <1>1, <1>2, <1>3, CastStays DEF ConsoleInv

----------------------------------------------------------------------------

\* A call is answered by the server, or lost.
LEMMA WhoAnswers ==
  ASSUME ConsoleInv, Next, NEW c \in Slots, calls[c].st = "sent", calls'[c].st = "answered"
  PROVE  Serve(c) \/ (Lose(c) /\ calls'[c].ans = "lost")
<1>1. calls \in [Slots -> Call]
  BY DEF ConsoleInv, Sound, Typed
<1>2. calls'[c] # calls[c]
  OBVIOUS
<1>3. ASSUME NEW d \in Slots, NEW w \in Rows, NEW o, Click(d, w, o) \/ Confirm(d, w, o) PROVE FALSE
  <2>1. PICK r : Run(d, w, o, r)
    BY <1>3 DEF Click, Confirm
  <2>2. d # c
    BY <2>1 DEF Run
  <2>3. calls'[c] = calls[c] \/ calls'[c] = Forgotten(calls[c])
    BY <2>1, <2>2 DEF Run
  <2> QED BY <1>1, <1>2, <2>3 DEF Forgotten, Call
<1>4. ASSUME NEW d \in Slots, Serve(d) \/ Lose(d) PROVE d = c
  BY <1>1, <1>2, <1>4 DEF Serve, Answer, Lose
<1>5. Lose(c) => calls'[c].ans = "lost"
  BY <1>1 DEF Lose, Call
<1>6. ASSUME NEW d \in Slots, Return(d) \/ Refreshed(d) \/ ResizeReturns(d) PROVE FALSE
  <2>1. d # c => calls'[c] = calls[c]
    BY <1>1, <1>6 DEF Return, Refreshed, ResizeReturns
  <2> QED BY <1>2, <1>6, <2>1 DEF Return, Refreshed, ResizeReturns
<1>7. ASSUME FetchReturns \/ Remount \/ ToggleAbnormal \/ ChangeFilter PROVE FALSE
  <2>1. \A b \in BOOLEAN : [calls[c] EXCEPT !.live = b].st = calls[c].st
    BY <1>1 DEF Call
  <2>2. calls'[c] = calls[c] \/ \E b \in BOOLEAN : calls'[c] = [calls[c] EXCEPT !.live = b]
    BY <1>1, <1>7 DEF FetchReturns, Remount, ToggleAbnormal, ChangeFilter, Call, Forgotten
  <2> QED BY <2>1, <2>2
<1>8. ASSUME NEW w \in Rows, Dismiss(w) \/ Elsewhere(w) \/ FinishDestroy(w) \/ \E o \in Asked : Open(w, o)
      PROVE  FALSE
  BY <1>2, <1>8 DEF Dismiss, Elsewhere, FinishDestroy, Open
<1>10. ASSUME NEW w \in Rows, \/ OpenResize(w) \/ CloseResize(w)
                              \/ \E d \in Slots : ConfirmResize(d, w)
       PROVE  FALSE
  BY <1>1, <1>2, <1>10 DEF OpenResize, CloseResize, ConfirmResize, SubmitResize
<1>9. ASSUME Poll \/ ServeFetch \/ LoseFetch \/ CloseWindow \/ LoadProjects PROVE FALSE
  BY <1>2, <1>9 DEF Poll, ServeFetch, LoseFetch, CloseWindow, LoadProjects
<1> QED BY <1>3, <1>4, <1>5, <1>6, <1>7, <1>8, <1>9, <1>10 DEF Next, Asked

\* The server refuses what the row it holds does not call for.
LEMMA ServedAsSent ==
  ASSUME ConsoleInv, NEW c \in Slots, Serve(c), Administers
  PROVE  /\ calls'[c].ans \in {"forbidden", "conflict"} =>
              \/ server.ws[calls[c].w] # calls[c].seen
              \/ ByDialog(calls[c]) /\ calls[c].seen.status = "suspended" /\ calls'[c].ans = "conflict"
         /\ calls'[c].ans = "no_purpose" => ~calls[c].known
<1> DEFINE k == calls[c]
           r == server.ws[k.w]
<1>1. k.st = "sent" /\ k \in Call /\ calls \in [Slots -> Call] /\ SentOK(k, server.ws)
  BY DEF Serve, ConsoleInv, Sound, Typed, CallsOK
<1>2. PICK a : /\ calls' = [calls EXCEPT ![c].st = "answered", ![c].ans = a]
               /\ a \in {"ok", "unavailable"} \/ (a = Refusal(k.op, r) /\ a # "none")
  BY DEF Serve, Answer
<1>3. calls'[c].ans = a
  BY <1>1, <1>2 DEF Call
<1>4. CASE a = "forbidden"
  BY <1>1, <1>2, <1>3, <1>4 DEF Refusal, SentOK, Welcome
<1>5. CASE a = "no_purpose"
  BY <1>1, <1>2, <1>3, <1>5 DEF Refusal, SentOK, Welcome
<1>6. CASE a = "conflict"
  <2>1. ~Accepts(k.op, r)
    BY <1>2, <1>6 DEF Refusal
  <2>2. CASE k.op # "resize"
    BY <1>1, <1>3, <1>6, <2>1, <2>2 DEF SentOK, Welcome, Offered
  <2>3. CASE k.op = "resize"
    BY <1>1, <1>3, <1>6, <2>1, <2>3 DEF SentOK, Welcome, Offered, Accepts, ByDialog
  <2> QED BY <2>2, <2>3
<1> QED BY <1>3, <1>4, <1>5, <1>6

\* The page, the calls and the rows stay what they are.
THEOREM ConsoleTypeCorrect == Spec => []Typed(server, ui, calls)
<1>1. ConsoleInv => Typed(server, ui, calls)
  BY DEF ConsoleInv, Sound
<1> QED BY <1>1, ConsoleStart, ConsoleStep, PTL DEF Spec

\* However many operations are on their way and however often the rows are mounted
\* anew: of those a row still waits for, it has one (pendingAction of the row),
\* and one more of its resize dialog, which the row knows nothing of.
THEOREM RowsWaitForOne == Spec => []OneAtATime
<1>1. ConsoleInv => OneAtATime
  BY DEF ConsoleInv, Sound, AloneOK, OneAtATime
<1> QED BY <1>1, ConsoleStart, ConsoleStep, PTL DEF Spec

\* Who administers the project is refused only what the row has changed away from
\* since, whatever failed, was lost, cancelled or done by others in the meantime;
\* but the resize of a suspended row is offered and always refused.
THEOREM RefusalsMeanChange == Spec => RefusedOnlyWhenStale
<1> DEFINE Step ==
      \A c \in Slots :
        LET k == calls[c] IN
        k.st = "sent" /\ calls'[c].st = "answered" /\ Administers =>
          /\ calls'[c].ans \in {"forbidden", "conflict"} =>
               \/ server.ws[k.w] # k.seen
               \/ ByDialog(k) /\ k.seen.status = "suspended" /\ calls'[c].ans = "conflict"
          /\ calls'[c].ans = "no_purpose" => ~k.known
<1>1. ConsoleInv /\ [Next]_vars => [Step]_vars
  <2> SUFFICES ASSUME ConsoleInv, Next, NEW c \in Slots,
                      calls[c].st = "sent", calls'[c].st = "answered", Administers
               PROVE  /\ calls'[c].ans \in {"forbidden", "conflict"} =>
                           \/ server.ws[calls[c].w] # calls[c].seen
                           \/ /\ ByDialog(calls[c]) /\ calls[c].seen.status = "suspended"
                              /\ calls'[c].ans = "conflict"
                      /\ calls'[c].ans = "no_purpose" => ~calls[c].known
    OBVIOUS
  <2> QED BY WhoAnswers, ServedAsSent
<1> QED BY <1>1, ConsoleStart, ConsoleStep, PTL DEF Spec, RefusedOnlyWhenStale
=============================================================================
