------------------------------ MODULE NodesPage ------------------------------
(***************************************************************************)
(* The page of nodes and the page of free capacity: the rows and counters  *)
(* they derive from what the server keeps of each node, which heartbeats   *)
(* and the health ticker write over each other, and the dialog that hands  *)
(* out the command a new node joins with.                                  *)
(***************************************************************************)
EXTENDS AccessRules

CONSTANTS Nodes, Slots,
          Casts    \* records [platform, agents: nodes with a reachable agent, used, does, steps]

VARIABLES server,  \* nodes: row of a node; beat: age of its heartbeat; 
           \* tick, heard: the rows and ages the ticker has listed, and will write
          ui, calls, cast

vars == <<server, ui, calls, cast>>

None == "none"
Ages == {"fresh", "late", "lost"}     \* within 90 s, within 180 s, older
NewRow == [status |-> "healthy", ready |-> TRUE, path |-> "p2p", used |-> 0]
Capacity == 2                         \* what a node can give away, in units
NoTick == [n \in Nodes |-> NewRow]
Younger == [a \in Ages |-> CASE a = "fresh" -> {} [] a = "late" -> {"fresh"} [] OTHER -> {"fresh", "late"}]
NoCall == [op |-> None, st |-> "idle", lan |-> FALSE, rows |-> NoTick]
NoJoin == [open |-> FALSE, busy |-> FALSE, cmd |-> None, failed |-> FALSE, copied |-> FALSE]

Init ==
  /\ cast \in Casts
  /\ server = [nodes |-> [n \in Nodes |-> [NewRow EXCEPT !.used = cast.used]],
               beat |-> [n \in Nodes |-> "fresh"],
               tick |-> NoTick, heard |-> [n \in Nodes |-> "fresh"], left |-> {}]
  /\ ui = [page |-> "nodes", rows |-> server.nodes, seen |-> {}, loading |-> TRUE,
           free |-> 0, reconciling |-> FALSE, join |-> NoJoin, lan |-> FALSE, left |-> cast.steps]
  /\ calls = [c \in Slots |-> NoCall]

Free(c) == calls[c].st = "idle"
Acts == ui.left > 0
Does(what) == what \in cast.does /\ Acts
Step(u) == [u EXCEPT !.left = @ - 1]
Sent(op, lan) == [NoCall EXCEPT !.op = op, !.st = "sent", !.lan = lan]

(* What the page shows of a node *)

Down(row) == row.status = "offline" \/ ~row.ready

HealthVariant(row) ==
  CASE Down(row) -> "danger"
    [] ~Down(row) /\ (row.status = "degraded" \/ row.path = "relay") -> "warn"
    [] OTHER -> "ok"

HealthLabel(row) ==
  CASE row.status = "degraded" -> "degraded"
    [] row.status # "degraded" /\ Down(row) -> "offline"
    [] OTHER -> "online"

\* The numbers over the list; the heading repeats the first and the last.
ReadyNodes == {n \in ui.seen : ui.rows[n].ready}
DegradedNodes == {n \in ui.seen : ui.rows[n].status = "degraded"}
OfflineNodes ==
  {n \in ui.seen : \/ ui.rows[n].status = "offline"
                   \/ ~ui.rows[n].ready /\ ui.rows[n].status # "degraded"}

\* hostMemMeter, isHostPressure: less than a tenth of what the host reports is free.
UnderPressure(row) == row.used >= Capacity

\* The four cards over the list, and a row or card of the list.
Counters ==
  [online |-> Cardinality(ReadyNodes), degraded |-> Cardinality(DegradedNodes),
   offline |-> Cardinality(OfflineNodes), pressed |-> Cardinality({n \in ui.seen : UnderPressure(ui.rows[n])})]
DrawnRow(n) ==
  LET row == ui.rows[n] IN
  [label |-> HealthLabel(row), colour |-> HealthVariant(row), oom |-> UnderPressure(row)]

\* The page of capacity sums what the ready nodes can still give.
FreeUnits(rows) ==
  LET ready == {n \in Nodes : rows[n].ready} IN
  Capacity * Cardinality(ready) - Cardinality({n \in ready : rows[n].used > 0})

CanJoin == IsPlatformAdmin(cast.platform)
JoinOffers ==
  IF ~ui.join.open THEN {}
  ELSE {"close"} \cup (IF ui.join.busy THEN {} ELSE {"generate"})
         \cup (IF ui.join.cmd # None /\ ~ui.join.busy THEN {"copy"} ELSE {})
HeadingOffers == {"refresh"} \cup (IF CanJoin THEN {"join"} ELSE {})
                   \cup (IF CanJoin /\ ~ui.reconciling THEN {"reconcile"} ELSE {})

(* The list *)

\* Asking for a list drops the request for it that is out.
Asks(c) ==
  [d \in Slots |-> IF d = c THEN Sent("list", FALSE) ELSE IF calls[d].op = "list" THEN NoCall ELSE calls[d]]

\* The button, and the timer of fifteen seconds.
Load(c) ==
  /\ Does("load") /\ Free(c)
  /\ calls' = Asks(c)
  /\ ui' = Step(ui)
  /\ UNCHANGED <<server, cast>>

Turn(c) ==
  /\ Does("capacity") /\ ~ui.join.open /\ Free(c)
  /\ calls' = Asks(c)
  /\ ui' = [Step(ui) EXCEPT !.page = IF @ = "nodes" THEN "capacity" ELSE "nodes", !.join = NoJoin]
  /\ UNCHANGED <<server, cast>>

ListReturns(c) ==
  LET k == calls[c] IN
  /\ k.st \in {"answered", "failed"} /\ k.op = "list"
  /\ ui' = IF k.st = "failed" THEN [ui EXCEPT !.loading = FALSE]
           ELSE [ui EXCEPT !.rows = k.rows, !.seen = Nodes, !.loading = FALSE, !.free = FreeUnits(k.rows)]
  /\ calls' = [calls EXCEPT ![c] = NoCall]
  /\ UNCHANGED <<server, cast>>

Reconcile(c) ==
  /\ Does("reconcile") /\ "reconcile" \in HeadingOffers /\ ui.page = "nodes" /\ ~ui.join.open /\ Free(c)
  /\ calls' = [calls EXCEPT ![c] = Sent("reconcile", FALSE)]
  /\ ui' = [Step(ui) EXCEPT !.reconciling = TRUE]
  /\ UNCHANGED <<server, cast>>

ReconcileReturns(c) ==
  LET k == calls[c] IN
  /\ k.st \in {"answered", "failed"} /\ k.op = "reconcile"
  /\ ui' = [ui EXCEPT !.reconciling = FALSE]
  /\ calls' = IF k.st = "answered" THEN Asks(c) ELSE [calls EXCEPT ![c] = NoCall]
  /\ UNCHANGED <<server, cast>>

(* The dialog *)

\* Opening, and changing the depot, ask for a command; closing clears it.
OpenJoin(c) ==
  /\ Does("join") /\ "join" \in HeadingOffers /\ ui.page = "nodes" /\ ~ui.join.open /\ Free(c)
  /\ ui' = [Step(ui) EXCEPT !.join.open = TRUE, !.join.busy = TRUE, !.join.failed = FALSE]
  /\ calls' = [calls EXCEPT ![c] = Sent("generate", ui.lan)]
  /\ UNCHANGED <<server, cast>>

CloseJoin ==
  /\ "close" \in JoinOffers
  /\ ui' = [ui EXCEPT !.join = [NoJoin EXCEPT !.busy = ui.join.busy]]
  /\ UNCHANGED <<server, calls, cast>>

\* The buttons of the two depots; generating again keeps the depot.
Generate(c, lan) ==
  /\ Acts /\ "generate" \in JoinOffers /\ Free(c)
  /\ ui' = [Step(ui) EXCEPT !.lan = lan, !.join.busy = TRUE, !.join.failed = FALSE]
  /\ calls' = [calls EXCEPT ![c] = Sent("generate", lan)]
  /\ UNCHANGED <<server, cast>>

\* Nothing ties an answer to the dialog that asked.
GenerateReturns(c) ==
  LET k == calls[c] IN
  /\ k.st \in {"answered", "failed"} /\ k.op = "generate"
  /\ ui' = [ui EXCEPT !.join.busy = FALSE, !.join.failed = k.st = "failed",
              !.join.cmd = IF k.st = "failed" THEN None ELSE IF k.lan THEN "lan" ELSE "public"]
  /\ calls' = [calls EXCEPT ![c] = NoCall]
  /\ UNCHANGED <<server, cast>>

CopyCommand ==
  /\ "copy" \in JoinOffers /\ ~ui.join.copied
  /\ ui' = [ui EXCEPT !.join.copied = TRUE]
  /\ UNCHANGED <<server, calls, cast>>

CopyFades ==
  /\ ui.join.copied
  /\ ui' = [ui EXCEPT !.join.copied = FALSE]
  /\ UNCHANGED <<server, calls, cast>>

(* The server *)

Serve(c) ==
  /\ calls[c].st = "sent"
  /\ \E st \in {"answered", "failed"} :
       calls' = [calls EXCEPT ![c].st = st, ![c].rows = server.nodes]
  /\ UNCHANGED <<server, ui, cast>>

\* A heartbeat writes the whole row.
Heartbeat(n, path) ==
  /\ server.beat[n] # "fresh" \/ server.nodes[n].status # "healthy" \/ path # server.nodes[n].path
  /\ server' = [server EXCEPT !.beat[n] = "fresh", !.nodes[n].status = "healthy",
                  !.nodes[n].ready = TRUE, !.nodes[n].path = path]
  /\ UNCHANGED <<ui, calls, cast>>

Silence(n) ==
  /\ server.beat[n] # "lost"
  /\ server' = [server EXCEPT !.beat[n] = IF @ = "fresh" THEN "late" ELSE "lost"]
  /\ UNCHANGED <<ui, calls, cast>>

Aged_LateStaysReady(row, age) ==
  CASE age = "fresh" -> [row EXCEPT !.status = "healthy", !.ready = TRUE,
                                    !.path = IF @ \in {"degraded", "offline", "stale"} THEN "p2p" ELSE @]
    [] age = "late" -> [row EXCEPT !.status = "degraded", !.path = "degraded"]
    [] OTHER -> [row EXCEPT !.status = "offline", !.ready = FALSE, !.path = "offline"]

\* What the ticker makes of a row, by the age of its heartbeat.
Aged(row, age) ==
  CASE age = "fresh" -> [row EXCEPT !.status = "healthy", !.ready = TRUE,
                                    !.path = IF @ \in {"degraded", "offline", "stale"} THEN "p2p" ELSE @]
    [] age = "late" -> [row EXCEPT !.status = "degraded", !.ready = FALSE, !.path = "degraded"]
    [] OTHER -> [row EXCEPT !.status = "offline", !.ready = FALSE, !.path = "offline"]

\* A node that runs workspaces is asked; no answer puts it offline.
Probed(row, n) ==
  IF row.status # "offline" /\ row.used > 0 /\ n \notin cast.agents
  THEN [row EXCEPT !.status = "offline", !.ready = FALSE, !.path = "offline"] ELSE row

\* The ticker, and the pass that reconciling makes, lists all rows, then probes
\* them and writes those it changes one by one, over whatever a heartbeat has
\* written in between: the older time of the heartbeat comes back with the row.
TickList ==
  /\ server.left = {}
  /\ LET tick == [n \in Nodes |-> Probed(Aged(server.nodes[n], server.beat[n]), n)] IN
     server' = [server EXCEPT !.tick = tick, !.heard = server.beat,
                              !.left = {n \in Nodes : tick[n] # server.nodes[n]}]
  /\ UNCHANGED <<ui, calls, cast>>

TickWrite(n) ==
  /\ n \in server.left
  /\ \E age \in Ages \ Younger[server.heard[n]] :
       server' = [server EXCEPT !.left = @ \ {n}, !.nodes[n] = server.tick[n], !.beat[n] = age]
  /\ UNCHANGED <<ui, calls, cast>>

Next ==
  \/ CloseJoin \/ CopyCommand \/ CopyFades \/ TickList
  \/ \E n \in Nodes : Silence(n) \/ TickWrite(n) \/ \E path \in {"p2p", "relay"} : Heartbeat(n, path)
  \/ \E c \in Slots :
       \/ Turn(c) \/ Load(c) \/ ListReturns(c) \/ Reconcile(c) \/ ReconcileReturns(c) \/ OpenJoin(c)
       \/ GenerateReturns(c) \/ Serve(c) \/ \E lan \in BOOLEAN : Generate(c, lan)

Spec == Init /\ [][Next]_vars

(* Whatever heartbeats and the ticker write over each other, the cards     *)
(* "online", "degraded" and "offline" count every node of the list once,   *)
(* a row bears the label it is counted under, and no row that is not       *)
(* counted online looks well (Nodes.tsx).                                  *)
EachNodeCountedOnce ==
  /\ Counters.online + Counters.degraded + Counters.offline = Cardinality(ui.seen)
  /\ \A n \in ui.seen :
       /\ DrawnRow(n).label = CASE n \in ReadyNodes -> "online" [] n \in DegradedNodes \ ReadyNodes -> "degraded"
                                 [] OTHER -> "offline"
       /\ DrawnRow(n).colour = "ok" => n \in ReadyNodes
=============================================================================
