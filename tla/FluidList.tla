------------------------------ MODULE FluidList ------------------------------
(***************************************************************************)
(* What lists draw behind their rows.  The hover background follows the    *)
(* pointer to the nearest row, from rectangles measured on animation       *)
(* frames while rows come, go, move and are hidden.  The backgrounds of    *)
(* selected rows, one per contiguous run, merge and split with animations  *)
(* that a further click may overtake at any point.                         *)
(***************************************************************************)
EXTENDS Integers, Sequences, FiniteSets, FiniteSetsExt, SequencesExt

CONSTANTS Rows,     \* 1..n, the rows of the list in order
          Points,   \* where the pointer may be
          Casts     \* records [kind, disabled, gap, steps]; gap bounds a routed click

VARIABLES server,   \* the document: rows, top of each row there is; laid, whether the list
                    \* has a layout; seen, whether its observers have reported it
          ui, calls, cast

vars == <<server, ui, calls, cast>>

Nobody == 0
NoPoint == -1
Height == 2
Attempts == 3       \* frames a measurement is tried
NoRects == [i \in {} |-> 0]

Init ==
  /\ cast \in Casts
  /\ server = [rows |-> NoRects, laid |-> FALSE, seen |-> TRUE]
  /\ ui = [rects |-> NoRects, measured |-> FALSE, pass |-> 0, pending |-> NoPoint, active |-> Nobody,
           clicked |-> Nobody, checked |-> {}, ids |-> NoRects, last |-> 0, runs |-> <<>>,
           bounds |-> {}, timers |-> {}, tid |-> 0, left |-> cast.steps]
  /\ calls = <<>>

Hovers == cast.kind = "hover" /\ ui.left > 0
Selects == cast.kind = "runs" /\ ui.left > 0
Step(u) == [u EXCEPT !.left = @ - 1]
Registered == DOMAIN server.rows

----------------------------------------------------------------------------
(* Hovering *)

Spans(top, y) == top <= y /\ y <= top + Height
Distance(top, y) == LET d == 2 * y - (2 * top + Height) IN IF d < 0 THEN -d ELSE d

\* pickNearest: the last row that contains the pointer, or else the first of
\* those whose center is nearest.
PickNearest(rects, y) ==
  LET on == DOMAIN rects \ cast.disabled
      within == {i \in on : Spans(rects[i], y)}
      near == {i \in on : \A j \in on : Distance(rects[i], y) <= Distance(rects[j], y)}
  IN IF on = {} THEN Nobody ELSE IF within # {} THEN Max(within) ELSE Min(near)

\* scheduleMeasurement replaces the pass that waits for its frame.
Schedule(u) == [u EXCEPT !.pass = Attempts]

Remeasure_KeepsReady(u) == Schedule(u)

\* remeasure: not ready until the pass has ended.
Remeasure(u) == [Schedule(u) EXCEPT !.measured = FALSE]

\* registerItem, as a row is mounted or unmounted.
Mount(i) ==
  /\ Hovers /\ i \notin Registered
  /\ server' = [server EXCEPT !.rows = [j \in Registered \cup {i} |-> IF j = i THEN Height * i ELSE @[j]]]
  /\ ui' = Step(Remeasure(ui))
  /\ UNCHANGED <<calls, cast>>

Unmount(i) ==
  /\ Hovers /\ i \in Registered
  /\ server' = [server EXCEPT !.rows = [j \in Registered \ {i} |-> @[j]]]
  /\ ui' = Step(Remeasure([ui EXCEPT !.active = IF @ = i THEN Nobody ELSE @]))
  /\ UNCHANGED <<calls, cast>>

\* The list is shown or hidden, or its rows change size; observers report it.
Relayout ==
  /\ Hovers
  /\ \/ server' = [server EXCEPT !.laid = ~@, !.seen = Registered = {}]
     \/ /\ server.laid /\ Registered # {}
        /\ server' = [server EXCEPT !.seen = FALSE, !.rows = [i \in Registered |-> IF @[i] = Height * i THEN i ELSE Height * i]]
  /\ ui' = Step(ui)
  /\ UNCHANGED <<calls, cast>>

ObserversReport ==
  /\ ~server.seen
  /\ server' = [server EXCEPT !.seen = TRUE]
  /\ ui' = Schedule(ui)
  /\ UNCHANGED <<calls, cast>>

\* runMeasurement publishes all rectangles or, while a row has no layout, none.
MeasuringFrame ==
  /\ ui.pass > 0
  /\ ui' = IF server.laid \/ Registered = {}
           THEN [ui EXCEPT !.rects = server.rows, !.measured = TRUE, !.pass = 0]
           ELSE [ui EXCEPT !.pass = @ - 1]
  /\ UNCHANGED <<server, calls, cast>>

\* The pointer moves; the highlight follows on the next frame.
Move(y) ==
  /\ Hovers /\ server.laid /\ y # ui.pending
  /\ ui' = [Step(ui) EXCEPT !.pending = y]
  /\ UNCHANGED <<server, calls, cast>>

PointingFrame ==
  /\ ui.pending # NoPoint
  /\ ui' = [ui EXCEPT !.pending = NoPoint, !.active = PickNearest(ui.rects, ui.pending)]
  /\ UNCHANGED <<server, calls, cast>>

Leave ==
  /\ ui.pending # NoPoint \/ ui.active # Nobody
  /\ ui' = [ui EXCEPT !.pending = NoPoint, !.active = Nobody]
  /\ UNCHANGED <<server, calls, cast>>

\* handleClick: a click between the rows goes to the highlighted row, if that
\* is there, enabled and near enough.
Click(y) ==
  /\ Hovers /\ server.laid
  /\ LET under == {i \in Registered : Spans(server.rows[i], y)}
         to == IF under # {} THEN Max(under)
               ELSE IF ui.active \in Registered \ cast.disabled
                       /\ Distance(server.rows[ui.active], y) <= cast.gap THEN ui.active
               ELSE Nobody
     IN to # Nobody /\ ui' = [Step(ui) EXCEPT !.clicked = to]
  /\ UNCHANGED <<server, calls, cast>>

----------------------------------------------------------------------------
(* Selected rows *)

\* The runs of a set of rows, in order.
RunsOf(checked) ==
  LET starts == {i \in checked : i - 1 \notin checked}
      EndOf(s) == CHOOSE e \in checked : s <= e /\ s..e \subseteq checked /\ e + 1 \notin checked
  IN [k \in 1..Cardinality(starts) |->
        LET s == CHOOSE s \in starts : Cardinality({t \in starts : t <= s}) = k
        IN [start |-> s, end |-> EndOf(s)]]

\* useSelectionRuns: a run keeps the first id that one of its rows had and no
\* earlier run has taken, or gets the next one.
WithIds(runs, ids, last) ==
  FoldLeft(LAMBDA acc, run :
             LET kept == {i \in run.start..run.end \cap DOMAIN ids :
                            \A k \in DOMAIN acc.runs : acc.runs[k].id # ids[i]}
                 id == IF kept = {} THEN acc.last + 1 ELSE ids[Min(kept)]
             IN [runs |-> Append(acc.runs, [start |-> run.start, end |-> run.end, id |-> id]),
                 last |-> IF kept = {} THEN acc.last + 1 ELSE acc.last],
           [runs |-> <<>>, last |-> last], runs)

IdsOf(runs) ==
  [i \in UNION {runs[k].start..runs[k].end : k \in DOMAIN runs} |->
     (CHOOSE r \in Range(runs) : i \in r.start..r.end).id]

\* bridgePair: exactly two runs inside outer, one row between them.
Bridges(outer, runs) ==
  LET inside == SelectSeq(runs, LAMBDA r : r.start >= outer.start /\ r.end <= outer.end) IN
  IF Len(inside) = 2 /\ inside[2].start = inside[1].end + 2
  THEN {[up |-> inside[1].id, lo |-> inside[2].id, gap |-> inside[1].end + 1]} ELSE {}

Merges(old, new) ==
  UNION {{[kind |-> "merge", survivor |-> c.id, other |-> IF c.id = b.up THEN b.lo ELSE b.up,
           gap |-> b.gap, phase |-> "converge", tid |-> 0] :
          b \in {b \in Bridges(c, old) : c.id \in {b.up, b.lo}}} : c \in Range(new)}

Splits(old, new) ==
  UNION {{[kind |-> "split", survivor |-> b.up, other |-> b.lo, gap |-> b.gap, phase |-> "splitIn", tid |-> 0] :
          b \in Bridges(p, new)} : p \in Range(old)}

StillValid_Always(b, runs) == TRUE

\* Whether a boundary still fits the selection.
StillValid(b, runs) ==
  IF b.kind = "merge"
  THEN \E r \in Range(runs) : r.id = b.survivor /\ r.start < b.gap /\ b.gap < r.end
  ELSE /\ \E r \in Range(runs) : r.id = b.survivor /\ r.end = b.gap - 1
       /\ \E r \in Range(runs) : r.id = b.other /\ r.start = b.gap + 1

\* A row is toggled: the render, and the layout effect behind it, which drops
\* what no longer fits and starts a timer for every boundary it finds.
ToggleRow(i) ==
  LET checked == IF i \in ui.checked THEN ui.checked \ {i} ELSE ui.checked \cup {i}
      next == WithIds(RunsOf(checked), ui.ids, ui.last)
      new == {[b EXCEPT !.tid = ui.tid + 1] : b \in Merges(ui.runs, next.runs) \cup Splits(ui.runs, next.runs)}
      kept == {b \in ui.bounds : StillValid(b, next.runs)}
  IN /\ Selects
     /\ ui' = [Step(ui) EXCEPT !.checked = checked, !.runs = next.runs, !.last = next.last,
                 !.ids = IdsOf(next.runs), !.tid = @ + Cardinality(new), !.bounds = kept \cup new,
                 !.timers = (@ \ {b.tid : b \in ui.bounds \ kept}) \cup {b.tid : b \in new}]
     /\ UNCHANGED <<server, calls, cast>>

\* The motion of a boundary is over: a merge swaps to one block, a split is done.
TimerFires(b) ==
  /\ b.tid \in ui.timers
  /\ ui' = [ui EXCEPT !.timers = @ \ {b.tid},
              !.bounds = (@ \ {b}) \cup (IF b.kind = "merge" THEN {[b EXCEPT !.phase = "commit"]} ELSE {})]
  /\ UNCHANGED <<server, calls, cast>>

\* The render after: committed merges go, fresh splits move apart.
FollowUp ==
  /\ \E b \in ui.bounds : b.phase \in {"splitIn", "commit"}
  /\ ui' = [ui EXCEPT !.bounds =
       {IF b.phase = "splitIn" THEN [b EXCEPT !.phase = "diverge"] ELSE b :
          b \in {b \in @ : b.phase # "commit"}}]
  /\ UNCHANGED <<server, calls, cast>>

----------------------------------------------------------------------------
Next ==
  \/ Relayout \/ ObserversReport \/ MeasuringFrame \/ PointingFrame \/ Leave \/ FollowUp
  \/ \E i \in Rows : Mount(i) \/ Unmount(i) \/ ToggleRow(i)
  \/ \E y \in Points : Move(y) \/ Click(y)
  \/ \E b \in ui.bounds : TimerFires(b)

Spec == Init /\ [][Next]_vars

(* A list that reports itself measured has a rectangle for every row it    *)
(* holds and for no other, and once its observers and passes are through   *)
(* these are the ones on screen, however rows come and go while the list   *)
(* is hidden (registerItem, remeasure, scheduleMeasurement).               *)
RectsFitRows ==
  /\ ui.measured => DOMAIN ui.rects = Registered
  /\ ui.measured /\ ui.pass = 0 /\ server.seen /\ server.laid => ui.rects = server.rows

(* No click, however fast, strands half of a selection background: every   *)
(* boundary in motion belongs to runs that exist and has the timer that    *)
(* ends it, and no two runs share an identity (useMergeSplitBlocks).       *)
NoHalfStranded ==
  /\ \A j, k \in DOMAIN ui.runs : ui.runs[j].id = ui.runs[k].id => j = k
  /\ \A b \in ui.bounds : b.survivor \in {r.id : r \in Range(ui.runs)}
                          /\ (b.phase = "commit" \/ b.tid \in ui.timers)
  /\ ui.timers \subseteq {b.tid : b \in ui.bounds}
=============================================================================
