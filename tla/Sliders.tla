------------------------------ MODULE Sliders ------------------------------
(***************************************************************************)
(* The slider, in its compact design (one thumb or two, a list of allowed  *)
(* values, a value that can be typed) and its comfortable one (pips or an  *)
(* edge-to-edge scrubber).  The page owns the value; the slider draws its  *)
(* thumbs itself, springs them from place to place, and leaves them to the *)
(* pointer while it drags.                                                 *)
(*                                                                         *)
(* A place on the track is a number of units, Scale of them for a step of  *)
(* one in the value.  A spring has ended when a thumb is at its target.    *)
(***************************************************************************)
EXTENDS Integers, Sequences

CONSTANTS Scale,     \* units of the track per unit of the value
          HalfThumb, \* how close two thumbs may come
          Casts      \* records [kind, grid, listed, value, calm, does, steps]

VARIABLES server,    \* the page: value, one or two of the grid; disabled
          ui, calls, cast

vars == <<server, ui, calls, cast>>

None == -9
Grid == {cast.grid[i] : i \in 1..Len(cast.grid)}
Lowest == cast.grid[1]
Highest == cast.grid[Len(cast.grid)]
Compact == cast.kind = "compact"
Thumbs == DOMAIN server.value
IsRange == Len(server.value) = 2

Distance(a, b) == IF a < b THEN b - a ELSE a - b

ValueToPixel(v) == (v - Lowest) * Scale

\* The allowed value nearest to a place; half way, a list takes the lower and
\* the rounding of uniform steps the upper one.
PixelToValue(px) ==
  LET gap(v) == Distance(ValueToPixel(v), px)
      best == {v \in Grid : \A w \in Grid : gap(v) <= gap(w)}
  IN CHOOSE v \in best : \A w \in best : IF cast.listed THEN v <= w ELSE v >= w

Snap(px) == ValueToPixel(PixelToValue(px))
Places(value) == [i \in DOMAIN value |-> ValueToPixel(value[i])]

Init ==
  /\ cast \in Casts
  /\ server = [value |-> cast.value, disabled |-> FALSE]
  /\ ui = [pos |-> Places(cast.value), target |-> Places(cast.value), drag |-> 0, edit |-> 0, draft |-> None,
           hovered |-> FALSE, tip |-> FALSE, preview |-> None, left |-> cast.steps]
  /\ calls = <<>>

Acts == ui.left > 0
Step == [ui EXCEPT !.left = @ - 1]
AtRest == ui.pos = ui.target
\* A calm person lets the springs end before the next gesture.
Gestures == Acts /\ (cast.calm => AtRest) /\ UNCHANGED <<calls, cast>>
\* ... and neither types nor has the page change anything while dragging.
Aside == Gestures /\ (cast.calm => ui.drag = 0)

(* The page takes a value; the effect of the render sends the thumbs there *)
(* unless one is being dragged.                                            *)

Sync_OnlyFirst(u, value) ==
  [u EXCEPT !.target = IF u.drag = 0 /\ value # server.value THEN [@ EXCEPT ![1] = ValueToPixel(value[1])] ELSE @]

Sync(u, value) ==
  [u EXCEPT !.target = IF u.drag = 0 /\ value # server.value THEN Places(value) ELSE @]

Set(u, value) == server' = [server EXCEPT !.value = value] /\ ui' = Sync(u, value)
EmitChange(u, i, v) == Set(u, [server.value EXCEPT ![i] = v])

Ordered(value) == IF Len(value) = 2 /\ value[1] > value[2] THEN <<value[2], value[1]>> ELSE value

(* The pointer *)

ClampForRange_Nothing(px, i) == px

ClampForRange(px, i) ==
  IF ~IsRange THEN px
  ELSE IF i = 1 THEN (IF px < ui.pos[2] - HalfThumb THEN px ELSE ui.pos[2] - HalfThumb)
  ELSE IF px > ui.pos[1] + HalfThumb THEN px ELSE ui.pos[1] + HalfThumb

NearestThumb(px) == IF IsRange /\ Distance(px, ui.pos[2]) < Distance(px, ui.pos[1]) THEN 2 ELSE 1

HandlePointerDown(px) ==
  /\ Gestures /\ Compact /\ ~server.disabled /\ ui.drag = 0
  /\ LET i == NearestThumb(px)
         final == ClampForRange(Snap(px), i)
     IN EmitChange([Step EXCEPT !.drag = i, !.target[i] = final], i, PixelToValue(final))

HandlePointerMove(px) ==
  /\ Gestures /\ Compact /\ ui.drag # 0
  /\ LET final == ClampForRange(Snap(px), ui.drag)
     IN EmitChange([Step EXCEPT !.target[ui.drag] = final, !.pos[ui.drag] = final], ui.drag, PixelToValue(final))

HandlePointerUp_LeavesThumb ==
  /\ Gestures /\ Compact /\ ui.drag # 0 /\ UNCHANGED server
  /\ ui' = [Step EXCEPT !.drag = 0, !.preview = None]

\* The thumb settles on the step nearest to where it is drawn.
HandlePointerUp ==
  /\ Gestures /\ Compact /\ ui.drag # 0 /\ UNCHANGED server
  /\ ui' = [Step EXCEPT !.drag = 0, !.preview = None, !.target[ui.drag] = Snap(ui.pos[ui.drag])]

\* The comfortable design takes what is under the pointer, by the track or by its
\* handle; the scrubber follows it, the pips spring.

GetValueFromX(px) == PixelToValue(px)

FillDown(px) ==
  /\ Gestures /\ ~Compact /\ ~server.disabled /\ ui.drag = 0
  /\ EmitChange([Step EXCEPT !.drag = 1, !.target[1] = Snap(px)], 1, GetValueFromX(px))

FillMove(px) ==
  /\ Gestures /\ ~Compact /\ ui.drag # 0
  /\ LET moved == [Step EXCEPT !.target[1] = Snap(px)]
     IN EmitChange(IF cast.kind = "pips" THEN moved ELSE [moved EXCEPT !.pos[1] = Snap(px)], 1, GetValueFromX(px))

FillUp ==
  /\ Gestures /\ ~Compact /\ ui.drag # 0 /\ UNCHANGED server
  /\ ui' = [Step EXCEPT !.drag = 0, !.preview = None]

Settle == ~AtRest /\ ui' = [ui EXCEPT !.pos = ui.target] /\ UNCHANGED <<server, calls, cast>>

Hovers(px) ==
  /\ Gestures /\ "hover" \in cast.does /\ ui.drag = 0 /\ UNCHANGED server
  /\ ui' = [Step EXCEPT !.hovered = TRUE, !.preview = PixelToValue(px)]

Hover(px) == Compact /\ Hovers(px)
HoverFill(px) == ~Compact /\ ~server.disabled /\ Hovers(px)

Leave ==
  /\ Gestures /\ ui.hovered /\ UNCHANGED server
  /\ ui' = [Step EXCEPT !.hovered = FALSE, !.tip = FALSE, !.preview = None]

TooltipDelay == ui.hovered /\ ~ui.tip /\ ui' = [ui EXCEPT !.tip = TRUE] /\ UNCHANGED <<server, calls, cast>>

(* The keyboard, by the invisible slider of the library: it walks the      *)
(* steps and sorts the values; the compact design ignores it in a drag.    *)

Place(v) == CHOOSE k \in DOMAIN cast.grid : cast.grid[k] = v

HandleRadixChange(i, key) ==
  /\ Aside /\ "keys" \in cast.does /\ ~server.disabled /\ (Compact => ui.drag = 0)
  /\ LET k == Place(server.value[i])
         next == CASE key = "home" -> 1 [] key = "end" -> Len(cast.grid)
                   [] key = "left" -> IF k = 1 THEN 1 ELSE k - 1
                   [] OTHER -> IF k = Len(cast.grid) THEN k ELSE k + 1
     IN Set(Step, Ordered([server.value EXCEPT ![i] = cast.grid[next]]))

(* Typing a value *)

StartEdit(i) ==
  /\ Gestures /\ "edit" \in cast.does /\ ui.edit = 0 /\ UNCHANGED server
  /\ ui' = [Step EXCEPT !.edit = i, !.draft = server.value[i]]

TypeValue(d) == Gestures /\ ui.edit # 0 /\ ui' = [Step EXCEPT !.draft = d] /\ UNCHANGED server

CommitEdit_Unclamped ==
  /\ Aside /\ ui.edit # 0 /\ ui.draft # None
  /\ EmitChange([Step EXCEPT !.edit = 0], ui.edit, ui.draft)

\* Enter, or the field losing the focus.
CommitEdit ==
  /\ Aside /\ ui.edit # 0 /\ ui.draft # None
  /\ EmitChange([Step EXCEPT !.edit = 0], ui.edit, PixelToValue(ValueToPixel(ui.draft)))

CancelEdit == Gestures /\ ui.edit # 0 /\ ui' = [Step EXCEPT !.edit = 0] /\ UNCHANGED server

(* The page *)

PageSets(value) == Aside /\ "world" \in cast.does /\ Ordered(value) = value /\ Set(Step, value)

PageDisables ==
  /\ Aside /\ "world" \in cast.does
  /\ server' = [server EXCEPT !.disabled = ~@] /\ ui' = Step

Next ==
  \/ \E px \in 0..ValueToPixel(Highest) :
       HandlePointerDown(px) \/ HandlePointerMove(px) \/ FillDown(px) \/ FillMove(px) \/ Hover(px)
       \/ HoverFill(px)
  \/ HandlePointerUp \/ FillUp \/ Leave \/ Settle \/ TooltipDelay
  \/ \E i \in Thumbs : StartEdit(i) \/ \E key \in {"left", "right", "home", "end"} : HandleRadixChange(i, key)
  \/ \E d \in (Lowest - 1)..(Highest + 1) \cup {None} : TypeValue(d)
  \/ CommitEdit \/ CancelEdit
  \/ \E value \in [Thumbs -> Grid] : PageSets(value)
  \/ PageDisables

----------------------------------------------------------------------------
\* Once the springs have ended the thumbs stand at the value, wherever the
\* pointer left them, whoever changed the value and however it was typed.
ThumbsShowValue ==
  cast.calm /\ AtRest /\ ui.drag = 0 => ui.pos = Places(server.value)

\* The value is one the slider allows, and the start of a range never passes its
\* end, though the clamp keeps thumbs apart before they are rounded to steps.
ValueAllowed ==
  cast.calm => /\ \A i \in Thumbs : server.value[i] \in Grid
               /\ IsRange /\ "edit" \notin cast.does => server.value[1] <= server.value[2]
=============================================================================
