------------------------------ MODULE Switches ------------------------------
(***************************************************************************)
(* The switch of the forms.  It toggles when it is clicked, when its key   *)
(* is pressed, and when its thumb is dragged to the other side; the page   *)
(* owns the value.  The thumb stretches under the pointer, so the place    *)
(* where it rests depends on the value, the hover and the press, and a     *)
(* drag moves it by hand in between.                                       *)
(*                                                                         *)
(* Places are the pixels of the default size.  The browser sends a click   *)
(* right after the pointer goes up, before the next animation frame.       *)
(***************************************************************************)
EXTENDS Integers

CONSTANTS Deltas,    \* how far the pointer moves from where it went down
          Casts      \* records [checked, does, steps]

VARIABLES server,    \* the page: checked; disabled
          ui, calls, cast

vars == <<server, ui, calls, cast>>

ThumbOffset == 2
ThumbTravel == 14
PillExtend == 2
PressExtend == 4
DeadZone == 2
DragMin == ThumbOffset
DragMax == 12        \* of the pressed, stretched thumb

Distance(a, b) == IF a < b THEN b - a ELSE a - b

\* thumbX: where the thumb rests.
ThumbX(checked, u) ==
  IF ~checked THEN ThumbOffset
  ELSE ThumbOffset + ThumbTravel - (IF u.pressed THEN PressExtend ELSE IF u.hovered THEN PillExtend ELSE 0)

Init ==
  /\ cast \in Casts
  /\ server = [checked |-> cast.checked, disabled |-> FALSE]
  /\ LET rest == [pressed |-> FALSE, hovered |-> FALSE] IN
     ui = [pressed |-> FALSE, hovered |-> FALSE, start |-> FALSE, origin |-> 0, dragging |-> FALSE,
           didDrag |-> FALSE, frame |-> FALSE, click |-> FALSE, toggles |-> 0,
           pos |-> ThumbX(cast.checked, rest), target |-> ThumbX(cast.checked, rest), left |-> cast.steps]
  /\ calls = <<>>

\* The click of a gesture comes before anything else the person does.
Acts == ui.left > 0 /\ ~ui.click /\ UNCHANGED <<calls, cast>>
Step == [ui EXCEPT !.left = @ - 1]

\* The render that follows: when the place of rest changed, the thumb springs
\* there, unless it is being dragged.
Render(checked, u) ==
  /\ server' = [server EXCEPT !.checked = checked]
  /\ ui' = IF ThumbX(checked, u) # ThumbX(server.checked, ui) /\ ~u.dragging
           THEN [u EXCEPT !.target = ThumbX(checked, u)] ELSE u

OnToggle(u) == Render(~server.checked, [u EXCEPT !.toggles = @ + 1])

\* Back to the place of a thumb that is neither pressed nor hovered.
SnapBack(u) == [u EXCEPT !.target = IF server.checked THEN ThumbOffset + ThumbTravel ELSE ThumbOffset]

HandlePointerDown ==
  /\ Acts /\ ~server.disabled /\ ~ui.start
  /\ Render(server.checked,
       [Step EXCEPT !.pressed = TRUE, !.hovered = TRUE, !.dragging = FALSE, !.didDrag = FALSE, !.start = TRUE,
                    !.origin = ui.pos, !.toggles = 0])

HandlePointerMove(delta) ==
  /\ Acts /\ ui.start
  /\ ui.dragging \/ Distance(delta, 0) >= DeadZone
  /\ LET raw == ui.origin + delta
         x == IF raw < DragMin THEN DragMin ELSE IF raw > DragMax THEN DragMax ELSE raw
     IN Render(server.checked, [Step EXCEPT !.dragging = TRUE, !.pos = x, !.target = x])

HandlePointerUp_ForgetsDrag ==
  /\ Acts /\ ui.start
  /\ LET u == [Step EXCEPT !.pressed = FALSE, !.start = FALSE, !.dragging = FALSE, !.click = TRUE]
     IN IF ~ui.dragging THEN Render(server.checked, u)
        ELSE IF (2 * ui.pos > DragMin + DragMax) # server.checked THEN OnToggle(u)
        ELSE Render(server.checked, SnapBack(u))

HandlePointerUp_NoSnap ==
  /\ Acts /\ ui.start
  /\ LET u == [Step EXCEPT !.pressed = FALSE, !.start = FALSE, !.dragging = FALSE, !.click = TRUE,
                           !.didDrag = ui.dragging, !.frame = ui.dragging]
     IN IF ui.dragging /\ (2 * ui.pos > DragMin + DragMax) # server.checked THEN OnToggle(u)
        ELSE Render(server.checked, u)

\* A drag toggles when it ends on the other half of the track.
HandlePointerUp ==
  /\ Acts /\ ui.start
  /\ LET u == [Step EXCEPT !.pressed = FALSE, !.start = FALSE, !.dragging = FALSE, !.click = TRUE,
                           !.didDrag = ui.dragging, !.frame = ui.dragging]
     IN IF ~ui.dragging THEN Render(server.checked, u)
        ELSE IF (2 * ui.pos > DragMin + DragMax) # server.checked THEN OnToggle(u)
        ELSE Render(server.checked, SnapBack(u))

HandlePointerCancel ==
  /\ Acts /\ ui.start
  /\ LET u == [Step EXCEPT !.pressed = FALSE, !.start = FALSE, !.dragging = FALSE]
     IN Render(server.checked, IF ui.dragging THEN SnapBack(u) ELSE u)

\* The click of the browser at the end of a gesture.
OnClick ==
  /\ ui.click /\ UNCHANGED <<calls, cast>>
  /\ LET u == [ui EXCEPT !.click = FALSE]
     IN IF server.disabled \/ ui.didDrag THEN Render(server.checked, u) ELSE OnToggle(u)

AnimationFrame ==
  /\ ui.frame /\ ~ui.click
  /\ ui' = [ui EXCEPT !.frame = FALSE, !.didDrag = FALSE]
  /\ UNCHANGED <<server, calls, cast>>

\* The key of the button inside: dropped as well right after a drag.
OnCheckedChange ==
  /\ Acts /\ "keys" \in cast.does /\ ~server.disabled
  /\ IF ui.didDrag THEN Render(server.checked, Step) ELSE Render(~server.checked, Step)

Enter == Acts /\ ~ui.hovered /\ Render(server.checked, [Step EXCEPT !.hovered = TRUE])
\* The pointer is captured while it is down.
Leave == Acts /\ ui.hovered /\ ~ui.start /\ Render(server.checked, [Step EXCEPT !.hovered = FALSE])

\* The spring ends.
Settle ==
  /\ ui.pos # ui.target
  /\ ui' = [ui EXCEPT !.pos = ui.target]
  /\ UNCHANGED <<server, calls, cast>>

(* The page empties its form, or disables the switch *)
PageSets == Acts /\ "world" \in cast.does /\ Render(cast.checked, Step)

PageDisables ==
  /\ Acts /\ "world" \in cast.does
  /\ server' = [server EXCEPT !.disabled = ~@] /\ ui' = Step

Next ==
  \/ HandlePointerDown \/ HandlePointerUp \/ HandlePointerCancel \/ OnClick \/ OnCheckedChange
  \/ \E delta \in Deltas : HandlePointerMove(delta)
  \/ Enter \/ Leave \/ AnimationFrame \/ Settle \/ PageSets \/ PageDisables

----------------------------------------------------------------------------
\* A press toggles once, however it ends: the click behind a drag that has
\* toggled already does not toggle back (didDrag and the frame that clears it).
OneToggleEach == ui.start \/ ui.click \/ ui.toggles <= 1

\* When the spring has ended and nobody drags, the thumb is where the value puts
\* it (the snap of a drag that ends on its own side, the effect of the render).
ThumbShowsValue == ui.pos = ui.target /\ ~ui.dragging => ui.pos = ThumbX(server.checked, ui)
=============================================================================
