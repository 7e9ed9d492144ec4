------------------------------ MODULE Tooltips ------------------------------
(***************************************************************************)
(* The hints on the words and buttons of the console.  The library decides *)
(* when a hint opens and closes: after a delay over its trigger, at once   *)
(* while another one has just closed, at once by the keyboard.  The        *)
(* console keeps a hint in the page while it fades out, and takes it away  *)
(* at the end of the fade or, should the browser stall the fade, by a      *)
(* timer.  A hint may open again while it fades.                           *)
(***************************************************************************)
EXTENDS Integers

CONSTANTS Hints,
          Casts      \* records [does, steps]

VARIABLES server,    \* the library: the trigger under the pointer, who waits, the
                     \* window after a close in which nobody waits
          ui, calls, cast

vars == <<server, ui, calls, cast>>

Nobody == "nobody"
NoHint == [internal |-> FALSE, force |-> "none", mounted |-> FALSE, fading |-> FALSE, timer |-> FALSE]

Init ==
  /\ cast \in Casts
  /\ server = [over |-> Nobody, waits |-> FALSE, skip |-> FALSE]
  /\ ui = [hint |-> [h \in Hints |-> NoHint], left |-> cast.steps]
  /\ calls = <<>>

Acts == ui.left > 0 /\ UNCHANGED <<calls, cast>>
Open(hint) == IF hint.force = "none" THEN hint.internal ELSE hint.force = "open"

Effects_KeepsTimer(old, new) ==
  IF Open(new) = Open(old) THEN new
  ELSE IF Open(new) THEN [new EXCEPT !.mounted = TRUE, !.fading = FALSE]
  ELSE [new EXCEPT !.fading = TRUE, !.timer = TRUE]

\* The effects of a render in which a hint has opened or closed: opening drops
\* the timer of the close before it.
Effects(old, new) ==
  IF Open(new) = Open(old) THEN new
  ELSE IF Open(new) THEN [new EXCEPT !.mounted = TRUE, !.fading = FALSE, !.timer = FALSE]
  ELSE [new EXCEPT !.fading = TRUE, !.timer = TRUE]

\* onOpenChange of those in "changes", a function to the new state.
Changed(changes) ==
  ui' = [ui EXCEPT !.left = @ - 1, !.hint = [h \in Hints |->
           IF h \in DOMAIN changes THEN Effects(@[h], [@[h] EXCEPT !.internal = changes[h]]) ELSE @[h]]]

Only(h) == [g \in Hints |-> g = h]     \* one hint at a time
Close(h) == Changed([g \in {h} |-> FALSE])

PointAt(h) ==
  /\ Acts /\ server.over # h
  /\ server' = [over |-> h, waits |-> ~server.skip, skip |-> server.skip]
  /\ IF server.skip THEN Changed(Only(h))
     ELSE IF server.over # Nobody THEN Close(server.over) ELSE ui' = [ui EXCEPT !.left = @ - 1]

PointAway ==
  /\ Acts /\ server.over # Nobody
  /\ server' = [over |-> Nobody, waits |-> FALSE, skip |-> ui.hint[server.over].internal \/ server.skip]
  /\ Close(server.over)

DelayEnds ==
  /\ Acts /\ server.waits
  /\ server' = [server EXCEPT !.waits = FALSE] /\ Changed(Only(server.over))

SkipEnds ==
  /\ server.skip /\ \A h \in Hints : ~ui.hint[h].internal
  /\ server' = [server EXCEPT !.skip = FALSE] /\ UNCHANGED <<ui, calls, cast>>

Press(h) == Acts /\ server.over = h /\ server' = [server EXCEPT !.waits = FALSE] /\ Close(h)

Focus(h) == Acts /\ "keys" \in cast.does /\ Changed(Only(h)) /\ UNCHANGED server
Blur(h) == Acts /\ "keys" \in cast.does /\ ui.hint[h].internal /\ Close(h) /\ UNCHANGED server

\* The component around a hint forces it open, shut, or lets it be.
Force(h, force) ==
  /\ Acts /\ "force" \in cast.does /\ force # ui.hint[h].force /\ UNCHANGED server
  /\ ui' = [ui EXCEPT !.left = @ - 1, !.hint[h] = Effects(@, [@ EXCEPT !.force = force])]

\* The fade ends, or the timer behind it.
HandleExitComplete(h) ==
  /\ ui.hint[h].fading
  /\ ui' = [ui EXCEPT !.hint[h].fading = FALSE, !.hint[h].mounted = FALSE]
  /\ UNCHANGED <<server, calls, cast>>

ExitFallback(h) ==
  /\ ui.hint[h].timer
  /\ ui' = [ui EXCEPT !.hint[h].timer = FALSE, !.hint[h].fading = FALSE, !.hint[h].mounted = FALSE]
  /\ UNCHANGED <<server, calls, cast>>

Next ==
  \/ \E h \in Hints :
       PointAt(h) \/ Press(h) \/ Focus(h) \/ Blur(h) \/ HandleExitComplete(h) \/ ExitFallback(h)
       \/ \E force \in {"none", "open", "shut"} : Force(h, force)
  \/ PointAway \/ DelayEnds \/ SkipEnds

----------------------------------------------------------------------------
\* A hint is in the page while it is open, whatever was left of an earlier close,
\* and a closed one stays there only as long as something will take it away.
HintsComeAndGo ==
  \A h \in Hints :
    LET hint == ui.hint[h] IN
    /\ Open(hint) => hint.mounted
    /\ hint.mounted => Open(hint) \/ hint.fading \/ hint.timer
=============================================================================
