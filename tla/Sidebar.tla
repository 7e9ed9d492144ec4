------------------------------ MODULE Sidebar ------------------------------
(***************************************************************************)
(* The collapsible sidebar of the design kit: open or collapsed, shown for *)
(* a moment over the page while collapsed ("peek"), dragged to a width by  *)
(* its rail, a sheet on narrow screens.  One timer is shared by everything *)
(* that opens or ends a peek, and several sidebars listen for one key.     *)
(*                                                                         *)
(* A handler and the effects of the renders it causes are one step: React  *)
(* runs them before the next event.  Timers and animations are steps.  The *)
(* pointer is one mouse.  A collapsed sidebar and its card mirror to the   *)
(* right side without any change but the sign of a drag.                   *)
(***************************************************************************)
EXTENDS Integers, Sequences, Functions, FiniteSets

CONSTANTS Elements,   \* of the page
          Inside,     \* pairs <<e, f>>: e is f or inside f
          Providers,  \* the elements that are sidebar providers
          Own,        \* the one modelled here
          Width,      \* its width property
          Drags,      \* how far a drag may have come, in pixels
          Casts       \* records [peek, open, parent, does, steps]

VARIABLES server,     \* around the sidebar: mounted providers, what the pointer is over
          ui, calls, cast

vars == <<server, ui, calls, cast>>

MinWidth == 160
MaxWidth == 360
CollapseSlop == 56
DragThreshold == 4

NoDrag == [held |-> FALSE, moved |-> FALSE, collapsed |-> FALSE, from |-> 0]

Init ==
  /\ cast \in Casts
  /\ server = [mounted |-> <<Own>>, over |-> "page"]
  /\ ui = [open |-> cast.open, cookie |-> "unset", mobile |-> FALSE, openMobile |-> FALSE,
           peeking |-> FALSE, timer |-> "none", inside |-> TRUE, hold |-> FALSE, holdTimer |-> FALSE,
           drag |-> NoDrag, resizing |-> FALSE, flip |-> FALSE, width |-> Width, moving |-> FALSE,
           sheet |-> FALSE, sheetTimer |-> FALSE, left |-> cast.steps]
  /\ calls = <<>>

Acts == ui.left > 0 /\ UNCHANGED <<calls, cast>>

----------------------------------------------------------------------------
(* What a render shows, and its effects *)

PeekEnabled(u) == cast.peek # "none" /\ ~u.open /\ ~u.resizing
Watching(u) == PeekEnabled(u) /\ u.peeking
HoverShell(u) == PeekEnabled(u) /\ cast.peek = "hover"
HoverTrigger(u) == cast.peek = "hover" /\ ~u.mobile /\ ~u.open

\* The collapsed shell shows the edge strip instead of the panel with the rail.
RailShown(u) == ~PeekEnabled(u)

CancelTimer(u) == [u EXCEPT !.timer = "none"]

PinEffect_KeepsTimer(old, new) == IF new.open /\ ~old.open THEN [new EXCEPT !.peeking = FALSE] ELSE new

\* The provider: opening ends the peek and what is pending of it.
PinEffect(old, new) == IF new.open /\ ~old.open THEN [CancelTimer(new) EXCEPT !.peeking = FALSE] ELSE new

\* The shell: opened from a peek, it is not clipped until a timer says so.
HoldEffect(old, new) ==
  IF new.open = old.open /\ new.peeking = old.peeking THEN new
  ELSE [new EXCEPT !.hold = @ \/ (new.open /\ new.peeking), !.holdTimer = new.open /\ new.peeking]

\* Opening or closing in the middle of a drag is animated.
FlipEffect(old, new) == [new EXCEPT !.flip = new.resizing /\ (@ \/ new.open # old.open)]

RailEffect(new) == [new EXCEPT !.drag = IF RailShown(new) THEN @ ELSE NoDrag]

\* The watcher of the pointer starts by assuming that it is inside.
WatchEffect(old, new) == [new EXCEPT !.inside = @ \/ ~Watching(old) \/ ~Watching(new)]

SheetEffect_KeepsTimer(old, new) ==
  IF ~new.mobile THEN [new EXCEPT !.sheet = FALSE, !.sheetTimer = FALSE]
  ELSE IF old.mobile /\ new.openMobile = old.openMobile THEN new
  ELSE [new EXCEPT !.sheet = @ \/ new.openMobile, !.sheetTimer = @ \/ ~new.openMobile]

\* The sheet exists on narrow screens only, and outlives its closing by a fade.
SheetEffect(old, new) ==
  IF ~new.mobile THEN [new EXCEPT !.sheet = FALSE, !.sheetTimer = FALSE]
  ELSE IF old.mobile /\ new.openMobile = old.openMobile THEN new
  ELSE [new EXCEPT !.sheet = @ \/ new.openMobile, !.sheetTimer = ~new.openMobile]

\* The effects of the render, in the order of React: the shell's, which is
\* inside, before the provider's, whose peek that ends is another render.
Effects(old, new) ==
  LET first == [new EXCEPT !.moving = @ \/ new.open # old.open]
      shell == SheetEffect(old, RailEffect(FlipEffect(old, WatchEffect(old, HoldEffect(old, first)))))
      pinned == PinEffect(old, shell)
  IN HoldEffect(shell, pinned)

Render(u) == ui' = Effects(ui, [u EXCEPT !.left = @ - 1])

----------------------------------------------------------------------------
(* Opening and closing *)

Word(open) == IF open THEN "true" ELSE "false"

\* A component around that controls the sidebar may leave it as it is.
Accepts == IF cast.parent THEN BOOLEAN ELSE {TRUE}

SetOpen(u, next, accepted) == [u EXCEPT !.open = IF accepted THEN next ELSE @, !.cookie = Word(next)]

ToggleSidebar(u, accepted) ==
  IF u.mobile THEN [u EXCEPT !.openMobile = ~@] ELSE SetOpen(u, ~u.open, accepted)

\* Node.contains
Wraps(root, el) == <<el, root>> \in Inside

\* find: the first, in the order of mounting, that nothing of "among" wraps
Outermost(among) ==
  SelectSeq(server.mounted, LAMBDA p : p \in among /\ ~\E q \in among \ {p} : Wraps(q, p))[1]

Answers_FramesToo(root, target) ==
  LET mounted == Range(server.mounted)
      others == mounted \ {root}
      wrapped == {p \in mounted : Wraps(target, p)}
  IN /\ root \in mounted
     /\ IF Wraps(root, target) THEN ~\E p \in others : Wraps(root, p) /\ Wraps(p, target)
        ELSE IF wrapped # {} THEN root = Outermost(wrapped)
        ELSE (~\E p \in others : Wraps(p, target)) /\ root = Outermost(mounted)

\* onKeyDown: whether a provider answers the key, pressed while target has the
\* focus.  The innermost around the focus, unless the focus itself wraps one.
Answers(root, target) ==
  LET mounted == Range(server.mounted)
      others == mounted \ {root}
      wrapped == {p \in mounted : Wraps(target, p)}
  IN /\ root \in mounted
     /\ IF Wraps(root, target)
        THEN ~\E p \in others : (Wraps(root, p) /\ Wraps(p, target)) \/ Wraps(target, p)
        ELSE IF wrapped # {} THEN root = Outermost(wrapped)
        ELSE (~\E p \in others : Wraps(p, target)) /\ root = Outermost(mounted)

PressKey(target) ==
  /\ Acts /\ Answers(Own, target) /\ UNCHANGED server
  /\ \E accepted \in Accepts : Render(ToggleSidebar(ui, accepted))

\* The other providers come and go with the pages.
MountProvider(p) ==
  /\ Acts /\ "mount" \in cast.does /\ p \notin Range(server.mounted)
  /\ server' = [server EXCEPT !.mounted = Append(@, p)] /\ Render(ui)

UnmountProvider(p) ==
  /\ Acts /\ "mount" \in cast.does /\ p # Own /\ p \in Range(server.mounted)
  /\ server' = [server EXCEPT !.mounted = SelectSeq(@, LAMBDA q : q # p)] /\ Render(ui)

\* The component around opens or closes it itself.
ParentSets ==
  /\ Acts /\ cast.parent /\ UNCHANGED server
  /\ Render([ui EXCEPT !.open = ~@])

\* The window crosses the breakpoint: the shell stays, hidden.
CrossBreakpoint ==
  /\ Acts /\ "cross" \in cast.does /\ UNCHANGED server
  /\ Render([ui EXCEPT !.mobile = ~@])

CloseSheet ==
  /\ Acts /\ ui.mobile /\ ui.openMobile /\ UNCHANGED server
  /\ Render([ui EXCEPT !.openMobile = FALSE])

----------------------------------------------------------------------------
(* The peek *)

InShell(at) == at \in {"strip", "card"}

\* What the pointer can be over: the strip and the card while they are shown.
Places(u) ==
  {"page", "trigger"} \cup (IF PeekEnabled(u) /\ ~u.mobile THEN {"strip"} ELSE {})
                      \cup (IF Watching(u) /\ ~u.mobile THEN {"card"} ELSE {})

\* onPointerLeave of the trigger and of the shell: only what is not shown yet is called off.
Left(u, from, to) ==
  IF /\ ~u.peeking
     /\ \/ from = "trigger" /\ to # "trigger" /\ HoverTrigger(u)
        \/ InShell(from) /\ ~InShell(to) /\ HoverShell(u)
  THEN CancelTimer(u) ELSE u

\* onPointerEnter of the shell, of the trigger and of the strip.
Entered(u, from, to) ==
  IF to = "trigger" /\ from # to /\ HoverTrigger(u)
  THEN [u EXCEPT !.timer = IF u.peeking THEN "none" ELSE "peek"]
  ELSE IF to = "strip" /\ from # to /\ HoverShell(u) THEN [u EXCEPT !.timer = "peek"]
  ELSE IF InShell(to) /\ ~InShell(from) /\ HoverShell(u) THEN CancelTimer(u)
  ELSE u

\* onPointerMove of the shell's watcher: where the card is, whatever covers it.
Watched(u, at) ==
  IF ~Watching(u) \/ cast.peek # "hover" THEN u
  ELSE IF InShell(at) /\ ~u.mobile THEN [CancelTimer(u) EXCEPT !.inside = TRUE]
  ELSE IF u.inside THEN [u EXCEPT !.inside = FALSE, !.timer = "dismiss"]
  ELSE u

Crossing(to) == Entered(Left(ui, server.over, to), server.over, to)

MovePointer(to) ==
  /\ Acts /\ ~ui.drag.held /\ to \in Places(ui) /\ (to # server.over \/ Watching(ui))
  /\ server' = [server EXCEPT !.over = to]
  /\ Render(Watched(Crossing(to), to))

\* The card slides in under a pointer that rests.
CardCovers ==
  /\ Acts /\ "card" \in Places(ui) /\ server.over \in {"trigger", "strip"}
  /\ server' = [server EXCEPT !.over = "card"]
  /\ Render(Crossing("card"))

\* What is under the pointer goes away.
Uncovered ==
  /\ Acts /\ server.over \notin Places(ui)
  /\ server' = [server EXCEPT !.over = "page"]
  /\ Render(Crossing("page"))

\* schedulePeek after 150 ms, scheduleDismissPeek after 250.
PeekTimerFires ==
  /\ ui.timer # "none"
  /\ ui' = Effects(ui, [ui EXCEPT !.timer = "none", !.peeking = ui.timer = "peek"])
  /\ UNCHANGED <<server, calls, cast>>

PressStrip ==
  /\ Acts /\ "strip" \in Places(ui) /\ (server.over = "strip" \/ "keyboard" \in cast.does)
  /\ UNCHANGED server
  /\ Render([CancelTimer(ui) EXCEPT !.peeking = TRUE])

Escape ==
  /\ Acts /\ Watching(ui) /\ UNCHANGED server
  /\ Render([ui EXCEPT !.peeking = FALSE])

PressOutside ==
  /\ Acts /\ Watching(ui) /\ server.over = "page" /\ UNCHANGED server
  /\ Render([ui EXCEPT !.peeking = FALSE])

\* A press on the trigger is one outside of the shell, and then its click.
PressTrigger ==
  /\ Acts /\ server.over = "trigger" /\ UNCHANGED server
  /\ LET pressed == Effects(ui, [ui EXCEPT !.peeking = @ /\ ~Watching(ui), !.left = @ - 1]) IN
       \E accepted \in Accepts : ui' = Effects(pressed, ToggleSidebar(pressed, accepted))

----------------------------------------------------------------------------
(* The rail *)

\* In the middle of an animation the panel may measure anything: its ends.
PressRail ==
  /\ Acts /\ "drag" \in cast.does /\ ~ui.drag.held /\ ~ui.mobile /\ RailShown(ui) /\ (ui.open \/ ui.moving)
  /\ \E from \in {ui.width} \cup (IF ui.moving THEN {0} ELSE {}) :
       Render([ui EXCEPT !.drag = [NoDrag EXCEPT !.held = TRUE, !.from = from]])
  /\ UNCHANGED server

Far(dx) == dx >= DragThreshold \/ dx <= -DragThreshold
Clamp(w) == IF w < MinWidth THEN MinWidth ELSE IF w > MaxWidth THEN MaxWidth ELSE w

\* onPointerMove: far past the minimum it shows what a release would do, and the
\* way back opens again.
DragRail(dx) ==
  /\ Acts /\ ui.drag.held /\ (ui.drag.moved \/ Far(dx)) /\ UNCHANGED server
  /\ LET raw == ui.drag.from + dx
         past == raw < MinWidth - CollapseSlop
         u == [ui EXCEPT !.resizing = TRUE, !.drag.moved = TRUE, !.drag.collapsed = past]
     IN \E accepted \in Accepts :
          \/ past /\ ui.drag.collapsed /\ Render(u)
          \/ past /\ ~ui.drag.collapsed /\ Render(SetOpen([u EXCEPT !.width = MinWidth], FALSE, accepted))
          \/ ~past /\ LET back == IF ui.drag.collapsed THEN SetOpen(u, TRUE, accepted) ELSE u
                       IN Render([back EXCEPT !.width = Clamp(raw)])

\* onPointerUp: a press that never became a drag is a click.
ReleaseRail ==
  /\ Acts /\ ui.drag.held /\ UNCHANGED server
  /\ LET u == [ui EXCEPT !.drag = NoDrag, !.resizing = FALSE] IN
       \E accepted \in Accepts : Render(IF ui.drag.moved THEN u ELSE ToggleSidebar(u, accepted))

CancelDrag_KeepsResizing ==
  /\ Acts /\ ui.drag.held /\ UNCHANGED server
  /\ Render([ui EXCEPT !.drag = NoDrag])

CancelDrag ==
  /\ Acts /\ ui.drag.held /\ UNCHANGED server
  /\ Render([ui EXCEPT !.drag = NoDrag, !.resizing = FALSE])

----------------------------------------------------------------------------
(* Animations, and the timers behind them.  The timer of the hold is not   *)
(* among them: the second render of the step that sets it clears it.       *)

SpringEnds ==
  /\ ui.moving /\ ui' = [ui EXCEPT !.moving = FALSE] /\ UNCHANGED <<server, calls, cast>>

FlipEnds ==
  /\ ui.flip /\ ui' = [ui EXCEPT !.flip = FALSE] /\ UNCHANGED <<server, calls, cast>>

SheetExits ==
  /\ ui.sheet /\ ~ui.openMobile
  /\ ui' = [ui EXCEPT !.sheet = FALSE] /\ UNCHANGED <<server, calls, cast>>

SheetTimerFires ==
  /\ ui.sheetTimer
  /\ ui' = [ui EXCEPT !.sheet = FALSE, !.sheetTimer = FALSE] /\ UNCHANGED <<server, calls, cast>>

Next ==
  \/ \E target \in Elements \ Providers : PressKey(target)
  \/ \E p \in Providers : MountProvider(p) \/ UnmountProvider(p)
  \/ ParentSets \/ CrossBreakpoint \/ CloseSheet
  \/ \E to \in {"page", "trigger", "strip", "card"} : MovePointer(to)
  \/ CardCovers \/ Uncovered \/ PeekTimerFires \/ PressStrip \/ Escape \/ PressOutside \/ PressTrigger
  \/ \E dx \in Drags : DragRail(dx)
  \/ PressRail \/ ReleaseRail \/ CancelDrag
  \/ SpringEnds \/ FlipEnds \/ SheetExits \/ SheetTimerFires

Spec == Init /\ [][Next]_vars

----------------------------------------------------------------------------
\* An open sidebar does not peek, now or when a timer fires that was set while
\* it was collapsed; and what the cookie says is what is shown, if nobody else
\* controls it, also when a drag collapsed it and pulled it back (the effect on
\* open and peek; setOpen; "Pinning the sidebar open always dismisses the peek,
\* including a PENDING intent timer").
PinEndsPeek ==
  /\ ui.open => ~ui.peeking /\ ui.timer = "none"
  /\ ~cast.parent /\ ui.cookie # "unset" => ui.cookie = Word(ui.open)

\* A drag leaves nothing behind, however it ends and whatever is pressed while
\* it lasts: the sidebar resizes exactly while a drag that has moved is held,
\* its width is one it may have, the least one past the threshold, and it does not
\* take the rail of the drag away.
DragsEndWhole ==
  /\ ui.resizing <=> ui.drag.moved
  /\ ui.drag.held => RailShown(ui)
  /\ ui.flip => ui.resizing
  /\ ui.width \in MinWidth..MaxWidth
  /\ ui.drag.collapsed => ui.width = MinWidth

\* The sheet of a narrow screen is in the page while it is open, whatever was
\* left of its last closing, and a closed one has a timer that takes it away.
SheetComesAndGoes ==
  /\ ui.mobile /\ ui.openMobile => ui.sheet /\ ~ui.sheetTimer
  /\ ui.sheet => ui.mobile /\ (ui.openMobile \/ ui.sheetTimer)

\* "Only ONE provider may answer a keypress": of the providers mounted, nested in
\* any way and mounted in any order, exactly one answers, wherever the focus is.
\* A provider itself never has it.
OneProviderAnswers ==
  \A target \in Elements \ Providers : Cardinality({p \in Range(server.mounted) : Answers(p, target)}) = 1
=============================================================================
