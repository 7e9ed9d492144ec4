------------------------------- MODULE Pickers -------------------------------
(***************************************************************************)
(* The fields of the console that pick from a list: the combobox with its  *)
(* text field (one value, or several as chips), the plain searchable one,  *)
(* and the select.  The popup outlives its closing by an exit animation,   *)
(* and the select keeps it open for a moment after a pick; rows can be     *)
(* pressed all that time.  The page around the picker owns the value and   *)
(* the list, and may change both at any moment.                            *)
(*                                                                         *)
(* A handler and the effects of the render it causes are one step: React   *)
(* runs them before the next event.  Timers and animations are steps.      *)
(***************************************************************************)
EXTENDS Integers, Sequences, FiniteSets, Functions

CONSTANTS Items,      \* what the list may hold, in order; an item is also its label
          Queries,    \* what may be typed
          Matches,    \* pairs <<item, query>>: the label contains the query
          Disabled,   \* the rows the page has disabled
          Casts       \* records [kind, hides, creates, does, steps]

VARIABLES server,     \* the page around: items, the list; value, the selection
          ui, calls, cast

vars == <<server, ui, calls, cast>>

Kinds == {"simple", "single", "multiple", "select"}
NoText == ""
Create == "create"    \* the row that creates what is typed
NoHighlight == [at |-> 0, keyboard |-> FALSE]
First == [at |-> 1, keyboard |-> TRUE]

Init ==
  /\ cast \in Casts
  /\ server = [items |-> Items, value |-> <<>>]
  /\ ui = [open |-> FALSE, mounted |-> FALSE, query |-> NoText, field |-> NoText, hl |-> NoHighlight,
           recent |-> FALSE, ack |-> 0, openings |-> 0, frame |-> FALSE, checked |-> 0, left |-> cast.steps]
  /\ calls = <<>>

Is(kinds) == cast.kind \in kinds
Acts == ui.left > 0
Step(u) == [u EXCEPT !.left = @ - 1]
Combo == {"single", "multiple"}

(* What the combobox shows *)

Label(s) ==
  IF Is({"multiple"}) \/ s.value = <<>> \/ s.value[1] \notin Range(s.items) THEN NoText ELSE s.value[1]

Creates == cast.creates /\ ui.query # NoText /\ ui.query \notin Range(server.items)

\* filteredItems, filteredOptions: the items shown, in the order of the list, and the
\* row that creates.
Shown ==
  {i \in DOMAIN server.items :
     /\ ui.query = NoText \/ <<server.items[i], ui.query>> \in Matches
     /\ cast.hides => server.items[i] \notin Range(server.value)}
Place(i) == Cardinality({j \in Shown : j <= i})
Rows ==
  [k \in 1..(Cardinality(Shown) + (IF Creates THEN 1 ELSE 0)) |->
     IF \E i \in Shown : Place(i) = k THEN server.items[CHOOSE i \in Shown : Place(i) = k] ELSE Create]

\* safeHighlight
At == IF ui.hl.at <= Len(Rows) THEN ui.hl.at ELSE 0

(* The effects of a render: the field follows the label of the selection,  *)
(* an opened list highlights its first row, and mounts the popup.          *)
Effects(u, s) ==
  [u EXCEPT !.field = IF Label(s) # Label(server) THEN Label(s) ELSE @,
            !.hl = IF u.open /\ ~ui.open /\ @ = NoHighlight THEN First ELSE @,
            !.mounted = @ \/ u.open]

Render(u, s) == ui' = Effects(Step(u), s) /\ server' = s /\ UNCHANGED <<calls, cast>>

Selected(vals) == [server EXCEPT !.value = vals]

\* setOpen: closing without a pick reverts the field to the selection.
SetOpen(u, open) ==
  [u EXCEPT !.open = open, !.query = IF open THEN @ ELSE NoText, !.hl = IF open THEN @ ELSE NoHighlight,
            !.field = IF open THEN @ ELSE Label(server)]

Picked(u, text) == [u EXCEPT !.open = FALSE, !.query = NoText, !.hl = NoHighlight, !.field = text]

Toggle(vals, i) == IF i \in Range(vals) THEN SelectSeq(vals, LAMBDA v : v # i) ELSE Append(vals, i)

\* select: the create row asks the page for an item, which may refuse; several
\* values toggle, and the list closes only if it was filtered.
Pick(row) ==
  IF row = Create
  THEN \/ Render(Picked(ui, Label(server)), server)
       \/ Render(Picked(ui, IF Is({"multiple"}) THEN NoText ELSE ui.query),
                 [items |-> Append(server.items, ui.query),
                  value |-> IF Is({"multiple"}) THEN Append(server.value, ui.query) ELSE <<ui.query>>])
  ELSE IF Is({"multiple"})
  THEN Render(IF ui.query = NoText THEN ui ELSE Picked(ui, NoText), Selected(Toggle(server.value, row)))
  ELSE Render(Picked(ui, row), Selected(<<row>>))

(* The field of the combobox *)

\* A press on the field opens, the chevron toggles, Escape and a press outside close.
PressField == Is(Combo) /\ Acts /\ \E open \in BOOLEAN \ {ui.open} : Render(SetOpen(ui, open), server)

\* setInputValue
Type(text) ==
  /\ Is(Combo) /\ Acts /\ text # ui.field
  /\ Render([ui EXCEPT !.field = text, !.query = text, !.open = TRUE, !.hl = First], server)

\* handleKeyDown: past the ends the arrows stop at the field.
Arrow(step) ==
  /\ Is(Combo) /\ Acts
  /\ LET n == Len(Rows)
         from == IF At = 0 /\ step = -1 THEN n + 1 ELSE At
         to == from + step
     IN IF ~ui.open
        THEN Render([ui EXCEPT !.open = TRUE,
               !.hl = IF n > 0 THEN [at |-> IF step = 1 THEN 1 ELSE n, keyboard |-> TRUE] ELSE @], server)
        ELSE /\ n > 0
             /\ Render([ui EXCEPT !.hl = IF to \in 1..n THEN [at |-> to, keyboard |-> TRUE] ELSE NoHighlight], server)

PressEnter == Is(Combo) /\ Acts /\ ui.open /\ At # 0 /\ Pick(Rows[At])

\* In an empty field of several values the last chip goes.
Backspace ==
  /\ Is({"multiple"}) /\ Acts /\ ui.field = NoText /\ server.value # <<>>
  /\ Render(ui, Selected(SubSeq(server.value, 1, Len(server.value) - 1)))

RemoveChip(i) ==
  /\ Is({"multiple"}) /\ Acts /\ i \in Range(server.value)
  /\ Render(ui, Selected(SelectSeq(server.value, LAMBDA v : v # i)))

\* clear leaves the list open if it was.
Clear ==
  /\ Is(Combo) /\ Acts /\ (server.value # <<>> \/ ui.field # NoText)
  /\ Render([ui EXCEPT !.field = NoText, !.query = NoText, !.hl = NoHighlight], Selected(<<>>))

(* The rows of the combobox, there until the exit animation is over *)

Pressable(k) == ui.mounted /\ k \in DOMAIN Rows /\ Rows[k] \notin Disabled

PressRow(k) == Is(Combo) /\ Acts /\ Pressable(k) /\ Pick(Rows[k])

PointAt(k) ==
  /\ Is(Combo) /\ Acts /\ Pressable(k) /\ (At # k \/ ui.hl.keyboard)
  /\ Render([ui EXCEPT !.hl = [at |-> k, keyboard |-> FALSE]], server)

LeaveList ==
  /\ Is(Combo) /\ ui.mounted /\ At # 0 /\ ~ui.hl.keyboard
  /\ ui' = [ui EXCEPT !.hl = NoHighlight]
  /\ UNCHANGED <<server, calls, cast>>

(* The searchable list without a field: opening it clears the search *)

PressTrigger ==
  /\ Is({"simple"}) /\ Acts
  /\ ui' = [Step(ui) EXCEPT !.open = ~@, !.query = IF ui.open THEN @ ELSE NoText, !.mounted = TRUE]
  /\ UNCHANGED <<server, calls, cast>>

Search(text) ==
  /\ Is({"simple"}) /\ Acts /\ ui.open /\ text # ui.query
  /\ ui' = [Step(ui) EXCEPT !.query = text]
  /\ UNCHANGED <<server, calls, cast>>

PressSimpleRow(k) ==
  /\ Is({"simple"}) /\ Acts /\ ui.mounted /\ k \in DOMAIN Rows
  /\ ui' = [Step(ui) EXCEPT !.open = FALSE, !.query = NoText]
  /\ server' = Selected(<<Rows[k]>>)
  /\ UNCHANGED <<calls, cast>>

(* The select: mounted is what Radix sees, open what is drawn *)

CancelAck_OnlyWhenClosing(u, open) == IF open THEN u ELSE [u EXCEPT !.ack = 0]

\* cancelAckClose
CancelAck(u, open) == [u EXCEPT !.ack = 0]

\* The marker of the selected row is looked up two frames later.
Looked(u, s) == [u EXCEPT !.frame = u.open /\ (@ \/ ~ui.open \/ s.value # server.value),
                          !.checked = IF u.open THEN @ ELSE 0]

\* handleOpenChange: a close right after a pick is put off, so that the person
\* sees the row marked; any other change takes effect at once.
OpenChange(u, open) ==
  IF ~open /\ u.recent THEN [CancelAck(u, open) EXCEPT !.ack = u.openings]
  ELSE [CancelAck(u, open) EXCEPT !.open = open, !.mounted = @ \/ open,
                                  !.openings = IF open THEN @ + 1 ELSE @]

\* The trigger opens what Radix holds for closed.
OpenSelect ==
  /\ Is({"select"}) /\ Acts /\ ~ui.mounted
  /\ ui' = Looked(Step(OpenChange(ui, TRUE)), server)
  /\ UNCHANGED <<server, calls, cast>>

\* Radix reports a value only when it is another one, and closes either way.
PickOption(k) ==
  /\ Is({"select"}) /\ Acts /\ ui.mounted /\ k \in DOMAIN server.items /\ server.items[k] \notin Disabled
  /\ LET s == Selected(<<server.items[k]>>) IN
       /\ ui' = Looked(Step(OpenChange([ui EXCEPT !.recent = @ \/ s # server], FALSE)), s)
       /\ server' = s
  /\ UNCHANGED <<calls, cast>>

\* Escape, or a press outside.
DismissSelect ==
  /\ Is({"select"}) /\ Acts /\ ui.mounted
  /\ ui' = Looked(Step(OpenChange(ui, FALSE)), server)
  /\ UNCHANGED <<server, calls, cast>>

\* The pick is 100 ms old; the close that was put off comes after 300.
PickAges ==
  /\ ui.recent
  /\ ui' = [ui EXCEPT !.recent = FALSE]
  /\ UNCHANGED <<server, calls, cast>>

AckCloses ==
  /\ ui.ack # 0 /\ ~ui.recent
  /\ ui' = Looked([ui EXCEPT !.ack = 0, !.open = FALSE], server)
  /\ UNCHANGED <<server, calls, cast>>

FrameMarks ==
  /\ ui.frame
  /\ ui' = [ui EXCEPT !.frame = FALSE,
              !.checked = IF server.value = <<>> \/ server.value[1] \notin Range(server.items) THEN 0
                          ELSE CHOOSE k \in DOMAIN server.items : server.items[k] = server.value[1]]
  /\ UNCHANGED <<server, calls, cast>>

(* All of them *)

\* The exit animation ends, or the timer behind it fires.
ExitEnds ==
  /\ ui.mounted /\ ~ui.open
  /\ ui' = [ui EXCEPT !.mounted = FALSE]
  /\ UNCHANGED <<server, calls, cast>>

\* The page resets the value, or loads another list.
PageSets(vals) ==
  /\ "set" \in cast.does /\ Acts /\ vals # server.value
  /\ LET s == Selected(vals) IN
       /\ server' = s
       /\ ui' = IF Is({"select"}) THEN Looked(Step(ui), s) ELSE Effects(Step(ui), s)
  /\ UNCHANGED <<calls, cast>>

PageLoads(items) ==
  /\ "load" \in cast.does /\ Acts /\ items # server.items
  /\ Render(ui, [server EXCEPT !.items = items])

Next ==
  \/ PressField \/ PressEnter \/ Backspace \/ Clear \/ LeaveList \/ PressTrigger
  \/ OpenSelect \/ DismissSelect \/ PickAges \/ AckCloses \/ FrameMarks \/ ExitEnds
  \/ \E text \in Queries \cup {NoText} : Type(text) \/ Search(text)
  \/ \E step \in {1, -1} : Arrow(step)
  \/ \E k \in 1..(Len(Items) + 2) : PressRow(k) \/ PointAt(k) \/ PressSimpleRow(k) \/ PickOption(k)
  \/ \E i \in Range(Items) \cup Queries : RemoveChip(i)
  \/ \E vals \in {<<>>, <<Items[1]>>} : PageSets(vals)
  \/ \E items \in {Items, Tail(Items)} : PageLoads(items)

Spec == Init /\ [][Next]_vars

(* A picker that is closed holds nothing of its last opening: the field of *)
(* the combobox reads the selection, whatever was typed, picked, cleared,  *)
(* created or changed by the page, and no close that a pick has put off    *)
(* waits in the select for a later opening (setOpen, the effect on         *)
(* selectedLabel; cancelAckClose).                                         *)
ClosedHoldsNothing ==
  /\ Is(Combo) /\ ~ui.open => ui.query = NoText /\ (Is({"single"}) => ui.field = Label(server))
  /\ Is({"select"}) /\ ui.ack # 0 => ui.ack = ui.openings
  /\ Is({"select"}) /\ ui.open => ui.mounted
=============================================================================
