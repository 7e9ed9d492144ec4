---------------------------- MODULE CommandMenu ----------------------------
(***************************************************************************)
(* The command palette of the design kit: a field over a list of actions,  *)
(* filtered as one types, grouped, with one highlighted row that the arrow *)
(* keys and the pointer move and Enter runs; as a dialog that a key opens  *)
(* from anywhere, next to other palettes that listen for the same key.     *)
(*                                                                         *)
(* A handler, the render it causes and the effects of that are one step;   *)
(* animation frames, timers and the end of an animation are steps of their *)
(* own.  Where the pointer is within the list is not modelled: a frame may *)
(* pick any row that was measured.                                         *)
(***************************************************************************)
EXTENDS Integers, Sequences, FiniteSets, FiniteSetsExt, SequencesExt

CONSTANTS Dialogs,   \* the palettes of the page
          Own,       \* the one modelled here; of the others only whether they are open
          Combo,     \* their keys: "mod" (either of two), "meta" (one of these), "bare"
          Items,     \* the actions in the order they are given
          Group,     \* the heading of each
          Tabs,      \* the tabs under the field, the first lists everything
          TabOf,     \* the other tab that lists an action
          Queries,   \* what may be typed
          Matches,   \* pairs <<query, item>>
          Casts      \* records [kind, suggested, does, steps]

VARIABLES server,    \* the page: palettes mounted, others open, tab, actions disabled
          ui, calls, cast

vars == <<server, ui, calls, cast>>

Nobody == 0
Suggestions == "Suggestions"

\* What a palette holds as its content is mounted.
Empty == [query |-> "", rows |-> <<>>, drawn |-> FALSE, active |-> Nobody, last |-> Nobody, rects |-> 0, pass |-> FALSE,
          pending |-> "none", over |-> FALSE]

InDialog == cast.kind = "dialog"

----------------------------------------------------------------------------
(* The rows *)

\* The page lists what its tab holds; of these the filter keeps what matches.
Visible(tab, query) ==
  SelectSeq(Items, LAMBDA v : /\ tab = Tabs[1] \/ TabOf[v] = tab
                              /\ query = "" \/ <<query, v>> \in Matches)

Under(heading, items) == [i \in DOMAIN items |-> [heading |-> heading, item |-> items[i]]]

Entries_Twice(tab, query) ==
  LET visible == Visible(tab, query)
      suggested == IF query = "" THEN cast.suggested ELSE <<>>
  IN Under(Suggestions, SelectSeq(suggested, LAMBDA v : v \in Range(visible)))
     \o [i \in DOMAIN visible |-> [heading |-> Group[visible[i]], item |-> visible[i]]]

\* Suggested rows lead while nothing is typed, and leave their own group.
Entries(tab, query) ==
  LET visible == Visible(tab, query)
      suggested == IF query = "" THEN cast.suggested ELSE <<>>
      rest == SelectSeq(visible, LAMBDA v : v \notin Range(suggested))
  IN Under(Suggestions, SelectSeq(suggested, LAMBDA v : v \in Range(visible)))
     \o [i \in DOMAIN rest |-> [heading |-> Group[rest[i]], item |-> rest[i]]]

\* sectionRows: a section per heading, in the order the headings first appear.
Sections(tab, query) ==
  LET entries == Entries(tab, query)
      headings == FoldLeft(LAMBDA acc, e : IF e.heading \in Range(acc) THEN acc ELSE Append(acc, e.heading),
                           <<>>, entries)
  IN [k \in DOMAIN headings |-> SelectSeq(entries, LAMBDA e : e.heading = headings[k])]

\* Where a section starts in the flat list of rows.
Start(sections, k) == Len(FlattenSeq(SubSeq(sections, 1, k - 1)))

\* The flat list a render makes: the index space of the keyboard.
Rows(s, u) ==
  LET entries == FlattenSeq(Sections(s.tab, u.query)) IN [i \in DOMAIN entries |-> entries[i].item]

Enabled(s, u) == {i \in DOMAIN u.rows : u.rows[i] \notin s.disabled}

----------------------------------------------------------------------------
(* The highlight *)

Light(u, i) == [u EXCEPT !.active = i, !.last = IF i = Nobody THEN @ ELSE i]

LightFirst(s, u) == LET on == Enabled(s, u) IN Light(u, IF on = {} THEN Nobody ELSE Min(on))

\* A measurement is asked for again: what waits for a frame now comes before it.
Remeasure(u) == [u EXCEPT !.pass = TRUE, !.pending = IF @ = "none" THEN "none" ELSE "first"]

\* The effects of a render: the first enabled row is lit whenever the rows change,
\* or appear, and rows that come and go are measured again.
Effects(s, new) ==
  LET rows == Rows(s, new)
  IN IF ~new.shown THEN Empty @@ new
     ELSE IF new.drawn /\ rows = new.rows THEN new
     ELSE LightFirst(s, Remeasure([new EXCEPT !.rows = rows, !.drawn = TRUE]))

Acts == ui.left > 0 /\ UNCHANGED <<calls, cast>>

Render(s, u) == server' = s /\ ui' = Effects(s, [u EXCEPT !.left = @ - 1])

SetOpen_KeepsTimer(u, next) ==
  IF next = u.open THEN u ELSE [u EXCEPT !.open = next, !.shown = @ \/ next, !.timer = @ \/ ~next]

\* A dialog that opens is mounted; one that closes stays for its way out, with a
\* timer behind the animation, which opening again calls off.
SetOpen(u, next) ==
  IF next = u.open THEN u ELSE [u EXCEPT !.open = next, !.shown = @ \/ next, !.timer = ~next]

Init ==
  /\ cast \in Casts
  /\ server = [mounted |-> IF InDialog THEN <<Own>> ELSE <<>>, open |-> {}, tab |-> Tabs[1], disabled |-> {}]
  /\ LET closed == [open |-> ~InDialog, shown |-> ~InDialog, timer |-> InDialog, ran |-> "none",
                    left |-> cast.steps] @@ Empty
     IN ui = Effects(server, closed)
  /\ calls = <<>>

----------------------------------------------------------------------------
(* Opening by key *)

\* matchesShortcut
IsCombo(combo, key) == key = combo \/ (combo = "mod" /\ key \in {"meta", "ctrl"})

IsOpen(d) == IF d = Own THEN ui.open ELSE d \in server.open

AnswerOf_LastMounted(combo) == Last(SelectSeq(server.mounted, LAMBDA d : Combo[d] = combo))

\* Of the palettes of one combo the first that is open answers, or else the one
\* mounted last.
AnswerOf(combo) ==
  LET peers == SelectSeq(server.mounted, LAMBDA d : Combo[d] = combo)
      opened == SelectSeq(peers, IsOpen)
  IN IF opened # <<>> THEN opened[1] ELSE Last(peers)

\* onKeyDown of every palette, in the order they were mounted: the first that
\* answers prevents the others.  A bare key stays out of fields.
PressCombo(key, inField) ==
  LET answers(d) == IsCombo(Combo[d], key) /\ ~(Combo[d] = "bare" /\ inField) /\ AnswerOf(Combo[d]) = d
      fired == SelectSeq(server.mounted, answers)
  IN /\ Acts /\ fired # <<>>
     /\ ui.shown \/ server.open # {} => inField
     /\ IF fired[1] = Own THEN Render(server, SetOpen(ui, ~ui.open))
        ELSE Render([server EXCEPT !.open = IF fired[1] \in @ THEN @ \ {fired[1]} ELSE @ \cup {fired[1]}], ui)

\* Other palettes come and go with the pages.
MountPeer(d) ==
  /\ Acts /\ InDialog /\ "mount" \in cast.does /\ d \notin Range(server.mounted)
  /\ Render([server EXCEPT !.mounted = Append(@, d)], ui)

UnmountPeer(d) ==
  /\ Acts /\ d # Own /\ d \in Range(server.mounted)
  /\ Render([server EXCEPT !.mounted = SelectSeq(@, LAMBDA e : e # d), !.open = @ \ {d}], ui)

\* Escape or a press outside of the dialog.
Dismiss == Acts /\ InDialog /\ ui.open /\ Render(server, SetOpen(ui, FALSE))

ExitEnds ==
  /\ ui.shown /\ ~ui.open
  /\ ui' = Effects(server, [ui EXCEPT !.shown = FALSE]) /\ UNCHANGED <<server, calls, cast>>

ExitTimerFires ==
  /\ ui.timer
  /\ ui' = Effects(server, [ui EXCEPT !.timer = FALSE, !.shown = FALSE])
  /\ UNCHANGED <<server, calls, cast>>

----------------------------------------------------------------------------
(* Keys in the field.  It keeps the focus while the dialog is on its way   *)
(* out, so they work there too.                                            *)

Type(query) == Acts /\ ui.shown /\ query # ui.query /\ Render(server, [ui EXCEPT !.query = query])

ClearByEscape == Acts /\ ~InDialog /\ ui.query # "" /\ Render(server, [ui EXCEPT !.query = ""])

\* move: by one among the enabled rows, around the ends, or to an end.
Arrow(to) ==
  LET on == SetToSortSeq(Enabled(server, ui), LAMBDA a, b : a < b)
      n == Len(on)
      at == SelectInSeq(on, LAMBDA i : i = ui.active)
      next == CASE to = "first" -> on[1]
                [] to = "last" -> on[n]
                [] to = "down" -> on[(at % n) + 1]
                [] OTHER -> IF at = 0 THEN on[n] ELSE on[((at + n - 2) % n) + 1]
  IN /\ Acts /\ ui.shown /\ n > 0
     /\ to \in {"first", "last"} => ui.query = ""
     /\ Render(server, Light(ui, next))

\* Left and right change the tab of the page, which gives the list other actions.
SwitchTab(step) ==
  LET at == SelectInSeq(Tabs, LAMBDA t : t = server.tab) IN
  /\ Acts /\ ui.shown /\ "tabs" \in cast.does
  /\ Render([server EXCEPT !.tab = Tabs[((at - 1 + step + Len(Tabs)) % Len(Tabs)) + 1]], ui)

\* select: the action runs, and the dialog closes.
Select(item) ==
  Render(server, IF InDialog THEN SetOpen([ui EXCEPT !.ran = item], FALSE) ELSE [ui EXCEPT !.ran = item])

\* Enter, and a click between the rows.
RunLit ==
  /\ Acts /\ ui.shown /\ ui.active \in Enabled(server, ui)
  /\ Select(ui.rows[ui.active])

----------------------------------------------------------------------------
(* The pointer *)

ClickRow(i) == Acts /\ ui.shown /\ ui.over /\ i \in Enabled(server, ui) /\ Select(ui.rows[i])

Hover ==
  /\ Acts /\ ui.shown /\ "point" \in cast.does
  /\ Render(server, [ui EXCEPT !.over = TRUE, !.pending = IF ui.pass THEN "after" ELSE "first"])

Leave_Forgets ==
  /\ Acts /\ ui.over /\ Render(server, [ui EXCEPT !.over = FALSE, !.pending = "none", !.active = Nobody])

\* The pointer leaves the list: the highlight stays where it was.
Leave ==
  /\ Acts /\ ui.over /\ Render(server, [ui EXCEPT !.over = FALSE, !.pending = "none", !.active = ui.last])

\* The highlight goes to a row that was measured; what is enabled is asked of
\* the row that has its index now.
PointingFrame ==
  LET picks == {i \in 1..ui.rects : ~(i \in DOMAIN ui.rows /\ ui.rows[i] \in server.disabled)}
  IN /\ ui.pending = "first" \/ (ui.pending = "after" /\ ~ui.pass)
     /\ \E i \in (IF picks = {} THEN {Nobody} ELSE picks) : ui' = Light([ui EXCEPT !.pending = "none"], i)
     /\ UNCHANGED <<server, calls, cast>>

MeasuringFrame ==
  /\ ui.pass
  /\ ui' = [ui EXCEPT !.pass = FALSE, !.rects = Len(ui.rows)]
  /\ UNCHANGED <<server, calls, cast>>

\* An action of the list is disabled, or enabled, where it stands.
Disable(item) ==
  /\ Acts /\ "disable" \in cast.does
  /\ Render([server EXCEPT !.disabled = IF item \in @ THEN @ \ {item} ELSE @ \cup {item}], ui)

----------------------------------------------------------------------------
Next ==
  \/ \E key \in {"meta", "ctrl", "bare"}, inField \in BOOLEAN : PressCombo(key, inField)
  \/ \E d \in Dialogs : MountPeer(d) \/ UnmountPeer(d)
  \/ Dismiss \/ ExitEnds \/ ExitTimerFires
  \/ \E q \in Queries \cup {""} : Type(q)
  \/ ClearByEscape \/ RunLit
  \/ \E to \in {"up", "down", "first", "last"} : Arrow(to)
  \/ \E step \in {-1, 1} : SwitchTab(step)
  \/ \E i \in 1..Len(Items) : ClickRow(i)
  \/ Hover \/ Leave \/ PointingFrame \/ MeasuringFrame
  \/ \E v \in Range(Items) : Disable(v)

Spec == Init /\ [][Next]_vars

----------------------------------------------------------------------------
\* Every visible action is listed once, whatever is suggested and however the
\* groups are mixed, and the index of a row on the screen, that of its section and
\* its place in it, is its index for the keyboard ("nothing is listed twice").
RowsListedOnce ==
  LET rows == ui.rows
      sections == Sections(server.tab, ui.query)
  IN ui.shown =>
     /\ Range(rows) = Range(Visible(server.tab, ui.query))
     /\ \A i, j \in DOMAIN rows : rows[i] = rows[j] => i = j
     /\ \A k \in DOMAIN sections : \A i \in DOMAIN sections[k] :
          rows[Start(sections, k) + i] = sections[k][i].item

\* Of the palettes that share a key at most one is open, however they come, go and
\* are toggled; and a palette that is open is on the screen, with nothing left
\* of an earlier closing that would take it away ("An open dialog answers first").
OneOpenPerCombo ==
  /\ \A d, e \in Range(server.mounted) : IsOpen(d) /\ IsOpen(e) /\ Combo[d] = Combo[e] => d = e
  /\ ui.open => ui.shown /\ ~ui.timer
  /\ ui.shown => ui.open \/ ui.timer

HasTarget(s, u) == u.shown => (Enabled(s, u) = {} \/ u.active \in Enabled(s, u))

\* "Enter always has a target": in a list with an enabled row one is lit, however the
\* rows are filtered, switched and pointed at.  Two steps alone lose it: a frame that
\* looks the pointer up among rows measured before these, and a row disabled in place.
KeepsTarget ==
  HasTarget(server, ui) /\ ~HasTarget(server', ui') =>
     \/ server'.disabled # server.disabled
     \/ ui.pending # "none" /\ ui'.pending = "none" /\ ui.rects # Len(ui.rows)
=============================================================================
