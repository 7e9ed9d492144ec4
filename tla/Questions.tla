----------------------------- MODULE Questions -----------------------------
(***************************************************************************)
(* The cards that ask a sequence of questions: pick one, pick several, or  *)
(* write.  A pick answers and moves on at once, the other two are sent by  *)
(* a button or a key; the person may go back, skip, and change an answer   *)
(* given before.  Digits answer without any focus, so the cards mounted on *)
(* one page agree through a shared list which of them a digit is for.      *)
(*                                                                         *)
(* The card keeps its index and its answers itself.  Texts are three:      *)
(* Blank is only white space, Bad is what a check refuses.  A question to  *)
(* be answered in writing has no options, as its type asks.                *)
(***************************************************************************)
EXTENDS Integers, Sequences, Functions

CONSTANTS Cards,
          Casts     \* records [questions, does, steps]

VARIABLES server,   \* the page: the cards in the order they were mounted
          ui, calls, cast

vars == <<server, ui, calls, cast>>

Empty == ""
Blank == "blank"
Bad == "bad"
Good == "good"

Page == [card |-> "none", row |-> 0]
Unanswered == [ids |-> {}, text |-> Empty, skipped |-> FALSE]
Total == Len(cast.questions)

Fresh ==
  [at |-> 1, answers |-> [i \in 1..Total |-> Unanswered], active |-> 0, ring |-> 0, error |-> FALSE]

Card(c) == ui.cards[c]
Q(c) == cast.questions[Card(c).at]
Answer(c) == Card(c).answers[Card(c).at]
Free(c) == Q(c).kind = "free"
Multi(c) == Q(c).kind = "multi"

\* Rows are numbered from one; the last one is the text of one's own, and a
\* written answer is a single row of text.  Row 0 stands for the buttons.
TextRow(c) == IF Free(c) THEN 1 ELSE IF Q(c).other THEN Q(c).options + 1 ELSE 0
RowCount(c) == IF Free(c) THEN 0 ELSE Q(c).options + (IF Q(c).other THEN 1 ELSE 0)
In(c) == c \in Range(server) /\ ui.focus.card = c
InRows(c) == In(c) /\ ui.focus.row > 0 /\ ~Free(c)
InText(c) == In(c) /\ ui.focus.row > 0 /\ ui.focus.row = TextRow(c)

FirstFocus(c) == IF cast.questions[1].kind = "free" THEN [card |-> c, row |-> 1] ELSE Page

Init ==
  /\ cast \in Casts
  /\ server = <<CHOOSE c \in Cards : TRUE>>
  /\ ui = [cards |-> [c \in Cards |-> Fresh], focus |-> FirstFocus(server[1]), left |-> cast.steps]
  /\ calls = <<>>

Acts == ui.left > 0
Step == [ui EXCEPT !.left = @ - 1]

(* Focus: a row of options lights up, and is ringed when the keyboard      *)
(* brought the focus there; the rows it leaves lose both.                  *)
Focused(u, c, row, ringed) ==
  [u EXCEPT !.focus = [card |-> c, row |-> row],
            !.cards = [d \in Cards |->
              IF d = c /\ row > 0 /\ ~Free(c)
              THEN [@[d] EXCEPT !.active = row, !.ring = IF ringed THEN row ELSE 0]
              ELSE IF d = u.focus.card THEN [@[d] EXCEPT !.active = 0, !.ring = 0] ELSE @[d]]]

Put(u, c, answer) == [u EXCEPT !.cards[c].answers[u.cards[c].at] = answer]

(* Another question replaces the rows, and the focus in them is lost: a    *)
(* written answer takes it, and so does the first row when the keyboard    *)
(* was driving.                                                            *)
MoveTo(u, c, next) ==
  LET driving == u.focus.card = c /\ u.focus.row > 0 /\ u.cards[c].ring # 0
      free == cast.questions[next].kind = "free"
      first == IF driving /\ ~free THEN 1 ELSE 0
  IN [u EXCEPT !.focus = IF free \/ driving THEN [card |-> c, row |-> 1]
                         ELSE IF @.card = c THEN Page ELSE @,
               !.cards[c].at = next, !.cards[c].active = first, !.cards[c].ring = first,
               !.cards[c].error = FALSE]

GoNext(u, c) ==
  IF u.cards[c].at = Total
  THEN ui' = u /\ calls' = Append(calls, [card |-> c, answers |-> u.cards[c].answers])
  ELSE ui' = MoveTo(u, c, u.cards[c].at + 1) /\ UNCHANGED calls

Stays(u) == ui' = u /\ UNCHANGED calls

(* The answers: handleSingleSelect, handleMultiToggle, handleOtherChange,  *)
(* handleOtherSubmit, handleSkip, handleMultiNext, handleBack              *)

Choose(u, c, option) ==
  IF Multi(c)
  THEN Stays(Put(u, c, [Answer(c) EXCEPT !.ids = IF option \in @ THEN @ \ {option} ELSE @ \cup {option},
                                         !.skipped = FALSE]))
  ELSE GoNext(Put(u, c, [Answer(c) EXCEPT !.ids = {option}, !.skipped = FALSE]), c)

HasText(c) == Answer(c).text \notin {Empty, Blank}

Submit_OncePerCard(u, c) ==
  /\ HasText(c)
  /\ IF Free(c) /\ Q(c).check /\ Answer(c).text = Bad /\ ~Card(c).error
     THEN Stays([u EXCEPT !.cards[c].error = TRUE])
     ELSE GoNext(Put([u EXCEPT !.cards[c].error = FALSE], c, [Answer(c) EXCEPT !.skipped = FALSE]), c)

Submit(u, c) ==
  /\ HasText(c)
  /\ IF Free(c) /\ Q(c).check /\ Answer(c).text = Bad
     THEN Stays([u EXCEPT !.cards[c].error = TRUE])
     ELSE GoNext(Put([u EXCEPT !.cards[c].error = FALSE], c, [Answer(c) EXCEPT !.skipped = FALSE]), c)

CanSkip(c) == Total > 1 /\ Q(c).skippable
Skipped(u, c) == GoNext(Put(u, c, [Answer(c) EXCEPT !.skipped = TRUE]), c)

CanContinue(c) == Answer(c).ids # {} \/ HasText(c)

\* Continue and its key: what is typed goes through Submit, what is ticked on.
Send(u, c) == IF Free(c) THEN Submit(u, c) ELSE Multi(c) /\ CanContinue(c) /\ GoNext(u, c)

CanGoBack(c) == Card(c).at > 1
Back(u, c) == Stays(MoveTo(u, c, Card(c).at - 1))

Mounted(c) == Acts /\ c \in Range(server) /\ UNCHANGED <<server, cast>>

(* The pointer *)

PressRow(c, row) ==
  Mounted(c) /\ ~Free(c) /\ row \in 1..Q(c).options /\ Choose(Focused(Step, c, row, FALSE), c, row)

PressText(c) == Mounted(c) /\ TextRow(c) > 0 /\ Stays(Focused(Step, c, TextRow(c), TRUE))

PressSend(c) ==
  Mounted(c) /\ IF Free(c) \/ Multi(c) THEN Send(Focused(Step, c, 0, FALSE), c) ELSE InText(c) /\ Submit(Step, c)

PressSkip(c) == Mounted(c) /\ CanSkip(c) /\ Skipped(Focused(Step, c, 0, FALSE), c)

PressBack(c) == Mounted(c) /\ CanGoBack(c) /\ Back(Focused(Step, c, 0, FALSE), c)

Hover(c, row) == Mounted(c) /\ row \in 0..RowCount(c) /\ Stays([Step EXCEPT !.cards[c].active = row])

(* The keyboard *)

Tab(c) ==
  LET picked == {i \in Answer(c).ids : i <= Q(c).options}
      row == IF Free(c) \/ picked = {} THEN 1 ELSE CHOOSE i \in picked : \A j \in picked : i <= j
  IN Mounted(c) /\ Stays(IF InRows(c) THEN Focused(Step, c, 0, FALSE) ELSE Focused(Step, c, row, TRUE))

Type(c, text) ==
  Mounted(c) /\ InText(c)
  /\ Stays(Put([Step EXCEPT !.cards[c].error = FALSE], c, [Answer(c) EXCEPT !.text = text, !.skipped = FALSE]))

EnterKey(c) ==
  /\ Mounted(c)
  /\ \/ InRows(c) /\ ~InText(c) /\ Choose(Step, c, ui.focus.row)
     \/ InText(c) /\ ~Multi(c) /\ (Free(c) => Q(c).oneline) /\ Submit(Step, c)
     \/ In(c) /\ Send(Step, c)

\* Left and right leave the question, up and down walk the rows, in a circle;
\* in the text they do so only from its ends.
ArrowKey(c, key) ==
  /\ Mounted(c) /\ InRows(c)
  /\ \/ key = "left" /\ ~InText(c) /\ CanGoBack(c) /\ Back(Step, c)
     \/ key = "right" /\ ~InText(c) /\ CanSkip(c) /\ Skipped(Step, c)
     \/ /\ key \in {"up", "down"}
        /\ LET base == IF InText(c) THEN TextRow(c) ELSE Card(c).active
               next == 1 + ((IF key = "down" THEN base ELSE base + RowCount(c) - 2) % RowCount(c))
           IN Stays(Focused(Step, c, next, TRUE))

Listens_LastMounted(c) == c = server[Len(server)]

\* The card a digit is for: the one with the focus, else the last one mounted.
Listens(c) == IF ui.focus.card \in Range(server) THEN ui.focus.card = c ELSE c = server[Len(server)]

Digit(c, digit) ==
  /\ Mounted(c) /\ Listens(c) /\ ~\E d \in Range(server) : InText(d)
  /\ ~Free(c)
  /\ \/ digit <= Q(c).options /\ Choose(Step, c, digit)
     \/ digit = Q(c).options + 1 /\ Q(c).other /\ Stays(Focused(Step, c, digit, TRUE))

(* Cards come and go with the page *)

Mount(c) ==
  /\ Acts /\ "mount" \in cast.does /\ c \notin Range(server)
  /\ server' = Append(server, c)
  /\ ui' = [Step EXCEPT !.cards[c] = Fresh, !.focus = IF FirstFocus(c) = Page THEN @ ELSE FirstFocus(c)]
  /\ UNCHANGED <<calls, cast>>

Unmount(c) ==
  /\ Acts /\ "mount" \in cast.does
  /\ \E i \in DOMAIN server :
       server[i] = c /\ server' = SubSeq(server, 1, i - 1) \o SubSeq(server, i + 1, Len(server))
  /\ ui' = [Step EXCEPT !.cards[c] = Fresh, !.focus = IF @.card = c THEN Page ELSE @]
  /\ UNCHANGED <<calls, cast>>

Next ==
  \E c \in Cards :
    \/ \E row \in 0..3 : PressRow(c, row) \/ Hover(c, row) \/ Digit(c, row)
    \/ PressText(c) \/ PressSend(c) \/ PressSkip(c) \/ PressBack(c)
    \/ Tab(c) \/ EnterKey(c)
    \/ \E text \in {Empty, Blank, Bad, Good} : Type(c, text)
    \/ \E key \in {"left", "right", "up", "down"} : ArrowKey(c, key)
    \/ Mount(c) \/ Unmount(c)

----------------------------------------------------------------------------
Acceptable(q, a) ==
  \/ a.skipped
  \/ q.kind = "free" /\ a.text \in (IF q.check THEN {Good} ELSE {Bad, Good})
  \/ q.kind # "free" /\ (a.ids # {} \/ a.text \in {Bad, Good})

\* What a card hands over when it completes holds, for each of its questions, a
\* skip or an answer the question accepts, whatever was changed on the way back
\* and forth: an answer taken away again must not pass.
DeliversAnswers ==
  calls' # calls => \A i \in 1..Total : Acceptable(cast.questions[i], calls'[Len(calls')].answers[i])

\* No card takes an answer while the focus is inside another one: a digit pressed
\* there is for that other card.
AnswersWhereFocused ==
  \A c \in Cards : Card(c)'.answers # Card(c).answers => ui'.focus.card \in {c, Page.card} \/ c \notin Range(server')
=============================================================================
