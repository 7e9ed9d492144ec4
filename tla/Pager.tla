------------------------------- MODULE Pager -------------------------------
(***************************************************************************)
(* The pages a long list is cut into, by the hook every list of the        *)
(* console uses, and the buttons under the list.  The list is the page's:  *)
(* it grows and shrinks by its own loads, and its key (the project it is   *)
(* filtered by) sends the reader back to the first page.  Both corrections *)
(* are effects: they run after a render that still drew the old page.      *)
(***************************************************************************)
EXTENDS Integers, FiniteSets

CONSTANTS Sizes,     \* the rows a page may hold
          Lengths,   \* the lengths the list may take
          Casts      \* records [steps]

VARIABLES server,    \* the list: its length, its key
          ui, calls, cast

vars == <<server, ui, calls, cast>>

Keys == {"p", "q"}
Span == 5            \* buttons with a number

Lower(a, b) == IF a < b THEN a ELSE b
Higher(a, b) == IF a > b THEN a ELSE b

PageCount(total, size) == Higher(1, (total + size - 1) \div size)
Count == PageCount(server.total, ui.size)

\* The rows drawn, and the numbers under them.
Slice(page) == {i \in 1..server.total : i > (page - 1) * ui.size /\ i <= page * ui.size}

PageWindow_Uncut(page, count) == {page - (Span \div 2) + i : i \in 0..(Span - 1)}

PageWindow(page, count) ==
  LET start == Higher(1, Lower(page - (Span \div 2), count - Span + 1))
      end == Lower(count, start + Span - 1)
  IN Higher(1, end - Span + 1)..end

Init ==
  /\ cast \in Casts
  /\ server \in [total : Lengths, key : {"p"}]
  /\ ui = [page |-> 1, size |-> CHOOSE s \in Sizes : \A t \in Sizes : s <= t, reset |-> FALSE, left |-> cast.steps]
  /\ calls = <<>>

\* The effects run before the person or the list does anything else.
Behind == ui.reset \/ ui.page > Count
Acts == ui.left > 0 /\ ~Behind /\ UNCHANGED <<calls, cast>>
Step == [ui EXCEPT !.left = @ - 1]

Press(page) == Acts /\ ui' = [Step EXCEPT !.page = page] /\ UNCHANGED server

First == ui.page > 1 /\ Press(1)
Previous == ui.page > 1 /\ Press(ui.page - 1)
Number(n) == n \in PageWindow(ui.page, Count) /\ Press(n)
Following == ui.page < Count /\ Press(ui.page + 1)
Final == ui.page < Count /\ Press(Count)

SetPageSize(n) == Acts /\ ui' = [Step EXCEPT !.size = n, !.page = 1] /\ UNCHANGED server

\* A load: the list under the same key, or the one of another key.
Loads(total, key) ==
  /\ Acts /\ server' = [total |-> total, key |-> key]
  /\ ui' = [Step EXCEPT !.reset = key # server.key]

\* Both effects see the page of the render: a page too far is what wins.
Effects ==
  /\ Behind
  /\ ui' = [ui EXCEPT !.reset = FALSE, !.page = IF @ > Count THEN Count ELSE 1]
  /\ UNCHANGED <<server, calls, cast>>

Next ==
  \/ First \/ Previous \/ Following \/ Final \/ \E n \in 1..Count : Number(n)
  \/ \E n \in Sizes : SetPageSize(n)
  \/ \E total \in Lengths, key \in Keys : Loads(total, key)
  \/ Effects

----------------------------------------------------------------------------
\* The reader of a list that holds rows sees some, after any load and any press,
\* and there is a page for every row; the numbers offered are pages of the list,
\* his own among them, as many as there is room for.
PageShowsRows ==
  ~Behind => /\ server.total > 0 => Slice(ui.page) # {}
             /\ UNION {Slice(page) : page \in 1..Count} = 1..server.total
             /\ LET offered == PageWindow(ui.page, Count)
                IN ui.page \in offered /\ offered \subseteq 1..Count
                   /\ Cardinality(offered) = Lower(Span, Count)
=============================================================================
