------------------------------ MODULE MCResize ------------------------------
(* Two workspaces on one node that has room for one upgrade at a time.     *)
EXTENDS Resize, TLC

CONSTANTS n1, p1, a1, a2, w1, w2, h1, h2

Vec(c, m, d) == [cpu |-> c, mem |-> m, disk |-> d]

MCCapacities == {Vec(5, 5, 4), Vec(6, 6, 6)}
MCSpecs == {Vec(1, 1, 1), Vec(3, 1, 1), Vec(3, 3, 3), Vec(1, 3, 2)}
MCFirstSpec == Vec(1, 1, 1)
MCDeltas == {Minus(v, u) : u \in MCSpecs, v \in MCSpecs}
MCAllocOf == (w1 :> a1) @@ (w2 :> a2)
MCHostOf == [w \in Workspaces |-> n1]
MCProjectOf == [w \in Workspaces |-> p1]

By(first, second) == (h1 :> first) @@ (h2 :> second)

Of(does, asks, refuses) ==
  [does |-> does, asks |-> asks, refuses |-> refuses, disk_fails |-> FALSE, store_fails |-> FALSE]

Both == {"upgrade", "downgrade"}

\* An admin on his own.
OneAdmin == Of(By({"decide", "approve", "reject"}, {}), Both, {"upgrade"})
\* A developer asks, an admin answers and uses the workspace meanwhile.
AskAndAnswer == Of(By({"approve", "reject", "touch"}, {"request"}), Both, {"upgrade"})
\* The runtime fails half way.
HalfDone == [Of(By({"decide", "reject"}, {}), Both, {}) EXCEPT !.disk_fails = TRUE]
\* Two admins work on the same upgrades, one of them in the workspace as well,
\* while calls of the runtime and of the store fail.
Race ==
  [Of(By({"decide"}, {"approve", "touch"}), {"upgrade"}, {"upgrade"})
     EXCEPT !.store_fails = TRUE]

PassingCasts == {AskAndAnswer, OneAdmin, HalfDone, Race}

ASSUME CastsAreTame == \A c \in PassingCasts : Tame(c)
=============================================================================
