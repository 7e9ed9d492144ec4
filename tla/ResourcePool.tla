---------------------------- MODULE ResourcePool ----------------------------
(***************************************************************************)
(* What the resource ledger promises, without its rows and counters: nodes *)
(* offer resources, holders are bound to parts of them, and whoever is     *)
(* given more of a resource is given no more than the node offers beside   *)
(* everything else that is bound there.                                    *)
(***************************************************************************)
EXTENDS Integers, FiniteSets

CONSTANTS Nodes, AllocIds, Resources

VARIABLES
  offer,   \* node -> what it offers
  held     \* holder -> [node, size], for those that hold something

poolVars == <<offer, held>>

\* One element per unit of resource r that is bound on node n.
Units(h, n, r) == UNION {{a} \X (1 .. h[a].size[r]) : a \in {b \in DOMAIN h : h[b].node = n}}

Bound(h, n, r) == Cardinality(Units(h, n, r))

----------------------------------------------------------------------------
Init ==
  /\ offer \in [Nodes -> [Resources -> Nat]]
  /\ DOMAIN held = {}

\* What a node is given more of is there.
Covered(n) ==
  \A r \in Resources : Bound(held', n, r) > Bound(held, n, r) => Bound(held', n, r) <= offer[n][r]

OthersKeep(a) == \A b \in DOMAIN held \ {a} : held'[b] = held[b]

\* A new holder gets all that it asks of one node.
Take(a) ==
  /\ a \notin DOMAIN held
  /\ DOMAIN held' = DOMAIN held \cup {a}
  /\ OthersKeep(a)
  /\ held'[a].node \in Nodes
  /\ Covered(held'[a].node)
  /\ UNCHANGED offer

\* A holder grows or shrinks where it is.
Resize(a) ==
  /\ a \in DOMAIN held
  /\ DOMAIN held' = DOMAIN held
  /\ OthersKeep(a)
  /\ held'[a].node = held[a].node
  /\ Covered(held[a].node)
  /\ UNCHANGED offer

\* Holders give back all they have; the others keep theirs.
GiveBack ==
  /\ DOMAIN held' \subseteq DOMAIN held
  /\ \A b \in DOMAIN held' : held'[b] = held[b]
  /\ UNCHANGED offer

\* A node changes its offer, whatever is bound on it.
Reoffer(n) ==
  /\ offer' = [offer EXCEPT ![n] = offer'[n]]
  /\ UNCHANGED held

Next ==
  \/ \E a \in AllocIds : Take(a) \/ Resize(a)
  \/ GiveBack
  \/ \E n \in Nodes : Reoffer(n)

Spec == Init /\ [][Next]_poolVars
=============================================================================
