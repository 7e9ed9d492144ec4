---------------------------- MODULE MCWorkspace ----------------------------
(* One node that holds two small workspaces.                               *)
EXTENDS Workspace, TLC

CONSTANTS n1, p1, h1, h2

Small == [r \in Resources |-> 1]

MCCapacities == {[r \in Resources |-> 2]}
MCPlans == {Small}
MCDeltas == {}
MCCharges == {ZeroVector}
MCProjectOf == [w \in Workspaces |-> p1]
MCPlanOf == [w \in Workspaces |-> Small]

By(first, second) == (h1 :> first) @@ (h2 :> second)

Of(does, tickers, agentFails, rows, failures) ==
  [does |-> does, tickers |-> tickers, agent_fails |-> agentFails,
   rows |-> rows, mishaps |-> failures]

\* One project admin decides; a member asks and connects.
OneAdmin ==
  Of(By({"create", "approve", "reject"}, {"create", "request", "touch"}),
     {"idle", "stuck", "health"}, TRUE, 1, 1)
\* A platform admin destroys what a project admin creates, and its project.
\* No call of the store fails here: executeDestroy goes on when its first
\* write does, and then frees the capacity of a row that still says "running".
Destroyer ==
  Of(By({"create"}, {"destroy", "approve_platform", "wipe_project"}), {"stuck"},
     FALSE, 2, 0)
\* Destroy requests, their reviews on both levels, deletion of the project: where
\* everything may fail, and where nothing does.
Reviewers(failures) ==
  Of(By({"create", "skip_destroy", "approve_destroy", "reject_destroy",
         "approve_platform"}, {"ask_destroy", "delete_project"}),
     {}, failures > 0, 1, failures)
\* Members use an instance while an admin destroys it, and the ticker looks at it.
Switchers(uses, tickers, failures) ==
  Of(By({"create", "destroy"}, uses), tickers, FALSE, 1, failures)
\* One admin decides on the requests of a team, and is the only one who ends them.
Decider ==
  Of(By({"request", "approve", "reject", "destroy"}, {"create", "stop", "touch"}),
     {"stuck", "health"}, FALSE, 1, 1)
\* Two admins decide on the same request.
TwoAdmins ==
  Of(By({"request", "approve"}, {"approve"}), {"reconcile"}, TRUE, 1, 1)
\* A platform admin destroys while the request is being approved.
Latecomer ==
  Of(By({"request", "approve"}, {"destroy"}), {"stuck", "reconcile"}, FALSE, 1, 1)
\* Two people and nobody else, for the counterexample.
Pair(first, second) == Of(By(first, second), {}, FALSE, 1, 0)

CreateCasts == {OneAdmin, Destroyer}
ReviewCasts ==
  {Reviewers(1), Reviewers(0), Switchers({"stop", "start", "touch"}, {}, 1),
   Switchers({"start"}, {"health"}, 0), Decider}
LiveCasts == {TwoAdmins, Latecomer}
StartCasts == {Pair({"create", "destroy"}, {"start"})}

Symmetric == Permutations(AllocIds) \cup Permutations(Workspaces)
=============================================================================
