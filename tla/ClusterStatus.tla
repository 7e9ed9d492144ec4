---------------------------- MODULE ClusterStatus ----------------------------
(***************************************************************************)
(* What the panel of a Kubernetes machine says of its namespace.  The      *)
(* server reads the objects, then the events, and sorts the events into    *)
(* those that matter now and history; the panel sorts them again, and says *)
(* that all is well.  The cluster, here one deployment whose sets have one *)
(* pod each, rolls out, scales, fails and recovers meanwhile; its status   *)
(* is as old as its controller's last pass.                                *)
(***************************************************************************)
EXTENDS Integers, FiniteSets

CONSTANTS Revisions,  \* 1..n: the templates of the deployment, each with its set
          Slots,
          Casts       \* records [missing: containers without requests, does, steps]

VARIABLES server,     \* the cluster: revision, desired, lag, sets, status, events
          ui, calls, cast

vars == <<server, ui, calls, cast>>

NoSet == [there |-> FALSE, desired |-> 0, pod |-> "none", was |-> FALSE]
EmptyStatus == [objects |-> {}, sets |-> {}, events |-> {}, ready |-> 0, warnings |-> {}, history |-> {}]
NoCall == [st |-> "idle", read |-> EmptyStatus]

Init ==
  /\ cast \in Casts
  /\ server = [revision |-> 1, desired |-> 1, lag |-> TRUE, events |-> {},
               sets |-> [r \in Revisions |-> NoSet], status |-> [total |-> 0, updated |-> 0, ready |-> 0]]
  /\ ui = [status |-> EmptyStatus, loading |-> TRUE, left |-> cast.steps]
  /\ calls \in {[c \in Slots |-> IF c = first THEN [NoCall EXCEPT !.st = "sent"] ELSE NoCall] : first \in Slots}

Acts == ui.left > 0 /\ ui' = [ui EXCEPT !.left = @ - 1]

(* The cluster *)

\* A new template, or another number of pods: the generation is ahead of the
\* controller until its next pass.
Rollout ==
  /\ Acts /\ server.revision + 1 \in Revisions
  /\ server' = [server EXCEPT !.revision = @ + 1, !.lag = TRUE]
  /\ UNCHANGED <<calls, cast>>

Scale ==
  /\ Acts /\ "scale" \in cast.does
  /\ server' = [server EXCEPT !.desired = 1 - @, !.lag = TRUE]
  /\ UNCHANGED <<calls, cast>>

\* The controller's pass: the old set goes once the new one is ready.
Sync ==
  LET now == server.revision
      next == [r \in Revisions |->
                 IF r = now THEN [server.sets[r] EXCEPT !.there = TRUE, !.desired = server.desired]
                 ELSE IF server.desired = 0 \/ server.sets[now].pod = "Ready"
                 THEN [server.sets[r] EXCEPT !.desired = 0] ELSE server.sets[r]]
      passed == [server EXCEPT !.lag = FALSE, !.sets = next, !.status =
                   [total |-> Cardinality({r \in Revisions : next[r].pod # "none"}),
                    updated |-> IF next[now].pod # "none" THEN 1 ELSE 0,
                    ready |-> Cardinality({r \in Revisions : next[r].pod = "Ready"})]]
  IN /\ passed # server /\ server' = passed
     /\ UNCHANGED <<ui, calls, cast>>

SetWorks(r) ==
  LET set == server.sets[r] IN
  /\ set.there /\ (set.desired = 1) = (set.pod = "none")
  /\ server' = [server EXCEPT !.sets[r].pod = IF @ = "none" THEN "Waiting" ELSE "none"]
  /\ UNCHANGED <<ui, calls, cast>>

SetFails(r) ==
  /\ Acts /\ server.sets[r].desired = 1 /\ server.sets[r].pod = "none"
  /\ server' = [server EXCEPT !.events = @ \cup {<<"replicaset", r>>}]
  /\ UNCHANGED <<calls, cast>>

PodMoves(r) ==
  /\ server.sets[r].pod \in {"Waiting", "Stuck", "Started"}
  /\ server' = [server EXCEPT !.sets[r].pod = IF @ = "Started" THEN "Ready" ELSE "Started",
                               !.sets[r].was = @ \/ server.sets[r].pod = "Started"]
  /\ UNCHANGED <<ui, calls, cast>>

PodFails(r) ==
  /\ Acts
  /\ \E phase \in CASE server.sets[r].pod = "Waiting" -> {"Stuck"} [] server.sets[r].pod = "Started" -> {"Failed"}
                   [] server.sets[r].pod = "Ready" -> {"Started", "Failed"} [] OTHER -> {} :
       server' = [server EXCEPT !.sets[r].pod = phase, !.events = @ \cup {<<"pod", r>>}]
  /\ UNCHANGED <<calls, cast>>

\* Warnings about the deployment and about something else; events expire.
Warn(event) ==
  /\ Acts /\ "warn" \in cast.does
  /\ server' = [server EXCEPT !.events = IF event \in @ THEN @ \ {event} ELSE @ \cup {event}]
  /\ UNCHANGED <<calls, cast>>

(* The server: kubectl get for the objects, kubectl get for the events *)

Listed(r) == server.sets[r].there

RolledOut_IgnoresUnavailable(d) == d.desired > 0 => d.ready >= d.desired /\ d.updated >= d.desired

\* Not "rolling".
RolledOut(d) ==
  /\ d.total <= d.ready                                              \* unavailable > 0
  /\ d.desired > 0 => d.ready >= d.desired /\ d.updated >= d.desired
  /\ ~d.lag
Active(set) == set.desired > 0 \/ set.pod # "none"
DeploymentReady(d) == d.desired > 0 /\ d.ready >= d.desired /\ RolledOut(d)

\* Objects: the deployment, and the sets by revision, as listed; "was" stays behind.
ReadObjects ==
  [deployment |-> [desired |-> server.desired, lag |-> server.lag, missing |-> cast.missing,
                   total |-> server.status.total, updated |-> server.status.updated, ready |-> server.status.ready],
   sets |-> [r \in {q \in Revisions : Listed(q)} |-> [desired |-> server.sets[r].desired, pod |-> server.sets[r].pod]],
   truth |-> [revision |-> server.revision, was |-> server.sets[server.revision].was]]

\* eventIsStale of the server.
Stale(o, event) ==
  LET r == event[2] IN
  CASE event[1] = "replicaset" -> r \in DOMAIN o.sets => ~Active(o.sets[r])
    [] event[1] = "pod" -> r \in DOMAIN o.sets => o.sets[r].pod \in {"none", "Ready"}
    [] event[1] = "deployment" -> DeploymentReady(o.deployment) /\ ~o.deployment.missing
    [] OTHER -> /\ ~o.deployment.missing /\ RolledOut(o.deployment)
                /\ \A q \in DOMAIN o.sets : o.sets[q].pod \in {"none", "Ready"}

\* finalizeStatus: what it counts, and the lines it writes; a pod waits with a
\* line only if it has a reason to.
Finalize(o, events) ==
  LET d == o.deployment
      stale == {e \in events : Stale(o, e)}
  IN [objects |-> {o}, sets |-> {<<r, Active(o.sets[r])>> : r \in DOMAIN o.sets},
      events |-> {<<e, e \in stale>> : e \in events},
      ready |-> IF DeploymentReady(d) THEN 1 ELSE 0,
      warnings |-> (events \ stale)
        \cup (IF d.missing THEN {<<"requests", 0>>} ELSE {})
        \cup (IF d.desired > 0 /\ d.ready < d.desired THEN {<<"unfinished", 0>>} ELSE {})
        \cup {<<"waits", r>> : r \in {q \in DOMAIN o.sets : o.sets[q].pod \in {"Stuck", "Failed"}}},
      history |-> stale]

ServeObjects(c) ==
  /\ calls[c].st = "sent"
  /\ calls' = [calls EXCEPT ![c] = [st |-> "listed", read |-> ReadObjects]]
  /\ UNCHANGED <<server, ui, cast>>

(* The panel *)

\* The panel loads when it opens; the button is disabled while a load is out.
LoadStatus(c) ==
  /\ ui.left > 0 /\ calls[c].st = "idle" /\ ~ui.loading
  /\ ui' = [ui EXCEPT !.left = @ - 1, !.loading = TRUE]
  /\ calls' = [calls EXCEPT ![c].st = "sent"]
  /\ UNCHANGED <<server, cast>>

\* The events, whose failure is ignored, and the answer, which nothing disturbs on
\* its way; EmptyStatus: the call or its first read failed.
StatusReturns(c) ==
  /\ calls[c].st = "listed"
  /\ \E status \in {EmptyStatus} \cup {Finalize(calls[c].read, events) : events \in {server.events, {}}} :
       ui' = [ui EXCEPT !.status = status, !.loading = FALSE]
  /\ calls' = [calls EXCEPT ![c] = NoCall]
  /\ UNCHANGED <<server, cast>>

EventIsStale_ByName(event, marked, sets) == marked \/ (event[1] = "replicaset" /\ <<event[2], TRUE>> \in sets)

\* eventIsStale of the panel: the server's mark, or a set it has no row for or one
\* that is not active.
EventIsStale(event, marked, sets) == marked \/ (event[1] = "replicaset" /\ <<event[2], TRUE>> \notin sets)

WarningEvents == {e \in ui.status.events : ~EventIsStale(e[1], e[2], ui.status.sets)}
HistoryEvents == {e \in ui.status.events : EventIsStale(e[1], e[2], ui.status.sets)}
HistoryNotes == IF ui.status.history # {} THEN ui.status.history ELSE {e[1] : e \in HistoryEvents}
FailedPods == {o \in ui.status.objects : \E r \in DOMAIN o.sets : o.sets[r].pod = "Failed"}
Healthy ==
  /\ ui.status.objects # {} /\ ui.status.ready = 1
  /\ FailedPods = {} /\ ui.status.warnings = {} /\ WarningEvents = {}

Next ==
  \/ Rollout \/ Scale \/ Sync
  \/ \E r \in Revisions : SetWorks(r) \/ SetFails(r) \/ PodMoves(r) \/ PodFails(r)
  \/ \E event \in {<<"deployment", 0>>, <<"claim", 0>>} : Warn(event)
  \/ \E c \in Slots : LoadStatus(c) \/ ServeObjects(c) \/ StatusReturns(c)

----------------------------------------------------------------------------
\* The panel and the server sort the events alike: the table of current events has
\* those the server warns of, the table of history those it calls history, and no
\* note of the past is missing.
EventsSortedAlike ==
  /\ {e[1] : e \in WarningEvents} \subseteq ui.status.warnings
  /\ {e[1] : e \in HistoryEvents} = ui.status.history /\ HistoryNotes = ui.status.history

\* "The current generation is ready" (K8sPanel.tsx): when the panel says so, the set
\* of the template that was asked for when the objects were read has been ready,
\* however old the controller's counts were.
HealthyMeansRolledOut == Healthy => \A o \in ui.status.objects : o.truth.was
=============================================================================
