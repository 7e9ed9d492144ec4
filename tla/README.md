# ha-cluster: formal models

TLA+ models of ha-cluster: the control plane (`src/cmd/ha-api` and
`src/internal`), how it hands out the capacity of nodes, how a workspace lives
and dies and how it changes its size; and the web console (`src/web/src`), what
its pages show, send and believe while the control plane, other people and the
network do as they please. TLC checks the models on small instances, TLAPS
proves most of the safety properties for every instance: of the ledger, of the life
and the resizing of a workspace, of the session and of the console's pages.

Run TLC with `tlc -config X.cfg MODULE` (the runs are listed below) and the
proofs with `tlapm M.tla` for each module `*_proofs`.

## The system

`ha-api` is one process: HTTP handlers, one goroutine per workspace being
provisioned, and tickers, all over one store (an in-memory store with
snapshots, or postgres). Each node runs `ha-agent`, which drives incus there
and sends heartbeats. There is no lock around a request: each call of the store
or of an agent is atomic or not on its own, and everything else may happen
between two of them.

The console is a React application in the browser. A tab is one event loop: a
handler runs until it awaits, answers come back in any order, and a page may be
left, a dialog closed or a row replaced before they do. Tabs share one
`localStorage`. The server checks every request again, by its own rules.

| Component | State it keeps | Operations | Hard because |
|---|---|---|---|
| Ledger store (`internal/store`) | node rows (ready, allocatable, used), allocation rows | upsert, reserve, activate, release, expand, delete node, delete project | counters and rows must move together under any order of calls |
| Ledger service (`internal/ledger`) | none; the request in progress | Reserve, Release, Expand, Shrink | candidates are listed once and tried later; locked rows are skipped |
| Workspace lifecycle (`internal/service/{service,provision,idle,workspace_health,extra,background}.go`) | workspace rows, the goroutines, the audit entry of a destroy request | create, approve, reject, start, stop, touch, request/skip/approve/reject destroy, platform approval, destroy, delete project; tickers idle, health, stuck, reconcile | read, call, write back the whole row; a launch takes minutes; restarts lose goroutines |
| Resize (`internal/service/service.go`) | spec and pending spec of the row, allocation, instance limits | request, decide, approve, reject | four records updated in sequence, compensation on failure |
| Runtimes and agent (`internal/workspace`, `internal/agent`) | instances on the nodes | launch, start, stop, destroy, resize | calls fail or time out after taking effect |
| Node health (`internal/service/health.go`) | health level of a node row | heartbeat, ticker, reconcile | writes back rows read before probing agents |
| Kubernetes status (`internal/k8s`) | none; the namespace of the cluster | read objects, read events, summarise | two reads of a cluster that moves on |
| Sessions (`providers.ts`, `service.go`, `extra.go`) | tokens in the storage and on the server, the cached identity | login, refresh, logout, identity | tabs share a token that is good once |
| Workspace list of the console | rows, optimistic statuses, dialogs, polling | every lifecycle operation | rows change under a click |
| Pages of the console | list, dialog, form, requests in flight | loads, submits, confirmations | late answers, one dialog for all rows |
| Widgets of the console | what is drawn, timers, animations | gestures, keys, renders | two truths, one drawn and one held |
| Projects, members, invitations | projects, memberships, invitations | create, transfer, invite, accept, patch, delete, budget check | several rows in sequence, check-then-act |
| Accounts | users | register, configure, suspend, delete | whole rows written back, last active admin |
| SSH keys, Ingress, TLS, join tokens, fabric addresses | key rows, routes, certificates, tokens | | modelled as far as a page calls them |
| Snapshot, auth, secretbox, bastion, web shell, packaging, deployment | files, byte streams, pure functions | | out of the models |

`PROJECT.json` lists the components with the modules that model them, and under
`hazards` what in each of them is hard to test, with the property that watches
it or the reason why none does.

What makes each modelled component correct:

- the ledger never promises more than a node has, never loses or doubles a
  charge, and refuses only when there is no room;
- a workspace that its members can use has an active allocation, a destroyed one
  leaves neither capacity nor instance behind, nobody who could have known brings
  it back, and neither a restart nor a failed call keeps capacity or a workspace
  stuck;
- an allocation covers what its row promises and its instance has, and after a
  resize in which nothing failed row, allocation and instance agree;
- a session ends because somebody ended it, every request of a tab ends, and
  what the menu offers the server grants;
- a row of the console shows what the server holds, in the end, and offers what
  the server would do;
- what a person confirms is what was on the screen, for the row it was on the
  screen for; what a widget draws is what it holds.

## Modules

| Module | Models | State ↔ code |
|---|---|---|
| `ResourcePool` | what the ledger promises: holders bound to parts of what nodes offer | `offer`, `held` |
| `LedgerStore` | the two ledger tables, one action per store call | `nodes`, `ready`, `allocatable`, `used` are columns of the node row; `allocs` is the allocation table |
| `Ledger` | concurrent `Reserve` calls over `LedgerStore` | `call[c]` is the local state of one call: `pc` where it stands, the candidate list, the id; `steady` is a history variable (see below) |
| `Workspace` | handlers, provisioning goroutines, tickers and restarts over `LedgerStore` | `ws` the rows, `asked` the `from_status` of the audit log, `guest` the instances, `op[p]` the local variables of a handler or ticker, `prov[a]` those of the goroutine started for allocation `a`, `mishaps` the restarts and failed store calls so far |
| `Resize` | resize requests and approvals over `LedgerStore` | `ws` spec and pending spec, `guest` limits of the instance, `op[h]` local variables |
| `AccessRules` | roles: what the console shows and what the handlers grant | no state |
| `Session` | tabs, tokens, refresh, login and logout, identity | `stored` the storage, `page`, `shown` and `req` per tab, `refreshing` the shared promise, `valid`, `live`, `owner` the tokens of the server |
| `WorkspaceConsole` | the list of workspaces and the handlers behind it | `server.ws` the rows, with the number of times they were written (`rev`, a history variable), `ui.shown` the rows fetched, `ui.row` the state of a `WorkspaceRow`, `ui.fetch` the query, `calls` operations in flight |
| `MachinePage`, `WorkspaceForms`, `ProjectPages`, `MemberPages`, `UsersPage`, `NodesPage`, `SettingsPages`, `AuditPage`, `AuditRows`, `Shell`, `ClusterStatus` | one page or dialog each, with the handlers it calls | `server` the rows, `ui` the React state, `calls` the requests in flight |
| `Pages` | the pages and widgets as scenes of one specification, with the properties that are about all of them | `scene` which one is looked at |
| `Pickers`, `FluidList`, `Questions`, `Sliders`, `Switches`, `Pager`, `Tooltips` | widgets | `server` the page around the widget, which owns the value; `ui` its state and refs |
| `Sidebar` | the collapsible sidebar of the design kit | `server` the mounted providers and what the pointer is over; `ui` the state, refs and pending timers of provider, shell, rail and sheet |
| `CommandMenu` | the command palette of the design kit | `server` the palettes mounted, the tab and the disabled actions; `ui` query, rows, light, rectangles, frames |
| `LedgerStore_proofs`, `Ledger_proofs`, `Workspace_proofs`, `Resize_proofs`, `Session_proofs`, `Console_proofs`, `Pages_proofs`, `PageForms_proofs` | proofs | |
| `MC*` | constants and casts for TLC | |

`LedgerStore` is a refinement of `ResourcePool` (`ImplementsPool`): a pool knows
nothing of rows, counters, states or plans, only how many units of a resource
each holder is bound to, and that whoever is given more gets no more than is
left. The mapping takes what live allocations hold; the counters do not appear
in it, so the refinement says that guards written about counters keep a promise
about allocations.

`Ledger`, `Workspace` and `Resize` EXTEND `LedgerStore` and share its variables.
That the first two change the tables by calls of the store only is read off their
definitions; the proofs use it (`LedgerCallsStore`, for one) to carry what is proved
of the store over to them, and no run spends time on it. Of `Resize` it says
something, and is a property, `StoreSteps`: `StoreNext` allows a shrink only within
the size of the allocation, and what an approval or its compensation subtracts was
computed from a row read earlier. `Resize` meets this where its requests are `Tame`:
upgrades may race, be approved twice and fail at every call; downgrades are asked
for by one person, answered by one, and do not fail.

`Workspace` takes the reservation as one `ReserveOnNode`. `Ledger` shows that
this is what `Reserve` comes down to, and that the rest of it is invisible to
the store.

Operators with a suffix (`TryCandidate_GivesUpEarly`) are mutations: each is
the definition it is named after with a plausible mistake, used to test that a
property notices it.

### Correspondence, by module

**LedgerStore.** The three resources are the keys of a vector, so guards and
counters that the code writes three times are one line. A negative counter is
clamped as in the code. `Units(m, n, r)` is a set with one element per unit of
resource bound by a live allocation; its cardinality is the sum of the live
sizes, in a form TLAPS can reason about without recursion. The two
stores agree on all calls modelled but one: the memory store deletes a node and
its released rows under one lock, postgres drops the released rows first
(`PurgeReleased`) and may then refuse the deletion. A reservation that slips in
between is caught by the foreign key of the allocation, which is the guard of
`DeleteNode`. `UpsertNode` is the upsert of both stores: a row that exists keeps its
counters, one that does not is inserted with those of the caller. A report brings
0; the health ticker writes back the rows it listed before probing the agents
(health.go:17-63), and a node deleted meanwhile comes back with the counters of
that list. `Charges` are the counters it may bring.

**Ledger.** `ReserveBestNode` is the store's own choice, `PickCandidates` the
list, `TryCandidate` one round of the loop, `CheckNode` the `GetNode` that
follows. `CallFails` is any of these calls failing for reasons of its own, a
cancelled context or a lost database; at the `GetNode` it leaves an allocation that
nobody knows, which `Workspace` then follows (`LookUpFails`, `OrphansReclaimed`).
`Backend` selects the ranking of the memory store (a score with
bonuses) or of postgres (`ORDER BY`, `SKIP LOCKED`: any subset of rows may be
locked as long as another call is open). `steady[c]` remembers which nodes have
been eligible in every state since the call began.

**Workspace.** Every call of the store and every call of an agent is a step;
what happens between two calls in the code belongs to the first. `Begin` is the
read at the beginning of a handler; `WriteBack` the full-row write at the end of
those that have one. The row is status and allocation; the node, idle times and
ports are abstracted. A ticker's list of rows is the set `todo`, taken in any
order. `FailGuest` is an agent call that fails, with or without having taken
effect; `cast.agent_fails` says whether a behaviour allows it. A launch may fail in
any cast, and may then leave an instance, up or down: the agent destroys what it
launched only if a later step of the launch fails (incus.go:92), and the goroutine
releases the allocation without destroying anything (service.go:397-404). The two
stores treat a write to a row that is gone differently (an error, or nothing):
either may happen.

Every call of the store may also fail, from a cancelled request or an outage:
`CallFails` is that step of a handler or ticker, and `AfterFailure` what the code
does then: most requests end there, a reservation is given back, both writes of
executeDestroy, the release of the stuck ticker and the audit log go on regardless
(service.go:837, 853), a destroy whose release fails ends and leaves `destroying`
(847). `LookUpFails`, `RestoreBlindly` (a rejection that cannot read the audit log
restores `running`), `HealthReadFails` (a node that cannot be read counts as lost)
and `ProvCallFails` are the places that differ. `cast.mishaps` bounds these failures
and the restarts together. `wipe_project` is the deletion of a project by a platform
admin, which destroys each workspace on the way (extra.go:112, service.go:863-869);
`delete_project` that by its owner, which only puts them up for review.

**Resize.** `decide` is a request by a project admin, which approves itself when
it is an upgrade. `cast.asks` are the kinds of resize asked for, `cast.refuses` those
the runtime may refuse as a whole, `cast.disk_fails` says whether it may fail after it
has set cpu and memory, `cast.store_fails` whether calls of the store may:
`CallFails` ends the request where it is, so that an approval whose row cannot be
written has moved allocation and instance (service.go:617-619), and one that cannot
compensate keeps what it was granted.

**AccessRules.** `permissions.ts`, the access control provider and the menu on
one side, the guards of the handlers behind the pages on the other.

**Session.** `authorizedFetch` sends with the token it reads from the storage;
on 401 it joins the refresh of its tab (`AwaitRefresh`) and tries once more.
`RefreshLookup` and `RefreshRotate` are the two store calls of the server, so
two tabs may both look a token up; whoever deletes it second gets an error
nobody reads. `valid` are access tokens that the server accepts; a changed
role and expiry take them away. Refine's cache of the identity is
`stored.user`, answered at once and corrected behind the scenes.

**WorkspaceConsole.** A click records what the row showed and which write of it
that was (`seen`; the code has no such number, the model needs it to say "the row
has changed": a row may change and change back under an open dialog, and the
server then refuses although the row looks the same again), whether the projects were loaded (`known`), and the row it came from (`live` until that
component is unmounted). `Serve` evaluates the guards of the handler and may answer
"unavailable" all the same, for want of capacity or budget or because an agent or the
store fails; `LeftBehind` is what a handler has written by then (the pending resize
of a failed auto-approval, the first write of a destroy). What a handler leads to
afterwards is left to `Elsewhere` and `FinishDestroy`. The resize dialog of a row
(`OpenResize`, `CloseResize`, `ConfirmResize`, `ResizeReturns`) has a busy flag of its
own, which neither the row nor the page knows of: it may be closed while its request
is under way, and a stop or a destroy of the same row sent meanwhile. It lives in
the button, and is gone with it when the row can no longer be resized. `Poll` is the
timer of `refetchInterval`, `ui.window` the span of fast polling after an operation.

**Pages.** A page module has `server` (the rows its handlers read and write,
with those of their checks that depend on them), `ui` (the React state that
decides what is shown or sent), `calls` (requests in flight: sent, served,
answered) and `cast` (who looks, what they do, how many steps). A handler is
one action up to its `await`, the continuation is another, and the effects a
render runs are part of the action that causes it. Answers of an unmounted
component are taken where the code takes them, and dropped where a `cancelled`
flag or a lost callback drops them. What others do to the rows is an action
where the page reloads them.

- `MachinePage`: `Machine.tsx` with its sections; the form for a domain holds
  zone, prefix mode and port, and may be edited while its question about a
  second port is open; `WorkspaceTerminalDialog` as a socket with frames.
- `WorkspaceForms`: `CreateForm` (selection, capacity query with its cancelled
  flag, submission), `ResizeDialog` (form, preview, confirmation) while the
  list polls and the machine changes size or status; where the row cannot be resized
  the dialog is taken away and comes back as a new one (`Mounted`, `Unmounted`).
  `Classify` is `resizeDeltaKind`, next to the server's own test. The row offers the
  dialog for suspended machines, the server takes them for none (`Offering`,
  `Accepting`); an auto-approval that fails leaves the request pending.
- `ProjectPages`, `MemberPages`, `UsersPage`, `SettingsPages`: lists with one
  dialog for all rows; which effect fills a form, and on which keys.
- `NodesPage`: heartbeats and the ticker (`TickList`, then one `TickWrite` per
  row) on the server; what row, counters and capacity make of it. Ages of
  heartbeats are the three intervals the code tells apart.
- `AuditPage`: each row's way to a page; lists loaded beside the log, or a
  probe before leaving.
- `AuditRows`: what the rows say. `Sites` lists the kinds of rows the handlers
  write, each with the keys of its meta and what they name; a name is a pair of
  what it names and a number that grows with every renaming, and number 0 is a
  person's username. The server decorates a row when the log is read; the console
  prefers its own lists. There is one thing of each type, and two people. Of a
  change of SSH access the values before and after are kept; of other changes,
  that there is one. Rows that differ in their wording only (register and create,
  the five steps of a destroy) are one site.
- `Shell`: drawers, remembered project, agent pack with rotation and clipboard,
  the invitation and the timer behind it.
- `ClusterStatus`: `LoadStatus`, `ServeObjects`, then the events; the cluster
  has one deployment whose sets have one pod each. Its controllers are external
  and modelled as the summary assumes them: they observe, one pass behind, and
  never report a generation they have not seen.
- `Pickers`: a handler with its render and effects is one step; the exit
  animation, the moment a pick stays visible and the frame that marks a scroll
  are steps of their own.
- `FluidList`: `use-fluid-hover` (registered rows, rectangles, the measuring
  and pointing frames) and `use-merge-split` (runs, borders, commit timers).
  Distances, springs and colours are left out.
- `Questions`: digits go to the card that has the focus or, without focus, the
  one that was mounted last; a skip and a revisit keep or drop answers as the code
  does.
- `Sliders`: places are half steps of the track, so that rounding and the
  distance between thumbs matter. In a `calm` cast the springs end before the next gesture, see below.
- `Switches`, `Pager`, `Tooltips`: pixels of the switch; lists of up to seven
  rows; two hints that share a delay.
- `CommandMenu`: the list is rows of headings and actions, filtered and regrouped
  by query and tab; the light is an index into it, as in the code. Frames that
  measure and point, the timer of a tab and the fading of the dialog are steps of
  their own. No page mounts the component yet.
- `Sidebar`: the effects of a render are composed in the order of React, child
  before parent, and the second render that an effect causes is part of the
  step. The pointer is one mouse that is over the page, the trigger, the edge
  strip or the card; a boundary event comes before the move that causes it.
  Widths are pixels, a drag comes as far as four values. The page does not
  take the sidebar away in the middle of a drag, and a provider itself never
  has the focus. Folding groups are left out. No page mounts the component yet.

### Assumptions

- `Workspace`: the runtime is not Kubernetes and every node has an agent;
- a launch is bounded by 15 minutes and the stuck tickers take rows of 20
  minutes, so the goroutine of a row they list is over (`LaunchOver`);
- uuids are fresh; the models set one identity aside per reservation (`IdsLeft`);
  people, known by uuids too, are finitely many (`HandlersFinite`);
- React runs the effects of a render before the next event; a state update of
  an unmounted component is nothing;
- storage, clipboard and timers of the browser work, except where a cast says
  that the clipboard refuses;
- domains differ in their names, and one at least of the ways to take a prefix is
  open (`ZonesAssumption`; `PatchIngressDomainZone` turns both back on for a domain
  without review that has neither, ingress_domains.go:160-163);
- the difference of two sizes on offer is one the tables may be changed by
  (`DifferencesAreDeltas`), roles and statuses are those of the code
  (`RolesAssumption`, `CastsAssumption`), a project's identity is not the console's
  empty one (`ProjectsAssumption`), the pages of settings are the four there are
  (`SettingsAssumption`), a cluster has finitely many nodes and a deployment a
  first template (`ClusterAssumption`), rows of the log bear no name of a list (`AuditAssumption`),
  the log is asked for a number of rows, and who acts is a person (`RowsAssumption`);
  a list to pick from holds something (`ListAssumption`), a set of question cards
  at least one question (`QuestionsAssumption`), one is a member of projects and
  invited to one that exists (`ShellAssumption`).

## Runs

The runs of the control plane check for deadlock. Those of the console do not:
a person may stop, and every cast bounds what he does. `Casts` is a set of
scenarios: which requests the handlers send, which tickers run, what may fail,
how many workspaces and restarts there are; in the console, who looks at what,
and what he and others do. A behaviour draws one of them at the start, so that
one run covers several.

| Run | Properties | Shows |
|---|---|---|
| LedgerStore | TypeOK, LiveOnRegistered, UsedCoversLive, ImplementsPool, DriftHasTwoSources, ReleasedIsFinal | any order of store calls on 2 nodes and 2 allocations, deleted nodes written back by a ticker among them; the store implements the pool |
| Ledger | NoSpuriousRefusal | 2 concurrent calls on postgres, rows locked by the other passed over, failing calls, with node reports, deletions and releases in between |
| LedgerOne | MainsPreferred, ReserveReturns | one call on the memory store, nodes of unequal memory: the scheduling rule, and that Reserve ends |
| WorkspaceCreate | RunningBacked, DestroyedIsFinal | creation and approval with three tickers, failing agents, a restart or a failing store call; destruction of 2 workspaces, and of their project, during provisioning |
| WorkspaceReview | DestroyFreesAllocation, DestroyedLeavesNoInstance, OnlyEarlierReadersRevive | two-level review, rejection and project deletion interleaved, with and without failures; start, stop, touch against destroy and the health ticker; one who decides on the requests of a team; with a restart or a failing store call, but for start against the health ticker |
| WorkspaceLive | OrphansReclaimed, ProvisioningResolves, DestroyCompletes | double approval, a destroy overtaking an approval, failing agents, a restart or a failing store call |
| Resize | SizesAgree, UncoveredOnlyWhileShrinking, StoreSteps | requests and answers, the admin shortcut; upgrades race, are approved twice, are refused or fail half way, with store calls failing |
| Session | StoredRefreshIsLive, OfferedPagesAnswer, RequestsReturn, RoleCatchesUp | visits to the users and to the dangerous approvals; one tab while the role changes; one on a bad network, reloaded at any time; two tabs on one storage; somebody who registers |
| Console | OneAtATime, RefusedOnlyWhenStale, PassingStatusCatchesUp, OptimismEnds | rows seen by owner, admin, viewer and platform admin, with others acting, handlers that fail, the resize dialog beside the row, rows mounted anew, filters, lost answers |
| Pages | nine, one clause per page or widget | twenty scenes, below |

The nine properties of `Pages` are put together from properties
stated in the modules of the scenes; `MCPages` gives each scene its casts:

| Property | Scene: what is stated there |
|---|---|
| ModeAllowed | machine: a domain is asked for in a way its zone allows, whatever order zones, resets and choices come in |
| AnswersFitSelection | forms: capacity shown as settled is that of the selection; members: the candidates offered are those of the project they are added to |
| ConfirmMeansWhatItSays | forms: a confirmed preview takes effect at once exactly when it said so, unless the machine changed, is suspended, or there is no budget; a request that fails changes no size; questions: what a card hands over is acceptable, and typed where the focus was; sidebar: of the providers mounted, nested or beside each other, exactly one answers a key; commands: Enter keeps a row to run, unless a frame looks the pointer up among rows measured earlier or the lit row is disabled in place |
| FormsBelongToTarget | projects, users, settings: values, roles and reasons are saved to the row they were loaded from or typed for |
| SummariesAddUp | nodes: counters, labels and colours tell one story; cluster: panel and server sort events alike, "healthy" means that the template asked for has been ready; rows: a row of the log and the card of who acted call a resource by a name it has or had, or by its id, never by the name of the actor, of another member or of the object of a command; the line about SSH access is there exactly when the two sides read differently; with postgres the cards show the latest login, action and changes |
| OpenedPagesAllowed | audit: rows, stale lists and late probes lead only to pages the role may open |
| CopiedPackWorks | shell: what was copied holds the key that works |
| ClosedHoldsNothing | pickers: nothing typed, picked or put off survives a close |
| DrawnIsHeld | lists, sliders, switches, pager, hints: what is drawn at rest is what is held; sidebar: an open one does not peek, a drag leaves nothing behind, the sheet is there while it is open; commands: no row is listed twice, of the palettes on one key one answers |

Runs that TLC finds violated, each with the statement of the repository it
contradicts (quoted in `PROJECT.json`, `findings`):

| Run | Property | What happens |
|---|---|---|
| WorkspaceStart | DestroyedIsFinal | start reads, destroy completes, start writes `running` |
| UsersSuspend | SuspensionSticks | an admin saves a configuration whose handler read the row before another admin suspended it: the user is active again |

### Where the passing runs stop

A property is checked with every request and failure under which it holds;
those under which it does not are left out of its casts, and this is the list.
Each was seen as a counterexample.

- `RunningBacked`: not with a rejected destroy request of a workspace that was
  never provisioned, which becomes `running` with nothing behind it
  (service.go:808, models.go:262; 07-resource-ledger.md:10 wants an allocation
  for everything handed out); not with stale writes of start, stop or reject
  over a destroy (WorkspaceStart); not with the reconcile ticker, which releases
  an allocation between Reserve and the insertion of its row (extra.go:303),
  after which the goroutine may already have activated it; not with the start of a
  failed workspace, which is closed to nobody and has lost its allocation
  (service.go:904, 933); not when the first write of a destroy fails and the rest
  goes on (service.go:837), so the cast that destroys has no failing store calls.
- `DestroyedIsFinal`: not with start, stop or a rejection racing a destroy.
  `OnlyEarlierReadersRevive` is what is left of it when they do, in every cast of
  its run: who brings the workspace back had read it before the destruction.
- `DestroyedLeavesNoInstance` is about behaviours in which no call of an agent or of
  the store fails and the process does not restart; a launch may still fail, late
  and with an instance left behind. Otherwise: errors of Runtime.Destroy are ignored
  (service.go:844), and a restart between the launch and the reread leaves an
  instance nobody looks at again. It is about rows that are there: an owner's
  deletion of a project drops rows whose instances go on running; and about rows that
  are destroyed: a failed launch that nobody destroys keeps its instance without an
  allocation (against 21-core-pipeline-spec.md:197-199).
- `UsedCoversLive` is an inequality: deleting a project drops live allocations
  and leaves their nodes charged for ever (extra.go:116, memory.go:331, against
  07-resource-ledger.md:179), and the health ticker inserts a node that was
  deleted after its list was read with the counters it had then (health.go:63,
  memory.go:461, postgres.go:462). `DriftHasTwoSources` says that nothing else
  makes them differ.
- `DestroyCompletes`: a destroy that a restart, a cancelled request or a failed
  release interrupts stays `destroying`: nothing resumes executeDestroy
  (service.go:835, 847), and a new request conflicts (service.go:680) unless a
  platform admin destroys. The property is about that one: once somebody works on
  the destruction again and no more calls fail it ends, whatever the attempts before
  had done.
- `SizesAgree`, `UncoveredOnlyWhileShrinking`, `StoreSteps`: of downgrades only those
  of `Tame` casts. Two admins who approve one downgrade (service.go:594), an approval
  repeated because the row could not be written (617), and the compensation of a
  refused one, which is an Expand by a difference that is negative already (611),
  each shrink the allocation a second time, below what the instance has, against
  22-project-machine-concepts.md:178 and 240. When the runtime fails
  at the disk step after setting cpu and memory (incus.go:647) the ledger is rolled
  back and the instance is not; what is said of instances then stops. The
  equality of row, allocation and instance is asked for where nobody overtakes and
  nothing fails: two approvals of one upgrade charge it twice, a failed compensation
  keeps it.
- `CardsShowLatest` (rows, in `SummariesAddUp`): not with the memory store, which
  hands the log out oldest first (memory.go:885), so that the card shows the first
  login and action in it as the latest (format.ts:643, audit-hover.tsx:126).
- `MainsPreferred`: not with postgres, which compares free memory before power
  (postgres.go:578), against 02-architecture.md:172.
- `StoredRefreshIsLive` has two excuses: an answer of the server that was lost
  with the successor token in it, and a refresh under way in any tab. Both are
  what a token that is good once costs.
- `OneAtATime`: per mounted row, and for the resize dialog on its own: its busy flag
  (ResizeDialog.tsx:221) and that of the row know nothing of each other, so a resize
  and a stop of one row may be under way together. A row that is mounted anew has
  forgotten its operation and sends it again, and so does a dialog that is.
- `RefusedOnlyWhenStale`: for those who administer the project. Viewers are
  offered start, stop, destroy and resize and refused; everybody is
  offered to cancel a request, which the server takes from admins only
  (WorkspaceRow.tsx:372 and around). A resize of a suspended workspace is offered to
  all of them (WorkspaceRow.tsx:112) and refused to all (service.go:508).
- `OfferedPagesAnswer` names one page it is not true of: the approvals of dangerous
  operations, for platform_ops (see below).
- `ValueAllowed`, `ThumbsShowValue` (sliders): with springs at rest when a
  gesture begins. Pressing while a thumb still moves takes the value from where
  it is drawn. A typed value may pass the other end of a range.

### Further disagreements

Seen while modelling, described here and not spent a run on:

- a stop accepted during provisioning makes the goroutine release the allocation
  of a workspace that stays `stopped` (service.go:889, 393;
  07-resource-ledger.md:89 says a stopped workspace keeps it), and a destroy
  request during provisioning makes it drop the instance before anybody has
  reviewed the request (service.go:393; models.go:538 says review keeps the
  guest running);
- a launch that fails releases the allocation and destroys nothing
  (service.go:397-404), whatever the agent left running (incus.go:92), and the
  failed workspace may then be started (service.go:904, 933): an instance in use
  with nothing charged for it;
- an admin's upgrade whose approval fails, for want of capacity or because the agent
  does, answers with an error and leaves a request waiting for review
  (service.go:543, 552): the next attempt conflicts;
- `CanApproveDangerousOps` is platform_admin on the server
  (internal/authz/platform.go:17) and includes platform_ops in the console
  (permissions.ts:12-14);
- two tabs that refresh with one token: the loser clears the session the winner
  has stored; a logout during a refresh is undone when the refresh succeeds;
- an open destroy or reject dialog of the list follows its row, and may turn
  from cancelling to destroying on a poll;
- the machine page: a cancelled prompt for a reason rejects all the same
  (Machine.tsx:541); "continue" after the question about a second port sends
  the form as it is by then; older lists of routes overwrite newer ones; the
  server lists routes and inserts afterwards (ingress.go:240);
- Projects: a late success closes the dialog of another row; the page of a
  project shows usage that was asked for the one before. Members: a slow load
  of one project overwrites that of the next, an invitation shown in one
  project is of another; an unticked box is ignored inside a project
  (BatchCreateUsersDialog.tsx:171, 312-336). Users: a new password may be shown
  under another user's name; two admins may demote each other; two first
  registrations both become admins. Nodes: the join command may be of the depot
  chosen before. Dangerous approvals: an answer closes the confirmation of
  another row;
- hooks called after an early return (DockerRegistries.tsx:181,
  IngressDomains.tsx:224, Audit.tsx:344): a role that changes while the page is
  open breaks the render;
- the audit log: a command that printed nothing is shown as one whose output was
  not recorded (internal/api/exec.go:59 writes no key for it, format.ts:610, 629
  looks for one); a `member.add` row is of type membership with the id of the
  project (batch_users.go:149), so it names no member; a changed role of an account
  is written down under keys the summary does not read (users_admin.go:219); a
  transfer of ownership names the actor as the former owner, and takes the role of
  the actor and not of the former owner (extra.go:408, 418, against 382);
- a late probe of the audit log, and the timer of an accepted invitation, move
  the browser although the person has gone elsewhere; the server uses an
  invitation up before it adds the member (extra.go:276);
- a failure of a replica set created between the two reads of a namespace is
  called history (internal/k8s/cluster.go:413), which the panel explains
  otherwise (K8sPanel.tsx:292);
- the sidebar: a pointer that leaves a peek and touches the trigger calls off
  the end of the peek (sidebar-core.tsx:929) while the watcher has already noted
  that it is outside (582), so that the card stays when it leaves again; "the
  state hold keeps the clip off through the spring" (618), and for ever: the
  render that ends the peek cleans up the effect with the timer of the hold
  (`ui.hold` without `ui.holdTimer` in `Sidebar`);
- the command palette: its comment calls "mod+k" and "cmd+k" one key, `comboKey`
  (command-menu.tsx:1386) keeps them apart, so that two palettes may answer one
  press; Enter still runs the lit row while the dialog fades out, so that an action
  may run twice; a suggestion given twice is listed twice.

### Bounds

- `LedgerStore`: 2 nodes, 2 allocations, 2 projects, vectors of at most 2 units.
  Two allocations are needed for an oversale; two nodes to see that calls on
  one leave the other alone. The properties are proved for all values.
- `Ledger`: 2 clients, 2 allocations, 2 nodes: one client can take the node
  another has on its list, and one candidate is left.
- `Workspace`: one node, 1 or 2 workspaces, 1 or 2 allocations, two people with
  one request in flight each, and the tickers each cast names. The conflicts all
  arise between two actors on one row; the second workspace of `Destroyer` and
  the second allocation separate "its allocation" from "any allocation". The
  casts allow no mishap or one, a restart or a failing store call: after a restart
  the process state is the initial one, and a failed call ends what it was part of
  or leaves it one step further, so a second one meets rows of the same kinds.
- `Charges`: in `LedgerStore` and `Ledger` counters of 0 or of one unit of each, enough
  to come back with too much; in `Workspace` 0, as no node is deleted there.
- `Resize`: 2 workspaces on one node with room for one upgrade at a time, 4
  sizes in which cpu, memory and disk differ; four casts: one who asks and one who
  answers, an admin on his own, a runtime that fails half way, and two admins racing
  on upgrades while calls fail without a bound.
- `Session`: one person, `MaxTokens` = 4 pairs of tokens: the one in use, one
  or two rotations, a login afterwards. Two requests at once in a tab suffice
  for one to begin the refresh and one to join it; a third would join as the
  second does. Tabs only meet in the storage and on the server, so two of them
  show what any number does.
- `WorkspaceConsole`: `MaxSteps` = 3 clicks, changes by others and losses: one
  to begin an operation, one to overtake it, one more. Two rows where rows are
  told apart, one elsewhere; two slots where two things of one row may be under way.
  Answers of "unavailable" are not counted.
- Pages: two requests in flight (one late, one that overtakes it), two or three
  rows (the one a dialog was opened for, the one it is opened for next), and
  `steps` things a person does: enough to open, fill, close, open elsewhere and
  confirm. Answers and the server's steps are not counted. The pager has lists
  of 0 to 7 rows in pages of 1 and 3, so that the window of page numbers is cut
  at both ends; the sliders tracks of 3 values; the sidebar up to nine events
  with any timers between them, among four providers.
- Rows of the log: the list holds three rows, of up to four, so that the first is
  cut off; one cast writes each kind of row and renames or reloads around it.
- Symmetry (`Permutations` of identities that no constant tells apart) only in
  runs without liveness properties.

### Fairness

`LedgerSpec`: a goroutine inside Reserve is scheduled until it returns.
`LifeSpec`: a request once begun continues as long as its calls succeed,
goroutines run, tickers tick (`time.Ticker` loops in background.go); a call that
fails is a step of its own that nothing has to take. Nothing is assumed of people
(nobody has to send a request, and one who does may go away), of nodes (nobody has
to report) or of the agents (a call may fail every time). All of this is weak.

`Session`: browser and network end every call, with an answer or an error, and
the event loop runs what is due (weak, per request and per refresh). That a
person keeps using the menu, which asks who he is, is strong: the question may
be put any number of times between other requests of the tab. Only
`RoleCatchesUp` needs it. `WorkspaceConsole`: calls end, the polling timer
fires and its answers are taken; nothing is assumed of people, nor that the server
ends a destruction it has begun. The other pages have no liveness property and
state no fairness.

## Proofs

`LedgerStore_proofs` (for any sets of nodes, projects, allocations, plans):

1. `TypeCorrect`: `TypeOK` is an invariant.
2. `Invariance`: the inductive invariant, `TypeOK`, `LiveOnRegistered` and
   `UsedCoversLive`. The last two need each other: a release or a deletion only
   keeps `used` above the sum if live allocations name registered nodes, whose
   counters a new registration does not reset. `UsedCoversLive` compares a
   counter with the cardinality of `Units`, so the lemmas are about what one
   changed allocation does to that set: granting adds a disjoint block, releasing
   removes one, resizing exchanges one.
3. `NeverOversells`, `CountersFollowRows`, `ReleasedStaysReleased`:
   action properties, from the invariant, one step per action. `CountersFollowRows`
   compares what a counter holds beyond its rows before and after each call, for any
   counters the ticker may bring back.
4. `StoreImplementsPool`: the initial states of the store are initial states of
   the pool, and each call maps to `Take`, `Resize`, `GiveBack`, `Reoffer` or a
   stutter. That `Take` and `Resize` stay within what is offered is where the
   invariant is needed: the guard of the store is about `used`, the promise of
   the pool about what is held, and `UsedCoversLive` lies between them. A
   deletion of a project gives several holders' parts back at once.

`Ledger_proofs` (for any clients, requests, nodes, both backends):

5. `ReserveNeverOversells`: what is proved of the store holds of it under concurrent
   `Reserve` calls, failing ones included.
6. `RefusalsAreJustified`: a refused call has no node that could serve it all
   along. The inductive invariant: while a call walks its candidate list, every
   steady node is still on it. A candidate is dropped only when it
   does not fit or is not ready, and at that moment it is not steady any more.
7. `MainsComeFirst`, for the memory store and nodes with less memory than the bonus
   for mains exceeds that for batteries (1 TiB less 1 GiB, memory.go:591-594): of the
   nodes that fit, one with the best score is on mains if any is. The invariant
   `Offers` says that what a node offers is what some report said, so its free
   memory, the rest of the score, is below the bonus. With postgres, which ranks
   free memory first, the rule is false.

`Workspace_proofs` (for any workspaces, people, casts, restarts and failing calls):

8. `LifeTypeCorrect`: the invariant `LifeTypeOK` says of every handler, ticker
   and goroutine what its local variables are at each place of its code: a
   workspace where it writes one, a row it has read where it writes that back, a
   list of allocations where it sweeps them. One lemma per request, ticker and
   step of the goroutine. With it `LifeNeverOversells`: each call of the ledger has
   arguments the store is made for.
9. `DestroyFreesCapacity`: the invariant `FreedOK` extends the property from the
   stored rows to the copies on their way to the store, since a handler may
   write back a "destroyed" row it read earlier, and to `executeDestroy` between
   its release and its last write, which a release that failed does not reach. It
   survives because free capacity a row names is never bound again: a reservation
   takes an identity no row and no copy names, which is what `FreshAllocs` says of
   uuids.
10. `RevivalsAreOldReads`: the invariant `ReadersOK` says that every copy of a row
    which somebody is going to write back with a status of life was read while nobody
    was destroying it (`Early`), and that what is being created is not there yet and
    created by one request only (`CreatesApart`). Most steps follow from `OpsFollow`
    (nobody starts to create, everybody holds what he held or an early row) and
    `NoRowAppears`; one lemma per step says so. The provisioning goroutine and the
    stuck ticker do not come into it, since their writes depend on the status of the
    moment. No cast is excluded, and the starts that break `DestroyedIsFinal` are
    among the old readers it names.

`Resize_proofs` (for any workspaces, nodes, sizes and finitely many people):

11. `ResizeTypeCorrect`, in any cast: a downgrade applied twice stops at 0.
12. `UpgradesArePaidFor`, `UpgradesStayWithinStore`, `UpgradesNeverOversell`, for casts
    that ask for upgrades only and are otherwise free: people approve one request
    twice, write back rows read before, compensate, and fail at any call. The
    invariant `UInv` says that the allocation covers the row, every copy of it that
    may be written back, and the instance, each plus what the approvals under way
    have added and not yet passed on (`SparesAll`; `Out` counts the shares of those
    approvals as `Charged` counts units, so that a compensation can give its own share
    back and no more). `DeltaLeadsThere` says that adding the difference of two sizes
    leads to the other size and never below 0, where the ledger would cut it off. Of
    downgrades none of this is true in a race, see above.

`Session_proofs` (for any tabs, slots, users, roles):

13. `SessionTypeCorrect`.
14. `StoredRefreshStaysLive`. A token is pending while an answer carries it that no
    tab has taken. The invariant says that a pending token is good and known to
    nobody else (`Untouched`), and that no two answers carry the same one; so the
    token another tab, a logout or a second refresh uses up is a different one.
15. `OfferedPagesDoAnswer`, for any pages and roles: what the menu shows is refused only
    after the role has changed, but for the dangerous approvals, which it shows to
    platform_ops and the server refuses to them (permissions.ts:12-14).

`Console_proofs` (for any rows, slots, casts and number of steps):

16. `ConsoleTypeCorrect` and `RowsWaitForOne`: an operation that is awaited belongs to a
    mounted row that waits for it, and closes the dialog that sent it; a resize that is
    awaited is the only one of its dialog.
17. `RefusalsMeanChange`. The copies of a row are ordered by age: what a dialog was
    opened on is no newer than what the list shows, that no newer than the answer on
    its way, that no newer than what the server holds. If first and last are the
    same, so are those between, and buttons and guards agree, except about the resize of
    a suspended workspace. The proof needed `rev`: by status alone the property is false
    after 8 steps, when a row has changed and changed back under an open dialog.

`Pages_proofs` and `PageForms_proofs` (for any casts and any number of steps; an
invariant of a page is one of its scene, and `SceneSteps` says that a step of the
composition is one of the page that is looked at):

18. `CopiedPacksWork` (shell): one request for a pack is under way at a time, and
    what the clipboard holds is the key of the last answer or its request is not over.
19. `FormsAskInAnAllowedWay` (machine): whatever answers, resets and choices do, a
    form that names a listed zone asks in a way this zone allows, and so does every
    call that carries a form.
20. `SummariesStayTrue` (nodes, cluster, rows). Nodes: every row, and every copy in an
    answer or in the ticker's hands, is ready exactly when it is healthy, so the
    counters part the list (`PartsAddUp`, from the library's facts on cardinality).
    Cluster: while the controller has seen the asked generation, counts without
    unavailable pods mean that all pods are ready (`AllReady`), that of the asked
    template among them; what was read then stays true of what has been.
    Rows, for logs of any length: `SitesTold` goes through the places that write a row
    and says that under the keys asked for by its type (`Asks`) each writes what the row
    is about; the keys any type falls back on may name something else only where the
    type does not fall back, or has a key of its own that always has a value. `RowOK`
    carries this through the server's choice of a name, together with what makes the
    line of a change exact: both sides are as `NormalizeMembershipSSH` leaves them
    (`Stored`), where different accesses read differently. The numbers of the rows fall
    down the list (`NewestFirst`), as they do from postgres alone, and so the first row
    a card finds is the latest.
21. `AnswersFitTheSelection` (forms, members): a query that was not cancelled is
    about the selection of the moment, and belongs to the dialog and project it was
    sent for.
22. `LogLeadsWhereAllowed` (audit): what the page remembers as known, a list on its
    way and a probe that answered yes are about rows the account may open
    (`KnownIsOpen`); a row that goes away takes nothing back.
23. `FormsReachTheirTarget` (projects, users, settings): the fields are those of the
    project shown unless a dialog covers them; the role is that of the account that
    is configured, since the effects of every step end with the read of it; a
    reason stands only while the confirmation it was typed in is open.
24. `PickersStartAfresh` (pickers): a close that is put off belongs to the opening it was
    put off in, and nothing that was typed outlives it.

The assumptions are the named ASSUMEs of the modules: allocation identities and
nodes are finite sets, "no row" is no row, inputs have their types, and those
listed above for the console. TLC evaluates them in the runs.

Only model-checked:

- `RunningBacked`, `DestroyedIsFinal` and `DestroyedLeavesNoInstance`, in the casts of
  their runs: they need a table of who may hold which copy of a row, per cast;
- `SizesAgree` as an equality, and what `StoreSteps` and `UncoveredOnlyWhileShrinking`
  say of downgrades;
- all liveness (`ReserveReturns`, `OrphansReclaimed`, `ProvisioningResolves`, `DestroyCompletes`,
  `RequestsReturn`, `RoleCatchesUp`, `PassingStatusCatchesUp`, `OptimismEnds`),
  which is out of the prover's reach, as is ENABLED;
- `ConfirmMeansWhatItSays` and `DrawnIsHeld`: partly about lists that are folded and
  sorted (rows of fluid lists, groups of commands), which is induction over data, and
  about one widget each in the rest of their clauses.

## Not modelled

- The parts of the control plane that are byte streams, files or cryptography:
  bastion, web shell, agent packages, snapshot, authentication primitives,
  secretbox, deployment. They keep no state that others rely on, or none that
  can be checked without their contents.
- TLS issue and renewal, join tokens and static addresses, the key lists in
  instances: their pages are modelled, their own handlers only as calls that
  succeed or fail.
- Kubernetes beyond the status of a namespace: manifests, quotas, kubeconfigs.
- In the console: wording, layout, styles, springs and colours, and the parts of
  the design kit that no page uses (colour picker, menus and groups of the sidebar,
  message input, accordion, tabs). Slider, question cards, the sidebar and the merging
  of selected rows are modelled although few pages reach them yet, because they
  keep state in refs and timers.
- The contents of messages, audit entries other than the one a rejection reads,
  exec, metrics.
- Checks that follow a read without a transaction and guarantee nothing (the
  budget of a project, the last platform admin): listed under `hazards`.

## Plan

Done: the ledger and its refinement, workspaces, resizes, the session, the pages
and widgets of the console; proofs of most safety properties. Next, in this order:

1. Proofs of `RunningBacked` for casts in which one person decides, with failing calls;
   of `SizesAgree` for downgrades that do not race.
2. Of `ConfirmMeansWhatItSays` the part about forms: what a preview was computed
   from and when the page forgets it.
3. `SSHKeys` (concurrent synchronisations): no key of a former member once all
   synchronisations are over.
4. `Ingress` on the server, composed with the destruction of a workspace.
5. `Snapshot`, `TlsRenewal`: restarts.
