------------------------------- MODULE Pages -------------------------------
(***************************************************************************)
(* The pages, dialogs and widgets of the console, one scene each.  A scene *)
(* is one page with the handlers it calls, looked at by a few casts; the   *)
(* scenes share the names of their variables and nothing else.             *)
(***************************************************************************)
EXTENDS Integers, Sequences, FiniteSets

CONSTANTS Scenes,  \* the scenes of this run
          Casts,   \* function: scene -> the casts of its page, records its module describes
          Slots,   \* the calls a page may have under way
          Me       \* who looks at the pages of members and users

\* What the pages are about and what their widgets hold, as their modules say.
CONSTANTS MachinePorts, MachineZones, FormsChoices, FormsSizes, PageProjects,
          MembersProjects, MembersPeople, UsersPeople, PageNodes, SettingsRows, AuditLogs,
          ShellProjects, ShellMaxKey, ClusterRevisions, ClusterSlots
CONSTANTS PickersItems, PickersQueries, PickersDisabled, PickersMatches, FluidRows, FluidPoints,
          QuestionsCards, SlidersScale, SlidersHalfThumb, SwitchesDeltas, PagerSizes,
          PagerLengths, TooltipsHints, BarElements, BarInside, BarProviders, BarOwn, BarWidth,
          BarDrags, PaletteDialogs, PaletteOwn, PaletteCombo, PaletteItems, PaletteGroup,
          PaletteTabs, PaletteTabOf, PaletteQueries, PaletteMatches

\* The domains of a platform differ in their names, and each allows one way at
\* least to take a prefix (PatchIngressDomainZone turns both back on for a domain
\* without review that has neither).
ASSUME ZonesAssumption ==
  /\ \A y, z \in MachineZones : y.id = z.id => y = z
  /\ \A z \in MachineZones : z.review \/ z.random \/ z.custom
  /\ \A c \in Casts["machine"] : c.zones \in Seq(MachineZones)

\* A cluster has finitely many nodes; a deployment has its first template, and finitely many.
ASSUME ClusterAssumption ==
  /\ IsFiniteSet(PageNodes)
  /\ IsFiniteSet(ClusterRevisions) /\ 1 \in ClusterRevisions

ASSUME ProjectsAssumption == "none" \notin PageProjects

\* The four pages that are built alike.
ASSUME SettingsAssumption ==
  \A c \in Casts["settings"] : c.page \in {"registries", "domains", "keys", "dangerous"}

\* Rows of the log are no names of pages or lists.
ASSUME AuditAssumption ==
  /\ AuditLogs \cap {"audit", "alive", "reconcile", "elsewhere", "none"} = {}
  /\ \A c \in Casts["audit"] : c.steps \in Nat

\* The log is asked for a number of rows; whoever acts is a person.
ASSUME RowsAssumption ==
  \A c \in Casts["rows"] : c.limit \in Nat /\ c.who \subseteq {"user", "staff"} /\ c.steps \in Nat

\* A list to pick from holds something.
ASSUME ListAssumption == PickersItems \in Seq(STRING) /\ PickersItems # <<>>

\* A card of questions asks one at least, and no card has the name of the page.
ASSUME QuestionsAssumption ==
  /\ \A c \in Casts["questions"] : Len(c.questions) \in Nat \ {0}
  /\ QuestionsCards # {} /\ "none" \notin QuestionsCards

ASSUME ShellAssumption ==
  \A c \in Casts["shell"] :
    c.member \subseteq ShellProjects /\ c.invited \in ShellProjects \cup {"none"} /\ c.steps \in Nat

VARIABLES scene, server, ui, calls, cast

vars == <<scene, server, ui, calls, cast>>

Machine ==
  INSTANCE MachinePage WITH Ports <- MachinePorts, Zones <- MachineZones, Casts <- Casts["machine"]
Forms ==
  INSTANCE WorkspaceForms WITH Choices <- FormsChoices, Sizes <- FormsSizes, Casts <- Casts["forms"]
ProjectsPage ==
  INSTANCE ProjectPages WITH Projects <- PageProjects, Casts <- Casts["projects"]
Members ==
  INSTANCE MemberPages WITH Projects <- MembersProjects, People <- MembersPeople, Casts <- Casts["members"]
Users ==
  INSTANCE UsersPage WITH People <- UsersPeople, Casts <- Casts["users"]
NodesAndCapacity ==
  INSTANCE NodesPage WITH Nodes <- PageNodes, Casts <- Casts["nodes"]
Settings ==
  INSTANCE SettingsPages WITH Rows <- SettingsRows, Casts <- Casts["settings"]
Audit ==
  INSTANCE AuditPage WITH Logs <- AuditLogs, Casts <- Casts["audit"]
LogRows ==
  INSTANCE AuditRows WITH Casts <- Casts["rows"]
Around ==
  INSTANCE Shell WITH Projects <- ShellProjects, MaxKey <- ShellMaxKey, Casts <- Casts["shell"]
Choosing ==
  INSTANCE Pickers WITH Items <- PickersItems, Queries <- PickersQueries, Disabled <- PickersDisabled,
    Matches <- PickersMatches, Casts <- Casts["pickers"]
Listing ==
  INSTANCE FluidList WITH Rows <- FluidRows, Points <- FluidPoints, Casts <- Casts["lists"]
Asking ==
  INSTANCE Questions WITH Cards <- QuestionsCards, Casts <- Casts["questions"]
Sliding ==
  INSTANCE Sliders WITH Scale <- SlidersScale, HalfThumb <- SlidersHalfThumb, Casts <- Casts["sliders"]
Switching ==
  INSTANCE Switches WITH Deltas <- SwitchesDeltas, Casts <- Casts["switches"]
Paging ==
  INSTANCE Pager WITH Sizes <- PagerSizes, Lengths <- PagerLengths, Casts <- Casts["pager"]
Hinting ==
  INSTANCE Tooltips WITH Hints <- TooltipsHints, Casts <- Casts["hints"]
Collapsing ==
  INSTANCE Sidebar WITH Elements <- BarElements, Inside <- BarInside, Providers <- BarProviders, Own <- BarOwn,
    Width <- BarWidth, Drags <- BarDrags, Casts <- Casts["sidebar"]
Commanding ==
  INSTANCE CommandMenu WITH Dialogs <- PaletteDialogs, Own <- PaletteOwn, Combo <- PaletteCombo,
    Items <- PaletteItems, Group <- PaletteGroup, Tabs <- PaletteTabs, TabOf <- PaletteTabOf,
    Queries <- PaletteQueries, Matches <- PaletteMatches, Casts <- Casts["commands"]
Cluster ==
  INSTANCE ClusterStatus WITH Revisions <- ClusterRevisions, Slots <- ClusterSlots, Casts <- Casts["cluster"]

----------------------------------------------------------------------------
Init ==
  /\ scene \in Scenes
  /\ \/ scene = "machine" /\ Machine!Init
     \/ scene = "forms" /\ Forms!Init
     \/ scene = "projects" /\ ProjectsPage!Init
     \/ scene = "members" /\ Members!Init
     \/ scene = "users" /\ Users!Init
     \/ scene = "nodes" /\ NodesAndCapacity!Init
     \/ scene = "settings" /\ Settings!Init
     \/ scene = "audit" /\ Audit!Init
     \/ scene = "rows" /\ LogRows!Init
     \/ scene = "shell" /\ Around!Init
     \/ scene = "pickers" /\ Choosing!Init
     \/ scene = "lists" /\ Listing!Init
     \/ scene = "questions" /\ Asking!Init
     \/ scene = "sliders" /\ Sliding!Init
     \/ scene = "switches" /\ Switching!Init
     \/ scene = "pager" /\ Paging!Init
     \/ scene = "hints" /\ Hinting!Init
     \/ scene = "sidebar" /\ Collapsing!Init
     \/ scene = "commands" /\ Commanding!Init
     \/ scene = "cluster" /\ Cluster!Init

Next ==
  /\ scene' = scene
  /\ \/ scene = "machine" /\ Machine!Next
     \/ scene = "forms" /\ Forms!Next
     \/ scene = "projects" /\ ProjectsPage!Next
     \/ scene = "members" /\ Members!Next
     \/ scene = "users" /\ Users!Next
     \/ scene = "nodes" /\ NodesAndCapacity!Next
     \/ scene = "settings" /\ Settings!Next
     \/ scene = "audit" /\ Audit!Next
     \/ scene = "rows" /\ LogRows!Next
     \/ scene = "shell" /\ Around!Next
     \/ scene = "pickers" /\ Choosing!Next
     \/ scene = "lists" /\ Listing!Next
     \/ scene = "questions" /\ Asking!Next
     \/ scene = "sliders" /\ Sliding!Next
     \/ scene = "switches" /\ Switching!Next
     \/ scene = "pager" /\ Paging!Next
     \/ scene = "hints" /\ Hinting!Next
     \/ scene = "sidebar" /\ Collapsing!Next
     \/ scene = "commands" /\ Commanding!Next
     \/ scene = "cluster" /\ Cluster!Next

Spec == Init /\ [][Next]_vars

----------------------------------------------------------------------------
(* The properties, stated and explained in the modules of the pages. *)

\* A domain of a zone without review is asked for in a way the zone allows.
ModeAllowed == scene = "machine" => Machine!ModeAllowed

\* What the server worked out for one selection never stands under another: the
\* capacity shown as settled, the people offered for a project.
AnswersFitSelection ==
  /\ scene = "forms" => Forms!CapacityMatchesSelection
  /\ scene = "members" => Members!CandidatesOfThisProject

\* What is confirmed is what was on the screen: a resize does what its preview
\* said, a card of questions hands over acceptable answers, typed on that card, a key
\* goes to one sidebar, and Enter in a list of commands has a row it is for.
ConfirmMeansWhatItSays ==
  [][/\ scene = "forms" => Forms!AnsweredAsShown
     /\ scene = "questions" => Asking!DeliversAnswers /\ Asking!AnswersWhereFocused
     /\ scene = "sidebar" => Collapsing!OneProviderAnswers
     /\ scene = "commands" => Commanding!KeepsTarget]_vars

\* A dialog saves to what it was filled in for: the project of the settings, the
\* user whose role was read, the request a reason was typed for.
FormsBelongToTarget ==
  /\ scene = "projects" => ProjectsPage!SavedToItsProject
  /\ scene = "users" => Users!FormOfThisUser
  /\ scene = "settings" => Settings!ReasonForThisRow

\* A suspended user becomes active by a call that restores that user only.
SuspensionSticks == [][scene = "users" => Users!OnlyRestoredWhenAsked]_vars

\* What a page says in sum is what its rows say: every node is counted under the one
\* health its row shows; the panel of a Kubernetes machine sorts events as the server
\* does, and says that all is well only of a rollout that got there; a row of the log
\* is called what it is about, has the line of a change when something changed, and over
\* a log that comes newest first the cards show the latest of a person and a resource.
SummariesAddUp ==
  /\ scene = "nodes" => NodesAndCapacity!EachNodeCountedOnce
  /\ scene = "cluster" => Cluster!EventsSortedAlike /\ Cluster!HealthyMeansRolledOut
  /\ scene = "rows" => /\ LogRows!NamesItsResource /\ LogRows!AccessLineMeansChange
                       /\ cast.store = "postgres" => LogRows!CardsShowLatest

\* The log opens only pages that admit who looks, about things they may see.
OpenedPagesAllowed == [][scene = "audit" => Audit!OpensAllowedPage]_vars

\* A pack copied to the clipboard holds the token the server accepts.
CopiedPackWorks == scene = "shell" => Around!CopiedPackWorks

\* A picker that is closed, or on its way out, keeps nothing it would act on.
ClosedHoldsNothing == scene = "pickers" => Choosing!ClosedHoldsNothing

\* What a widget draws is what it holds, and what it holds is allowed: the
\* backgrounds of a list, the thumbs of a slider and of a switch, the rows of a page,
\* the hints that are open, the sidebar with its peek, its drag and its sheet, the
\* rows of a command menu and the one menu of those that share a key.
DrawnIsHeld ==
  /\ scene = "lists" => Listing!RectsFitRows /\ Listing!NoHalfStranded
  /\ scene = "sliders" => Sliding!ThumbsShowValue /\ Sliding!ValueAllowed
  /\ scene = "switches" => Switching!OneToggleEach /\ Switching!ThumbShowsValue
  /\ scene = "pager" => Paging!PageShowsRows
  /\ scene = "hints" => Hinting!HintsComeAndGo
  /\ scene = "sidebar" => Collapsing!PinEndsPeek /\ Collapsing!DragsEndWhole /\ Collapsing!SheetComesAndGoes
  /\ scene = "commands" => Commanding!RowsListedOnce /\ Commanding!OneOpenPerCombo
=============================================================================
