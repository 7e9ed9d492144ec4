SPECIFICATION Spec
CONSTANTS
  Scenes = {"machine", "forms", "projects", "members", "users", "nodes", "settings", "audit", "rows", "shell",
            "pickers", "lists", "questions", "sliders", "switches", "pager", "hints", "sidebar", "commands",
            "cluster"}
  Casts <- MCCasts
  Slots = {"c1", "c2"}
  Me = "me"
  MachinePorts = {8080, 3000}
  MachineZones <- MCZones
  FormsChoices = {"a", "b"}
  FormsSizes = {0, 1, 2}
  PageProjects = {"p", "q", "new"}
  MembersProjects = {"p", "q"}
  MembersPeople = {"me", "u"}
  UsersPeople = {"me", "u", "v"}
  PageNodes = {"n1"}
  SettingsRows = {"r1", "r2"}
  AuditLogs = {"l1", "l2"}
  ShellProjects = {"p", "q"}
  ShellMaxKey = 4
  ClusterRevisions = {1, 2}
  ClusterSlots = {"c1"}
  PickersItems <- MCPickersItems
  PickersQueries = {"b", "x"}
  PickersDisabled = {"c"}
  PickersMatches <- MCPickersMatches
  FluidRows = {1, 2, 3, 4, 5}
  FluidPoints = {1, 5, 9}
  QuestionsCards = {"c1", "c2"}
  SlidersScale = 2
  SlidersHalfThumb = 1
  SwitchesDeltas <- MCDeltas
  PagerSizes = {1, 3}
  PagerLengths = {0, 1, 2, 4, 7}
  TooltipsHints = {"h1", "h2"}
  BarElements <- Parts
  BarInside <- MCInside
  BarProviders = {"app", "demo", "inner", "other"}
  BarOwn = "app"
  BarWidth = 256
  BarDrags <- MCDrags
  PaletteDialogs = {"own", "peer", "far", "slash"}
  PaletteOwn = "own"
  PaletteCombo <- MCCombo
  PaletteItems <- MCItems
  PaletteGroup <- MCGroup
  PaletteTabs <- MCTabs
  PaletteTabOf <- MCTabOf
  PaletteQueries = {"b", "x"}
  PaletteMatches <- MCPaletteMatches
INVARIANTS
  ModeAllowed AnswersFitSelection FormsBelongToTarget SummariesAddUp CopiedPackWorks
  ClosedHoldsNothing DrawnIsHeld
PROPERTIES
  ConfirmMeansWhatItSays OpenedPagesAllowed
CHECK_DEADLOCK FALSE
