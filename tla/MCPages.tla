------------------------------ MODULE MCPages ------------------------------
(***************************************************************************)
(* The pages of the console, each looked at by a few casts: who looks,     *)
(* what the page holds at first, what the person does, and how often.      *)
(***************************************************************************)
EXTENDS Pages, AccessRules, TLC

----------------------------------------------------------------------------
(* The machine page *)

Zone(id, review, random, custom) == [id |-> id, review |-> review, random |-> random, custom |-> custom]
Picked == Zone("picked", FALSE, FALSE, TRUE)
Reviewed == Zone("asked", TRUE, TRUE, FALSE)
MCZones == {Picked, Reviewed}

OnMachine(status, k8s, mine, purpose, zones, does, steps) ==
  [status |-> status, k8s |-> k8s, mine |-> mine, access |-> "granted", platform |-> "platform_user",
   purpose |-> purpose, zones |-> zones, does |-> does, steps |-> steps]

MachineCasts ==
  {OnMachine("running", FALSE, "developer", TRUE, <<Reviewed, Picked>>, {"enter", "ingress"}, 4),
   OnMachine("running", FALSE, "owner", TRUE, <<>>, {"enter", "ingress", "review"}, 3),
   OnMachine("suspended", FALSE, "viewer", TRUE, <<>>, {"enter", "review", "terminal"}, 3),
   OnMachine("running", TRUE, "developer", TRUE, <<>>, {"enter", "k8s"}, 3)}

----------------------------------------------------------------------------
(* The dialogs that create and resize a machine *)

Size(c, m, d) == [cpu |-> c, mem |-> m, disk |-> d]

OnForms(does, role, purpose, spec, steps) ==
  [does |-> does, role |-> role, platform |-> "platform_user", purpose |-> purpose, plan |-> "small", spec |-> spec,
   catalog |-> [small |-> Size(1, 1, 1), large |-> Size(2, 2, 1)], steps |-> steps]

FormsCasts ==
  {OnForms({"create", "world"}, "admin", TRUE, Size(1, 1, 1), 5),
   OnForms({"create"}, "developer", FALSE, Size(1, 1, 1), 3)}
  \cup {OnForms({"resize", "world"}, r, TRUE, Size(1, 2, 1), 5) : r \in {"admin", "developer"}}
  \cup {OnForms({"resize"}, "viewer", TRUE, Size(1, 2, 1), 3)}

----------------------------------------------------------------------------
(* Projects and their members *)

OnProjects(role, without) ==
  [roles |-> ("p" :> "owner" @@ "q" :> role), platform |-> "platform_user", without |-> without,
   steps |-> IF role = "owner" THEN 3 ELSE 4]

ProjectsCasts == {OnProjects(r, w) : r \in {"owner", "developer"}, w \in {{}, {"q"}}}

OnMembers(does, mine, other, platform, steps) ==
  [does |-> does, platform |-> platform, steps |-> steps,
   members |-> ("p" :> ("me" :> mine @@ "u" :> other) @@ "q" :> ("me" :> mine @@ "u" :> "none"))]

MembersCasts ==
  {OnMembers({"select", "add"}, "owner", "developer", "platform_user", 5),
   OnMembers({"select", "role", "remove", "filter"}, "owner", "viewer", "platform_user", 3),
   OnMembers({"select", "ssh", "invite"}, "admin", "viewer", "platform_user", 4),
   OnMembers({"select", "batch"}, "none", "viewer", "platform_admin", 4),
   OnMembers({"select", "request", "ssh"}, "developer", "viewer", "platform_user", 3)}

----------------------------------------------------------------------------
(* Users, nodes, and the pages of settings *)

OnUsers(does, other, steps) ==
  [does |-> does, steps |-> steps, roles |-> ("me" :> "platform_admin" @@ "u" :> other @@ "v" :> other)]

UsersCasts ==
  {OnUsers({"configure", "reset", "filter", "refresh"}, "platform_user", 5),
   OnUsers({"configure", "suspend"}, "platform_ops", 5),
   OnUsers({"configure", "add", "delete", "own", "batch"}, "platform_admin", 6)}

OnNodes(platform, used, agents, does, steps) ==
  [platform |-> platform, used |-> used, agents |-> agents, does |-> does, steps |-> steps]

NodesCasts ==
  {OnNodes("platform_admin", 0, {}, {"join", "capacity"}, 3),
   OnNodes("platform_admin", 1, {}, {"load", "reconcile"}, 2),
   OnNodes("platform_ops", 2, {"n1"}, {"load"}, 2)}

OnSettings(page, role, rows, does, steps) ==
  [page |-> page, role |-> role, rows |-> rows, does |-> does, steps |-> steps]

SettingsCasts ==
  {OnSettings("registries", "platform_admin", {"r1"}, {"add", "toggle", "test", "remove"}, 5),
   OnSettings("domains", "platform_admin", {"r1"}, {"add", "issue", "lose"}, 4),
   OnSettings("domains", "platform_admin", {"r1"}, {"toggle", "remove", "issue"}, 4),
   OnSettings("keys", "platform_user", {"r1"}, {"add", "copy", "remove"}, 4),
   OnSettings("dangerous", "platform_ops", {"r1", "r2"}, {"approve", "reject", "refresh", "lose"}, 6),
   OnSettings("dangerous", "platform_user", {"r1", "r2"}, {"approve", "reject", "refresh"}, 4)}

----------------------------------------------------------------------------
(* The audit log and the shell around all pages *)

Log(type, self, joined) == [type |-> type, self |-> self, meta |-> TRUE, joined |-> joined]

OnAudit(role, one, two, does, steps) ==
  [role |-> role, rows |-> ("l1" :> one @@ "l2" :> two), does |-> does, steps |-> steps]

LogTypes ==
  {"workspace", "project", "membership", "user", "node", "cluster", "ingress", "ingress_domain_zone",
   "tls_cert", "docker_registry", "ssh_key", "agent_token"}

AuditCasts ==
  {OnAudit(role, Log(type, self, joined), Log("workspace", FALSE, joined), {"open"}, 2) :
     role \in PlatformRoles, type \in LogTypes, self \in BOOLEAN, joined \in BOOLEAN}
  \cup {OnAudit(role, Log("workspace", FALSE, TRUE), Log("membership", TRUE, FALSE),
                {"open", "copy", "exec", "refresh", "reconcile", "leave", "vanish", "lose"}, 4) :
          role \in {"platform_admin", "platform_ops"}}

OnRows(store, sees, who, acts, does, steps) ==
  [store |-> store, limit |-> 3, sees |-> sees, owner |-> "staff", who |-> who, acts |-> acts, does |-> does,
   steps |-> steps]

AllRows ==
  {"user.create", "user.suspend", "agent_token.issue", "member.add", "project.create", "project.update", "project.delete",
   "workspace.request", "workspace.approve", "workspace.reject", "workspace.resize.approve", "workspace.idle_suspend",
   "workspace.destroy", "k8s.delete", "ssh.allow", "ssh.deny", "ssh.exec", "ssh.exec.deny", "ingress.create", "ingress.delete",
   "ingress_domain_zone.update", "ingress_domain_zone.delete", "tls.issue", "docker_registry.create",
   "docker_registry.delete", "node.join_token_issued"}

RowsCasts ==
  {OnRows(store, {"workspace"}, {"user"}, {"workspace.reject", "ssh.deny", "project.delete"}, {"rename"}, 3) :
     store \in {"memory", "postgres"}} \cup
  {OnRows("postgres", {"workspace", "project"}, {"staff"}, AllRows, {"rename"}, 2),
   OnRows("memory", {"project"}, {"user"}, {"project.update", "project.delete"}, {"refresh", "lose"}, 4),
   OnRows("postgres", {}, {"staff"}, {"membership.update", "ssh_access.grant"}, {}, 2),
   OnRows("postgres", {}, {"user"}, {"membership.update", "ssh_access.request", "project.transfer_ownership"}, {}, 2),
   OnRows("postgres", {}, {"user", "staff"}, {"user.login", "workspace.request"}, {}, 4)}

OnShell(role, wide, invited, does, steps) ==
  [role |-> role, wide |-> wide, member |-> {"p"}, invited |-> invited, does |-> does, steps |-> steps]

ShellCasts ==
  {OnShell("platform_user", FALSE, "none", {"menu", "copy", "rotate", "lose", "clipboard"}, 6),
   OnShell("platform_admin", TRUE, "none", {"menu", "switch", "machine"}, 5),
   OnShell("platform_user", TRUE, "q", {"invite", "switch", "menu", "refresh"}, 6)}

----------------------------------------------------------------------------
(* The pickers and the lists the pages are built from *)

Picker(kind, hides, creates, does, steps) ==
  [kind |-> kind, hides |-> hides, creates |-> creates, does |-> does, steps |-> steps]

PickersCasts ==
  {Picker("single", FALSE, TRUE, {"set", "load"}, 7), Picker("multiple", TRUE, TRUE, {"load"}, 7),
   Picker("multiple", FALSE, FALSE, {"set"}, 6), Picker("simple", FALSE, FALSE, {"set", "load"}, 7),
   Picker("select", FALSE, FALSE, {"set"}, 8)}
MCPickersItems == <<"ab", "b", "c">>
MCPickersMatches == {<<"ab", "b">>, <<"b", "b">>, <<"x", "x">>}

Rowed(kind, disabled, gap, steps) == [kind |-> kind, disabled |-> disabled, gap |-> gap, steps |-> steps]

ListCasts == {Rowed("hover", {}, 4, 5), Rowed("hover", {2}, 100, 5), Rowed("runs", {}, 0, 6)}

Asked(kind, options, other, skippable, check, oneline) ==
  [kind |-> kind, options |-> options, other |-> other, skippable |-> skippable, check |-> check,
   oneline |-> oneline]
PickOne == Asked("single", 2, TRUE, TRUE, FALSE, FALSE)
PickSome == Asked("multi", 2, TRUE, FALSE, FALSE, FALSE)
WriteLine == Asked("free", 0, FALSE, TRUE, TRUE, TRUE)

OnCards(questions, does, steps) == [questions |-> questions, does |-> does, steps |-> steps]

QuestionsCasts ==
  {OnCards(<<PickOne, WriteLine>>, {}, 6), OnCards(<<PickSome, PickOne>>, {}, 6),
   OnCards(<<WriteLine, PickSome>>, {}, 6), OnCards(<<PickSome, PickOne>>, {"mount"}, 4)}

Track(kind, grid, value, calm, does, steps) ==
  [kind |-> kind, grid |-> grid, listed |-> grid[2] # 1, value |-> value, calm |-> calm, does |-> does,
   steps |-> steps]
Uniform == <<0, 1, 2>>
Listed == <<0, 3, 4>>

SlidersCasts ==
  {Track("compact", Uniform, <<0, 2>>, TRUE, {"keys", "world"}, 5),
   Track("compact", Listed, <<0, 3>>, TRUE, {"keys", "hover"}, 5),
   Track("compact", Uniform, <<1>>, TRUE, {"edit", "keys", "world"}, 5),
   Track("compact", Uniform, <<0, 2>>, FALSE, {"keys", "edit", "world"}, 3),
   Track("pips", Uniform, <<1>>, TRUE, {"keys", "world", "hover"}, 5),
   Track("scrubber", Uniform, <<1>>, TRUE, {"keys", "world", "hover"}, 5),
   Track("pips", Uniform, <<1>>, FALSE, {"keys", "world"}, 3)}

Switched(checked, does, steps) == [checked |-> checked, does |-> does, steps |-> steps]

SwitchesCasts ==
  {Switched(c, {}, 7) : c \in BOOLEAN} \cup {Switched(TRUE, {"keys", "world"}, 5)}
MCDeltas == {-12, -1, 6, 12}

HintsCasts == {[does |-> {"keys"}, steps |-> 6], [does |-> {"force"}, steps |-> 5]}

OnBar(peek, open, parent, does, steps) ==
  [peek |-> peek, open |-> open, parent |-> parent, does |-> does, steps |-> steps]

BarCasts ==
  {OnBar("hover", open, FALSE, {}, 9) : open \in BOOLEAN} \cup
  {OnBar("hover", FALSE, FALSE, {"cross", "keyboard"}, 7), OnBar("hover", TRUE, FALSE, {"drag"}, 8),
   OnBar("click", FALSE, TRUE, {"drag", "keyboard"}, 7), OnBar("none", TRUE, FALSE, {"drag", "cross"}, 7),
   OnBar("none", TRUE, TRUE, {"cross"}, 6), OnBar("none", TRUE, FALSE, {"mount"}, 5)}

\* The bar of the application, two in a frame of its page, and one beside it.
Holders(e) ==
  CASE e \in {"item", "frame"} -> {"app"} [] e \in {"demo", "inner"} -> {"app", "frame"}
    [] e = "field" -> {"app", "frame", "demo"} [] OTHER -> {}

Parts == {"page", "app", "item", "frame", "demo", "field", "inner", "other"}
MCInside == {<<e, f>> \in Parts \X Parts : f \in {e, "page"} \cup Holders(e)}
MCDrags == {-200, -100, 3, 200}

OnPalette(kind, suggested, does, steps) ==
  [kind |-> kind, suggested |-> suggested, does |-> does, steps |-> steps]

PaletteCasts ==
  {OnPalette("dialog", <<"c", "x", "a">>, {"tabs", "point"}, 6), OnPalette("dialog", <<>>, {"mount"}, 6),
   OnPalette("inline", <<"b">>, {"tabs", "point", "disable"}, 5)}

MCCombo == "own" :> "mod" @@ "peer" :> "mod" @@ "far" :> "meta" @@ "slash" :> "bare"
MCItems == <<"a", "b", "c">>
MCGroup == "a" :> "Go" @@ "b" :> "none" @@ "c" :> "Go"
MCTabs == <<"all", "some">>
MCTabOf == "a" :> "all" @@ "b" :> "some" @@ "c" :> "some"
MCPaletteMatches == {<<"b", "b">>, <<"b", "a">>}

OnCluster(missing, does, steps) == [missing |-> missing, does |-> does, steps |-> steps]

ClusterCasts ==
  {OnCluster(FALSE, {}, 3), OnCluster(FALSE, {"scale", "warn"}, 2), OnCluster(TRUE, {"warn"}, 1)}

----------------------------------------------------------------------------
MCCasts ==
  "machine" :> MachineCasts @@ "forms" :> FormsCasts @@ "projects" :> ProjectsCasts
  @@ "members" :> MembersCasts @@ "users" :> UsersCasts @@ "nodes" :> NodesCasts
  @@ "settings" :> SettingsCasts @@ "audit" :> AuditCasts @@ "rows" :> RowsCasts @@ "shell" :> ShellCasts
  @@ "pickers" :> PickersCasts @@ "lists" :> ListCasts @@ "questions" :> QuestionsCasts
  @@ "sliders" :> SlidersCasts @@ "switches" :> SwitchesCasts @@ "pager" :> {[steps |-> 4]}
  @@ "hints" :> HintsCasts @@ "sidebar" :> BarCasts @@ "commands" :> PaletteCasts
  @@ "cluster" :> ClusterCasts
=============================================================================
