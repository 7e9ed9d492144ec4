------------------------------ MODULE AuditRows ------------------------------
(***************************************************************************)
(* What the rows of the audit log say.  Every handler writes what it knew  *)
(* under keys of its own choice; the server names the resource of a row    *)
(* when the log is read, by those keys or by what the resource is called   *)
(* now; the console prefers the lists it has loaded beside the log, and    *)
(* sums up a person or a resource from the rows it holds.                  *)
(***************************************************************************)
EXTENDS Integers, Sequences, FiniteSets

CONSTANTS Casts  \* records [store, limit, sees, owner, who, acts, does, steps]

VARIABLES server,  \* what things are called, which are gone, who may use SSH, the log
          ui,      \* the rows shown, and the names of the lists loaded beside them
          calls,   \* the log, the workspaces, the projects
          cast

vars == <<server, ui, calls, cast>>

People == {"user", "staff"}
Things == People \cup {"workspace", "project", "node", "ingress", "ingress_domain_zone", "tls_cert",
                       "docker_registry", "object", "cluster"}
Listed == {"workspace", "project"}

\* The n-th name of a thing; a person's username is their name 0.
Name(of, n) == [of |-> of, n |-> n]
None == Name("none", 0)
ShortId == Name("id", 0)

\* What UserVisibleName falls back on, and what the forms show first.
Display(names, p) == IF names[p] = 0 THEN None ELSE Name(p, names[p])
Visible(names, p) == IF Display(names, p) # None THEN Display(names, p) ELSE Name(p, 0)

(* The rows that handlers write: the keys with what they name, "by" for who acts, *)
(* and what else of the meta the summary reads.                                   *)

Site(action, type, about, keys, more) ==
  [action |-> action, type |-> type, about |-> about, keys |-> keys, more |-> more]
NoKeys == [k \in {} |-> "by"]

Self == [username |-> "by", display_name |-> "by"]
OnProject == [project_name |-> "project"]
OnWorkspace == [workspace_name |-> "workspace"]
OnMember(who) == [target_username |-> who, target_display_name |-> who, project_name |-> "project"]

Machines(action, keys, more) == Site(action, "workspace", "workspace", keys, more)

PeopleSites ==
  {Site("user.login", "user", "by", Self, {}), Site("user.create", "user", "user", NoKeys, {}),
   Site("user.suspend", "user", "user", [username |-> "user"], {}),
   Site("agent_token.issue", "user", "by", NoKeys, {}),
   Site("member.add", "membership", "project", NoKeys, {})}
AccessSites ==
  {Site("membership.update", "membership", "user", OnMember("user"), {}),
   Site("ssh_access.grant", "membership", "user", OnMember("user"), {}),
   Site("ssh_access.request", "membership", "by", OnMember("by"), {})}
ProjectSites ==
  {Site("project.create", "project", "project", OnProject, {}),
   Site("project.update", "project", "project", OnProject, {}),
   Site("project.delete", "project", "project", OnProject, {}),
   Site("project.transfer_ownership", "project", "project", OnProject, {"owner"})}
WorkspaceSites ==
  {Machines("workspace.request", OnWorkspace, {"plan", "size"}),
   Machines("workspace.approve", [workspace_name |-> "workspace", node |-> "node"], {"plan", "node"}),
   Machines("workspace.reject", NoKeys, {"reason"}),
   Machines("workspace.resize.approve", OnWorkspace, {"spec"}),
   Machines("workspace.idle_suspend", NoKeys, {}),
   Machines("workspace.destroy", OnWorkspace, {}),
   Machines("k8s.delete", [workspace_name |-> "workspace", name |-> "object"], {}),
   Machines("ssh.allow", [workspace_name |-> "workspace", node |-> "node", username |-> "by"], {"node"}),
   Machines("ssh.deny", Self, {"reason"}),
   Machines("ssh.exec", [workspace_name |-> "workspace", username |-> "by"], {"command"}),
   Machines("ssh.exec.deny", [workspace_name |-> "workspace", username |-> "by"], {"command", "error"})}
PlatformSites ==
  {Site("ingress.create", "ingress", "ingress", [domain |-> "ingress"], {"workspace"}),
   Site("ingress.delete", "ingress", "ingress", [domain |-> "ingress"], {}),
   Site("ingress_domain_zone.update", "ingress_domain_zone", "ingress_domain_zone",
        [suffix |-> "ingress_domain_zone"], {}),
   Site("ingress_domain_zone.delete", "ingress_domain_zone", "ingress_domain_zone",
        [suffix |-> "ingress_domain_zone", display_name |-> "ingress_domain_zone"], {}),
   Site("tls.issue", "tls_cert", "tls_cert", [name |-> "tls_cert", names |-> "tls_cert"], {"issuer"}),
   Site("docker_registry.create", "docker_registry", "docker_registry",
        [name |-> "docker_registry", server |-> "docker_registry"], {}),
   Site("docker_registry.delete", "docker_registry", "docker_registry",
        [name |-> "docker_registry", server |-> "docker_registry"], {}),
   Site("node.join_token_issued", "cluster", "cluster", NoKeys, {})}
PlainSites == PeopleSites \cup ProjectSites \cup WorkspaceSites \cup PlatformSites
Sites == PlainSites \cup AccessSites

Keys == {"project_name", "workspace_name", "name", "names", "display_name", "username", "target_display_name",
         "target_username", "node", "domain", "suffix", "server"}

\* What is written under a key: a username, a display name if there is one, or a name.
Written(names, key, t) ==
  IF key \in {"username", "target_username"} THEN Name(t, 0)
  ELSE IF t \in People THEN Display(names, t) ELSE Name(t, names[t])

Who(t, p) == IF t = "by" THEN p ELSE t

\* Access to SSH, as NormalizeMembershipSSH leaves it.
Unread == [access |-> "", mode |-> ""]
Outside == [access |-> "none", mode |-> "read_write"]
Accesses == [access : {"none", "pending", "granted", "revoked"}, mode : {"read_only", "read_write"}]
Normalize(m) == IF m.access # "granted" THEN [m EXCEPT !.mode = "read_write"] ELSE m

(* The log *)

\* A row: its keys and what they say, and the access before and after.
Row(s, n, p, names, from, to) ==
  [n |-> n, action |-> s.action, type |-> s.type, about |-> Who(s.about, p), by |-> p, more |-> s.more,
   meta |-> [k \in Keys |-> IF k \in DOMAIN s.keys THEN Written(names, k, Who(s.keys[k], p)) ELSE None],
   from |-> from, to |-> to, shown |-> None]

Acts == ui.left > 0
Does(what) == what \in cast.does /\ Acts
Step(u) == [u EXCEPT !.left = @ - 1]
Idle(data) == [st |-> "idle", data |-> data]
Sent(data) == [st |-> "sent", data |-> data]

Init ==
  /\ cast \in Casts
  /\ server = [names |-> [t \in Things |-> 0], gone |-> {},
               member |-> [p \in People |-> Outside],
               log |-> <<>>]
  /\ ui = [logs |-> <<>>, live |-> [t \in Listed |-> None], left |-> cast.steps]
  /\ calls = [log |-> Sent(<<>>), workspace |-> Sent(None), project |-> Sent(None)]

Put(s, p, names, from, to) == Append(server.log, Row(s, Len(server.log) + 1, p, names, from, to))

Renames == {"project.update", "ingress_domain_zone.update"}

\* What goes with a thing: a project takes its workspaces and routes along.
Removed(s) ==
  CASE s.action = "project.delete" -> {"project", "workspace", "ingress"}
    [] s.action \in {"ingress.delete", "ingress_domain_zone.delete", "docker_registry.delete"} -> {s.about}
    [] OTHER -> {}

\* Who hands a project over to somebody else becomes a developer of it.
Left(s, p) ==
  IF s.action = "project.transfer_ownership" THEN {server.member, [server.member EXCEPT ![p] = Outside]}
  ELSE {server.member}

Renamed(t) == [server.names EXCEPT ![t] = @ + 1]

\* A handler does its work and writes its row. A bastion refuses an account whatever
\* it asks for; the other handlers have loaded what the row is about.
Write(s, p) ==
  /\ s.action \in cast.acts /\ Acts
  /\ s.about \notin server.gone \/ s.action = "ssh.deny"
  /\ \E names \in {server.names} \cup (IF s.action \in Renames THEN {Renamed(s.about)} ELSE {}),
        member \in Left(s, p) :
       server' = [server EXCEPT !.names = names, !.gone = @ \cup Removed(s), !.member = member,
                                !.log = Put(s, p, names, Unread, Unread)]
  /\ ui' = Step(ui)
  /\ UNCHANGED <<calls, cast>>

ChangeAccess(s, p, to) ==
  LET who == Who(s.about, p) IN
  /\ s.action \in cast.acts /\ Acts /\ "project" \notin server.gone
  /\ server' = [server EXCEPT !.member[who] = to,
                              !.log = Put(s, p, server.names, server.member[who], to)]
  /\ ui' = Step(ui)
  /\ UNCHANGED <<calls, cast>>

\* PatchMember, as it would be without NormalizeMembershipSSH and as it is.
PatchMember_AsGiven(s, p, given) ==
  /\ s.action = "membership.update"
  /\ \E more \in {{}, {"role"}} : ChangeAccess([s EXCEPT !.more = more], p, given)
PatchMember(s, p, given) ==
  /\ s.action = "membership.update"
  /\ \E more \in {{}, {"role"}} : ChangeAccess([s EXCEPT !.more = more], p, Normalize(given))
ApproveSSHAccess(s, p) ==
  /\ s.action = "ssh_access.grant" /\ server.member[s.about].access # "granted"
  /\ ChangeAccess(s, p, [server.member[s.about] EXCEPT !.access = "granted"])
RequestSSHAccess(s, p) ==
  /\ s.action = "ssh_access.request" /\ server.member[p].access # "granted"
  /\ ChangeAccess(s, p, Normalize([server.member[p] EXCEPT !.access = "pending"]))

\* A display name or a registry is changed: no row.
RenameQuietly(t) ==
  /\ Does("rename") /\ t \in People \cup {"docker_registry"} /\ t \notin server.gone
  /\ server' = [server EXCEPT !.names = Renamed(t)]
  /\ ui' = Step(ui)
  /\ UNCHANGED <<calls, cast>>

(* The server reads the log *)

First(meta, keys) ==
  IF \A i \in DOMAIN keys : meta[keys[i]] = None THEN None
  ELSE meta[keys[CHOOSE i \in DOMAIN keys :
                   meta[keys[i]] # None /\ \A j \in DOMAIN keys : j < i => meta[keys[j]] = None]]

\* AuditResourceNameFromMeta
MetaKeys(type) ==
  CASE type = "project" -> <<"project_name", "name">>
    [] type = "workspace" -> <<"workspace_name">>
    [] type = "user" -> <<"display_name", "username">>
    [] type = "membership" -> <<"target_display_name", "target_username", "display_name", "username">>
    [] type = "node" -> <<"node", "name">>
    [] type = "ingress" -> <<"domain">>
    [] type = "tls_cert" -> <<"names", "name">>
    [] type = "ingress_domain_zone" -> <<"suffix", "display_name", "name">>
    [] type = "docker_registry" -> <<"name", "server">>
    [] OTHER -> <<"project_name", "workspace_name", "name", "domain", "suffix", "server">>

\* What a thing of the type is called now, looked up under the id of the row.
CalledNow(type, about) ==
  IF type \in {"user", "membership"} THEN IF about \in People THEN Visible(server.names, about) ELSE None
  ELSE IF type = about /\ type # "cluster" /\ about \notin server.gone THEN Name(about, server.names[about])
  ELSE None

\* The name that is sent along, as it would be if any row fell back on a username.
ResourceName_OfActor(row) ==
  LET said == First(row.meta, MetaKeys(row.type) \o <<"username">>) IN
  IF said # None THEN said ELSE CalledNow(row.type, row.about)
ResourceName(row) ==
  LET said == First(row.meta, MetaKeys(row.type)) IN
  IF said # None THEN said ELSE CalledNow(row.type, row.about)

Decorated(row) == [row EXCEPT !.shown = ResourceName(row)]

\* ListAudit: the last rows; the memory store hands them out oldest first, postgres
\* newest first.
ListAudit ==
  LET len == Len(server.log)
      n == IF cast.limit < len THEN cast.limit ELSE len IN
  [i \in 1..n |-> Decorated(server.log[IF cast.store = "memory" THEN len - n + i ELSE len + 1 - i])]

Serve(c) ==
  /\ calls[c].st = "sent"
  /\ calls' = [calls EXCEPT ![c] =
       [st |-> "ok", data |-> IF c = "log" THEN ListAudit
                              ELSE IF c \in cast.sees THEN CalledNow(c, c) ELSE None]]
  /\ UNCHANGED <<server, ui, cast>>
Lose(c) ==
  /\ Does("lose") /\ calls[c].st = "sent"
  /\ calls' = [calls EXCEPT ![c].st = "lost"]
  /\ ui' = Step(ui)
  /\ UNCHANGED <<server, cast>>

Return(c) ==
  /\ calls[c].st \in {"ok", "lost"}
  /\ ui' = CASE calls[c].st = "lost" -> ui
             [] c = "log" -> [ui EXCEPT !.logs = calls[c].data]
             [] OTHER -> [ui EXCEPT !.live[c] = calls[c].data]
  /\ calls' = [calls EXCEPT ![c] = Idle(IF c = "log" THEN <<>> ELSE None)]
  /\ UNCHANGED <<server, cast>>

\* The button asks for the log, a new visit for the lists as well.
Refresh(c) ==
  /\ Does("refresh") /\ calls[c].st = "idle"
  /\ calls' = [calls EXCEPT ![c] = Sent(calls[c].data)]
  /\ ui' = Step(ui)
  /\ UNCHANGED <<server, cast>>

Next ==
  \/ \E p \in cast.who :
       \/ \E s \in PlainSites : Write(s, p)
       \/ \E s \in AccessSites :
            ApproveSSHAccess(s, p) \/ RequestSSHAccess(s, p) \/ \E given \in Accesses : PatchMember(s, p, given)
  \/ \E t \in Things : RenameQuietly(t)
  \/ \E c \in {"log", "workspace", "project"} : Serve(c) \/ Lose(c) \/ Return(c) \/ Refresh(c)

Spec == Init /\ [][Next]_vars

(* The name of a row *)

\* auditPreferredName: the lists first, and never the actor's name for a workspace.
Preferred(row) ==
  LET live == IF row.type \in Listed THEN ui.live[row.type] ELSE None
      who == row.meta["username"] IN
  IF live # None THEN live
  ELSE IF row.type = "workspace" /\ who # None /\ row.shown = who /\ row.meta["workspace_name"] # who THEN None
  ELSE row.shown

OwnKeys(type) ==
  CASE type = "project" -> <<"project_name", "name">>
    [] type \in {"membership", "user"} -> <<"target_display_name", "display_name", "target_username", "username">>
    [] type = "workspace" -> <<"workspace_name">>
    [] type = "ingress" -> <<"domain">>
    [] type = "node" -> <<"node", "name">>
    [] OTHER -> <<>>
OtherKeys(type) ==
  IF type = "workspace" THEN <<>>
  ELSE <<"project_name", "workspace_name", "name", "domain", "suffix", "server">>

\* auditResourceName: some types by their own row, the others by what they are called.
StableKeys(type) ==
  CASE type = "tls_cert" -> <<"names", "name">>
    [] type = "ingress_domain_zone" -> <<"suffix", "display_name", "name">>
    [] type = "docker_registry" -> <<"name", "server">>
    [] OTHER -> <<>>

FirstOf(names) ==
  IF \A i \in DOMAIN names : names[i] = None THEN ShortId
  ELSE names[CHOOSE i \in DOMAIN names : names[i] # None /\ \A j \in DOMAIN names : j < i => names[j] = None]

DisplayName(row) ==
  FirstOf(<<First(row.meta, StableKeys(row.type)), Preferred(row), First(row.meta, OwnKeys(row.type)),
            First(row.meta, OtherKeys(row.type))>>)

(* The cards that open over a row *)

At(i) == ui.logs[i]

\* The first row of the list, and of those about one thing the first three.
FirstRow(rows) == IF rows = {} THEN 0 ELSE At(CHOOSE i \in rows : \A j \in rows : i <= j).n
By(p) == {i \in DOMAIN ui.logs : At(i).by = p}
Logins(p) == {i \in By(p) : At(i).action = "user.login"}
LastLogin_OfLastRow(p) ==
  IF Logins(p) = {} THEN 0 ELSE At(CHOOSE i \in Logins(p) : \A j \in Logins(p) : j <= i).n
LastLogin(p) == FirstRow(Logins(p))
LastAction(p) == FirstRow(By(p))
AboutSame(i) == {j \in DOMAIN ui.logs : At(j).about = At(i).about}
Recent(i) == {j \in AboutSame(i) : Cardinality({k \in AboutSame(i) : k <= j}) <= 3}

\* uniqueResourceNames: the machines somebody's rows are about, each by the list or
\* by its first row; what they own, if the list knows of it, comes instead.
Touched(p) == {i \in By(p) : At(i).type = "workspace"}
MachineName(i) ==
  IF ui.live["workspace"] # None THEN ui.live["workspace"]
  ELSE IF At(i).shown # None THEN At(i).shown ELSE ShortId
MachineNames(p) ==
  IF p = cast.owner /\ ui.live["workspace"] # None THEN {ui.live["workspace"]}
  ELSE {MachineName(i) : i \in {i \in Touched(p) : \A j \in Touched(p) : At(j).about = At(i).about => i <= j}}

Card(p) == [login |-> LastLogin(p), action |-> LastAction(p), machines |-> MachineNames(p)]

(* What a row says of a change *)

Reads(m) ==
  IF m.access = "granted" THEN <<"granted", m.mode>> ELSE <<m.access>>

\* auditChangeSummary: the parts of the line under the name.
Summary(row) ==
  (row.more \cap {"role", "owner", "spec"})
  \cup (IF row.to.access # "" /\ row.from # row.to THEN {"ssh"} ELSE {})
  \cup (IF "spec" \notin row.more /\ row.more \cap {"plan", "size", "node"} # {} THEN {"placed"} ELSE {})
  \cup (IF row.type = "ingress" THEN row.more \cap {"workspace"} ELSE {})
  \cup (IF row.type = "tls_cert" THEN row.more \cap {"issuer"} ELSE {})
  \cup (IF row.action \in {"ssh.exec", "ssh.exec.deny"} THEN row.more \cap {"command"} ELSE {})
  \cup (IF row.more \cap {"reason", "error"} # {} THEN {"reason"} ELSE {})

----------------------------------------------------------------------------
(* A row, and the card of who acted, call the resource by a name it has    *)
(* had or by its id: never by the name of who acted, of another member, or *)
(* of the object of the command.                                           *)
NamesItsResource ==
  /\ \A i \in DOMAIN ui.logs : DisplayName(At(i)).of \in {At(i).about, "id"}
  /\ \A p \in People : \A name \in Card(p).machines : name.of \in {"workspace", "id"}

\* The summary of a change of access has its line just where the two sides read
\* differently.
AccessLineMeansChange ==
  \A i \in DOMAIN ui.logs : "ssh" \in Summary(At(i)) <=> Reads(At(i).from) # Reads(At(i).to)

\* The card of a person shows their latest login and their latest action, that of a
\* resource its latest changes.
CardsShowLatest ==
  LET Latest(rows) == IF rows = {} THEN 0 ELSE CHOOSE n \in {At(i).n : i \in rows} : \A i \in rows : At(i).n <= n IN
  /\ \A p \in People : Card(p).login = Latest(Logins(p)) /\ Card(p).action = Latest(By(p))
  /\ \A i \in DOMAIN ui.logs : \A j \in Recent(i), k \in AboutSame(i) \ Recent(i) : At(k).n < At(j).n
=============================================================================
