---------------------------- MODULE AccessRules ----------------------------
(***************************************************************************)
(* What the console lets a role see and do (permissions.ts, the access     *)
(* control provider, the menu of the layout), next to what the server      *)
(* answers to the requests of those pages.                                 *)
(***************************************************************************)
EXTENDS Naturals, FiniteSets

PlatformRoles == {"platform_admin", "platform_ops", "platform_user"}
ProjectRoles == {"owner", "admin", "developer", "viewer"}

IsPlatformStaff(role) == role \in {"platform_admin", "platform_ops"}
IsPlatformAdmin(role) == role = "platform_admin"
CanApproveDangerousOps(role) == role \in {"platform_admin", "platform_ops"}
CanManageNodes(role) == IsPlatformStaff(role)
CanViewAudit(role) == IsPlatformStaff(role)
CanManageUsers(role) == IsPlatformAdmin(role)
CanViewGlobalMembers(role) == IsPlatformAdmin(role)

CanManageMembers(mine, role) == IsPlatformAdmin(role) \/ mine \in {"owner", "admin"}
CanApproveWorkspace(mine, role) == CanManageMembers(mine, role)
CanSSH(mine, access, role) == CanManageMembers(mine, role) \/ access = "granted"

(* The pages of the sidebar and, for each, the list it asks the server for *)
Pages == {"projects", "memberships", "users", "workspaces", "nodes", "capacity",
          "ssh-keys", "audit-logs", "dangerous-approvals", "docker-registries",
          "ingress-domains"}

\* accessControlProvider.can, which wraps the pages themselves.
Can(page, role) ==
  CASE page = "audit-logs" -> CanViewAudit(role)
    [] page \in {"nodes", "capacity"} -> CanManageNodes(role)
    [] page = "dangerous-approvals" -> CanApproveDangerousOps(role)
    [] page \in {"docker-registries", "ingress-domains", "users"} -> IsPlatformAdmin(role)
    [] page = "memberships" -> CanViewGlobalMembers(role)
    [] OTHER -> TRUE

MenuItems_UsersForAll(role) ==
  {page \in Pages :
     /\ page \in {"nodes", "capacity"} => CanManageNodes(role)
     /\ page = "memberships" => CanViewGlobalMembers(role)
     /\ page = "audit-logs" => CanViewAudit(role)
     /\ page = "dangerous-approvals" => CanApproveDangerousOps(role)
     /\ page \in {"docker-registries", "ingress-domains"} => IsPlatformAdmin(role)}

\* The items the layout leaves in the sidebar.
MenuItems(role) ==
  {page \in Pages :
     /\ page \in {"nodes", "capacity"} => CanManageNodes(role)
     /\ page = "memberships" => CanViewGlobalMembers(role)
     /\ page = "users" => CanManageUsers(role)
     /\ page = "audit-logs" => CanViewAudit(role)
     /\ page = "dangerous-approvals" => CanApproveDangerousOps(role)
     /\ page \in {"docker-registries", "ingress-domains"} => IsPlatformAdmin(role)}

\* The guards of the server's list handlers, by the page that calls them.
ServerAnswers(page, role) ==
  CASE page \in {"nodes", "capacity", "audit-logs"} -> IsPlatformStaff(role)
    [] page \in {"users", "docker-registries", "ingress-domains", "dangerous-approvals"} ->
         IsPlatformAdmin(role)
    [] OTHER -> TRUE
=============================================================================
