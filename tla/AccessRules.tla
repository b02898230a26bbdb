----------------------------- MODULE AccessRules -----------------------------
(***************************************************************************)
(* Who may do what in a workspace: the roles and permissions of            *)
(* packages/auth, and WorkspacesService.assertMembership and               *)
(* assertPermission, which every handler asks first.  Pure operators; the  *)
(* membership, the workspace and the support session are arguments.        *)
(***************************************************************************)

roles == {"OWNER", "ADMIN", "MANAGER", "OPERATOR", "VIEWER"}

permissions ==
    {"workspace.read", "workspace.manage", "member.invite", "account.read", "account.manage",
     "contact.read", "contact.manage", "contact.export", "message.read", "message.send",
     "campaign.read", "campaign.manage", "campaign.approve", "post.read", "post.manage",
     "post.publish", "proxy.manage", "audit.read"}

Reading == {"workspace.read", "account.read", "contact.read", "message.read", "campaign.read",
            "post.read"}

matrix ==
    [OWNER    |-> permissions,
     ADMIN    |-> permissions \ {"workspace.manage"},
     MANAGER  |-> permissions \ {"workspace.manage", "member.invite", "proxy.manage"},
     OPERATOR |-> Reading \cup {"contact.manage", "message.send"},
     VIEWER   |-> Reading]

hasPermission(role, permission) == permission \in matrix[role]

managementRoles == {"OWNER", "ADMIN", "MANAGER"}

(* The role in which a user is let in, "none" when access is denied.  An   *)
(* ACTIVE member of an open workspace is judged by that role alone; for    *)
(* everybody else, and in a suspended workspace, a support session counts. *)
assertMembership(role, workspace, supported, allowedRoles) ==
    IF role # "none" /\ workspace = "ACTIVE"
      THEN IF role \in allowedRoles THEN role ELSE "none"
      ELSE IF supported /\ workspace # "ARCHIVED" /\ "ADMIN" \in allowedRoles
             THEN "ADMIN" ELSE "none"

assertPermission(role, workspace, supported, permission) ==
    LET access == assertMembership(role, workspace, supported, roles)
    IN  access # "none" /\ hasPermission(access, permission)

=============================================================================
