------------------------------ MODULE PolicyMatrix ------------------------------
(***************************************************************************)
(* Every question the policy can be asked (a role or none, a grant or none, a *)
(* vault that is there or gone, an action) against what the project README    *)
(* and GET /auth/me say of the answers.                                       *)
(***************************************************************************)
EXTENDS AccessPolicy

(* The permission matrix of the project README ("Organization-level           *)
(* permissions", "Vault-level permissions"), on a vault that exists.          *)
Documented ==
    [a \in OrgAction \cup VaultAction |->
        CASE a \in {"vault.list", "secret.read_meta", "secret.reveal"} -> OrgRole
          [] a \in {"secret.write", "secret.delete"} -> {"owner", "admin", "member"}
          [] OTHER -> {"owner", "admin"}]

(* What a member with this role and grant may do on a vault that exists.      *)
Allowed(role, permission) ==
    {a \in OrgAction : require_org(role, a) = "allow"} \cup
    {a \in VaultAction : require_vault(TRUE, role, permission, a) = "allow"}

MatrixHolds ==
    \A role \in OrgRole \cup {"none"}, permission \in VaultPermission :
        /\ Allowed(role, permission) =
               {a \in OrgAction \cup VaultAction : role \in Documented[a]}
        /\ \A a \in VaultAction : require_vault(FALSE, role, permission, a) = "not_found"
        /\ list_accessible_vault_ids(role) = "unrestricted" <=> role \in Documented["vault.list"]

CapabilitiesHold ==
    \A role \in OrgRole, permission \in VaultPermission :
        LET caps == org_capabilities_for_role(role)
            may == Allowed(role, permission)
        IN  /\ caps.can_create_vaults <=> "vault.create" \in may
            /\ caps.can_write_secrets <=> "secret.write" \in may
            /\ caps.can_manage_members <=> "member.remove" \in may
            /\ caps.can_read_audit <=> "audit.read" \in may

(* The code decides as the README's matrix says, whatever grant the user      *)
(* holds (viewers are capped "regardless of any grant data"); a user without  *)
(* a membership gets nothing; a vault that is gone is not found for everyone  *)
(* alike; who may list vaults is shown all of them; and the capabilities the  *)
(* client is told, which come from other code, are the decisions it will meet.*)
PolicyAsDocumented == MatrixHolds /\ CapabilitiesHold
================================================================================
