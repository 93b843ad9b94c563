------------------------------ MODULE AccessPolicy ------------------------------
(***************************************************************************)
(* PolicyService (domain/access/services.py): every authorization decision   *)
(* as a function of the rows it reads.  "none" is the None of get_role and   *)
(* get_permission: no membership, no grant.                                  *)
(***************************************************************************)
EXTENDS Naturals

OrgRole == {"owner", "admin", "member", "viewer"}
VaultPermission == {"none", "read", "write", "admin"}
OrgAction == {"vault.list", "vault.create", "member.invite", "member.remove",
              "audit.read"}
VaultAction == {"vault.update", "vault.delete", "grant.manage", "secret.read_meta",
                "secret.reveal", "secret.write", "secret.delete"}

rank == [none |-> 0, read |-> 1, write |-> 2, admin |-> 3]

sensitive_vault_actions == {"secret.reveal", "secret.write", "secret.delete",
                            "vault.delete", "grant.manage"}

org_allows(role, action) ==
    \/ action \in {"vault.list", "secret.read_meta"}
    \/ /\ action \in {"vault.create", "vault.update", "vault.delete",
                      "grant.manage", "member.invite", "member.remove", "audit.read"}
       /\ role \in {"owner", "admin"}
    \/ /\ action \in {"secret.write", "secret.delete"}
       /\ role \in {"owner", "admin", "member"}

member_allows(action) ==
    action \in {"secret.read_meta", "secret.reveal", "secret.write", "secret.delete"}

viewer_allows(action) == action \in {"secret.read_meta", "secret.reveal"}

(* What a grant is worth to a role that is none of the four.                *)
grant_allows(permission, action, role) ==
    /\ permission # "none"
    /\ role = "viewer" => action \in {"secret.read_meta", "secret.reveal"}
    /\ \/ action \in {"secret.read_meta", "secret.reveal"} /\ rank[permission] >= rank["read"]
       \/ action = "secret.write" /\ rank[permission] >= rank["write"]
       \/ action = "secret.delete" /\ rank[permission] >= rank["admin"]

require_org(role, action) ==
    IF role # "none" /\ org_allows(role, action) THEN "allow" ELSE "forbidden"

(* _forbidden_vault_action: is the refusal to be audited?                   *)
forbidden_vault_action(action) ==
    IF action \in sensitive_vault_actions THEN "forbidden_audited" ELSE "forbidden"

(* Fault: the grant decides before the role does.                           *)
RequireVaultByGrant(exists_active, role, permission, action) ==
    IF ~exists_active THEN "not_found"
    ELSE IF role \in {"owner", "admin"} \/ grant_allows(permission, action, "member")
    THEN "allow"
    ELSE IF role = "member" /\ member_allows(action) THEN "allow"
    ELSE IF role = "viewer" /\ viewer_allows(action) THEN "allow"
    ELSE forbidden_vault_action(action)

require_vault(exists_active, role, permission, action) ==
    IF ~exists_active THEN "not_found"
    ELSE IF \/ role \in {"owner", "admin"}
            \/ role = "member" /\ member_allows(action)
            \/ role = "viewer" /\ viewer_allows(action)
            \/ /\ role \notin OrgRole \cup {"none"}
               /\ grant_allows(permission, action, role)
    THEN "allow"
    ELSE forbidden_vault_action(action)

(* Which vaults a listing shows: None is all of them, a list the granted.    *)
list_accessible_vault_ids(role) ==
    IF role = "none" THEN "forbidden"
    ELSE IF role \in OrgRole THEN "unrestricted"
    ELSE "granted"

(* GET /auth/me: what the user interface offers.                            *)
org_capabilities_for_role(role) ==
    [can_create_vaults      |-> org_allows(role, "vault.create"),
     can_write_secrets      |-> org_allows(role, "secret.write"),
     can_manage_members     |-> org_allows(role, "member.remove"),
     can_manage_invitations |-> org_allows(role, "member.invite"),
     can_read_audit         |-> org_allows(role, "audit.read")]
================================================================================
