------------------------------ MODULE MCTenantData ------------------------------
(* The operations that meet on a vault and its secrets, and those that meet   *)
(* on grants and members.                                                     *)
EXTENDS TenantData, PolicyMatrix, TLC

CONSTANTS olga, adam, vera,   \* an owner, an admin and a viewer
          v1, v2,             \* a vault there is and one to be created
          s1, s2              \* a secret there is and one to be created

MCVaultOf == [s \in {s1, s2} |-> v1]
MCRoleOf == (olga :> "owner") @@ (adam :> "admin") @@ (vera :> "viewer")

Do(kind, actor, on, whom) ==
    [kind |-> kind, actor |-> actor, on |-> on, whom |-> whom, permission |-> "write"]

MCMenu == {Do("createSecret", olga, s2, olga), Do("rotate", olga, s1, olga),
           Do("rotate", vera, s1, vera), Do("reveal", vera, s1, vera),
           Do("deleteSecret", adam, s1, adam), Do("deleteVault", olga, v1, olga),
           Do("updateVault", adam, v1, adam),
           Do("grant", olga, v1, adam), Do("revokeGrant", olga, v1, adam),
           Do("removeMember", olga, v1, adam), Do("removeMember", adam, v1, olga),
           Do("createVault", adam, v2, adam)}

(* Requests are named in the order in which they begin.                       *)
NamedInOrder == \A q, r \in Request : q < r /\ pc[q] = "idle" => pc[r] = "idle"
================================================================================
