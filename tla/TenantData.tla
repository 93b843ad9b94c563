------------------------------- MODULE TenantData -------------------------------
(***************************************************************************)
(* The vaults, secrets, grants and members of one tenant under concurrent    *)
(* requests: VaultService, SecretService and remove_member with the units of *)
(* work and audit records their use cases put around them.                   *)
(*                                                                         *)
(* A request authorizes, runs its statements, locks the audit chain head and *)
(* commits.  Core statements (soft_delete, delete, remove, flush after add)  *)
(* run at once and keep their row locks to the end; what grants.upsert only  *)
(* adds to the ORM session is written by the flush of commit(), when the     *)
(* head is already locked.  Uncommitted rows are visible to nobody, so the   *)
(* variables hold committed rows and `lock` what open transactions hold.     *)
(* The head row exists: its creation is AuditLedger's subject, and so is the *)
(* chain, here the plain log that AuditLedger is proved to implement.        *)
(***************************************************************************)
EXTENDS AccessPolicy, Sequences, FiniteSets

CONSTANTS Vault,       \* vault names: unique in the tenant, even once deleted
          Secret,      \* secret names: unique in their vault, even once deleted
          VaultOf,     \* the vault of each secret
          User,        \* users, each with its membership
          RoleOf,      \* their roles at the start
          Existing,    \* the vaults and secrets there are at the start
          Request,     \* one-shot HTTP requests
          Menu,        \* the operations they may ask for
          ChainHead,   \* the row audit_chain_head
          Nobody       \* no transaction

SecretKind == {"createSecret", "reveal", "rotate", "deleteSecret"}
Kind == SecretKind \cup {"createVault", "updateVault", "deleteVault",
                         "grant", "revokeGrant", "removeMember"}

(* `on` is the vault or the secret of the operation, `whom` the member that  *)
(* a grant or a removal is about; operations that need none carry any.       *)
Operation == [kind : Kind, actor : User, on : Vault \cup Secret, whom : User,
              permission : VaultPermission \ {"none"}]

ASSUME TenantAssumption ==
    /\ VaultOf \in [Secret -> Vault]
    /\ RoleOf \in [User -> OrgRole]
    /\ Existing \subseteq Vault \cup Secret
    /\ \A s \in Secret : s \in Existing => VaultOf[s] \in Existing
    /\ Menu \subseteq Operation /\ Menu # {}
    /\ \A o \in Menu : o.on \in Secret <=> o.kind \in SecretKind
    /\ Nobody \notin Request

VARIABLES
    vault,      \* vault[v]: "absent", "active" or "deleted"
    secret,     \* secret[s]: likewise
    current,    \* current_version of each secret, 0 while absent
    versions,   \* versions[s][n]: what version row n of s was encrypted for
    role,       \* role[u]: role of u's membership, "none" once removed
    grant,      \* grant[<<v, u>>]: permission of the grant row, or "none"
    log,        \* the audit events, oldest first
    lock,       \* lock[row]: the transaction holding a row
    pc,         \* where each request is, or its HTTP status
    op,         \* its operation
    plan,       \* what its statements found
    denied,     \* requests recording a denial
    doomed      \* requests whose actor, vault or secret was gone when they began

dataVars == <<vault, secret, current, versions, role, grant>>
vars == <<dataVars, log, lock, pc, op, plan, denied, doomed>>

Row == Vault \cup Secret \cup User \cup (Vault \X User) \cup {ChainHead}
Working == {"authorize", "act", "write", "cascade", "record", "commit"}
Status == {"ok", "403", "404", "409", "500"}

NoPlan == [version |-> 0, created |-> FALSE, hit |-> FALSE]

(* The operation of a request that is not at work.                           *)
AnyOperation == CHOOSE o \in Menu : TRUE

(* The vault a request is about.                                            *)
VaultFor(o) == IF o.on \in Secret THEN VaultOf[o.on] ELSE o.on
GrantRow(o) == <<o.on, IF o.kind = "createVault" THEN o.actor ELSE o.whom>>

(* The additional data a version row is sealed with.                         *)
secret_aad(s, n) == <<s, n>>

(* An existing secret has its first version.                                 *)
VersionsBefore(s) == IF s \in Existing THEN 1 ELSE 0

Init ==
    /\ vault = [v \in Vault |-> IF v \in Existing THEN "active" ELSE "absent"]
    /\ secret = [s \in Secret |-> IF s \in Existing THEN "active" ELSE "absent"]
    /\ current = [s \in Secret |-> VersionsBefore(s)]
    /\ versions = [s \in Secret |-> [n \in 1..VersionsBefore(s) |-> secret_aad(s, n)]]
    /\ role = RoleOf
    /\ grant = [g \in Vault \X User |-> "none"]
    /\ log = <<>>
    /\ lock = [row \in Row |-> Nobody]
    /\ pc = [r \in Request |-> "idle"]
    /\ op = [r \in Request |-> AnyOperation]
    /\ plan = [r \in Request |-> NoPlan]
    /\ denied = {}
    /\ doomed = {}

Goto(r, where) == pc' = [pc EXCEPT ![r] = where]
Take(r, rows) == lock' = [row \in Row |-> IF row \in rows THEN r ELSE lock[row]]
Release(r) == lock' = [row \in Row |-> IF lock[row] = r THEN Nobody ELSE lock[row]]

(* The rows whose lock the next statement of r needs: an UPDATE or DELETE     *)
(* waits only for a row it matches, an INSERT for an open transaction that    *)
(* inserted the same unique key, the flush of a new grant also for the        *)
(* membership it references.                                                  *)
Wanted(r) ==
    LET o == op[r] IN
    CASE pc[r] = "act" /\ o.kind \in {"createVault", "createSecret"} -> {o.on}
      [] pc[r] = "act" /\ o.kind = "deleteVault" ->
            IF vault[o.on] = "active" THEN {o.on} ELSE {}
      [] pc[r] = "act" /\ o.kind \in {"rotate", "deleteSecret"} ->
            IF secret[o.on] = "active" THEN {o.on} ELSE {}
      [] pc[r] = "act" /\ o.kind = "revokeGrant" ->
            IF grant[GrantRow(o)] # "none" THEN {GrantRow(o)} ELSE {}
      [] pc[r] = "write" /\ o.kind = "updateVault" -> {o.on}
      [] pc[r] = "write" /\ o.kind = "removeMember" ->
            IF role[o.whom] # "none" THEN {o.whom} ELSE {}
      [] pc[r] = "cascade" ->
            {<<v, o.whom>> : v \in {w \in Vault : grant[<<w, o.whom>>] # "none"}}
      [] pc[r] = "record" -> {ChainHead}
      [] pc[r] = "commit" /\ r \notin denied /\ o.kind \in {"grant", "createVault"} ->
            {GrantRow(o)} \cup (IF plan[r].created THEN {GrantRow(o)[2]} ELSE {})
      [] OTHER -> {}

Blockers(r) == {lock[row] : row \in Wanted(r)} \ {Nobody, r}

(* Cut off by the deletion of its vault or secret or the removal of its       *)
(* actor, all of it committed before the request arrived.                     *)
DeadOnArrival(o) ==
    \/ role[o.actor] = "none"
    \/ o.kind \notin {"createVault", "removeMember"} /\ vault[VaultFor(o)] = "deleted"
    \/ o.on \in Secret /\ secret[o.on] = "deleted"

Begin(r, o) ==
    /\ pc[r] = "idle"
    /\ Goto(r, "authorize")
    /\ op' = [op EXCEPT ![r] = o]
    /\ doomed' = IF DeadOnArrival(o) THEN doomed \cup {r} ELSE doomed
    /\ UNCHANGED <<dataVars, log, lock, plan, denied>>

(* The statements of r are done, with rows locked: record() comes next.      *)
Recorded(r, rows, found) ==
    /\ Goto(r, "record")
    /\ Take(r, rows)
    /\ plan' = [plan EXCEPT ![r] = found]
    /\ UNCHANGED <<dataVars, log, op, denied, doomed>>

(* The request is answered; nothing of it is left but the answer.            *)
Answer(r, status) ==
    /\ Goto(r, status)
    /\ op' = [op EXCEPT ![r] = AnyOperation]
    /\ plan' = [plan EXCEPT ![r] = NoPlan]
    /\ denied' = denied \ {r}
    /\ UNCHANGED doomed

(* Fault: the exception leaves the transaction, and its locks, open.          *)
FailHoldingLocks(r, status) ==
    /\ Answer(r, status)
    /\ UNCHANGED <<dataVars, log, lock>>

(* An exception of the service: the unit of work rolls back.                 *)
Fail(r, status) ==
    /\ Answer(r, status)
    /\ Release(r)
    /\ UNCHANGED <<dataVars, log>>

(* A read, or a statement that locks nothing, before the next one.           *)
Continue(r, where, rows) ==
    /\ Goto(r, where)
    /\ Take(r, rows)
    /\ UNCHANGED <<dataVars, log, op, plan, denied, doomed>>

ActionOf == [createVault |-> "vault.create", updateVault |-> "vault.update",
             deleteVault |-> "vault.delete", grant |-> "grant.manage",
             revokeGrant |-> "grant.manage", createSecret |-> "secret.write",
             reveal |-> "secret.reveal", rotate |-> "secret.write",
             deleteSecret |-> "secret.delete", removeMember |-> "member.remove"]

(* Fault: the role is the one the access token was issued with.              *)
VerdictFromToken(o) ==
    LET a == ActionOf[o.kind]
        v == VaultFor(o)
    IN  IF a \in OrgAction THEN require_org(RoleOf[o.actor], a)
        ELSE require_vault(vault[v] = "active", RoleOf[o.actor], grant[<<v, o.actor>>], a)

(* require_org or require_vault.  A refusal that is to be audited rolls back *)
(* and goes on in the unit of work of RecordAccessDenial.                    *)
Verdict(o) ==
    LET a == ActionOf[o.kind]
        v == VaultFor(o)
    IN  IF a \in OrgAction THEN require_org(role[o.actor], a)
        ELSE require_vault(vault[v] = "active", role[o.actor], grant[<<v, o.actor>>], a)

Authorize(r) ==
    LET verdict == Verdict(op[r]) IN
    /\ pc[r] = "authorize"
    /\ \/ verdict = "allow" /\ Continue(r, "act", {})
       \/ verdict = "forbidden" /\ Fail(r, "403")
       \/ verdict = "not_found" /\ Fail(r, "404")
       \/ /\ verdict = "forbidden_audited"
          /\ Goto(r, "record")
          /\ denied' = denied \cup {r}
          /\ UNCHANGED <<dataVars, log, lock, op, plan, doomed>>

(* vaults.add flushes the row; the creator's admin grant is only planned.    *)
CreateVault(r) ==
    LET v == op[r].on IN
    /\ op[r].kind = "createVault"
    /\ \/ vault[v] # "absent" /\ Fail(r, "500")
       \/ vault[v] = "absent" /\ role[op[r].actor] = "none" /\ Fail(r, "403")
       \/ /\ vault[v] = "absent" /\ role[op[r].actor] # "none"
          /\ Recorded(r, {v}, [NoPlan EXCEPT !.created = TRUE])

(* vaults.update: SELECT the active row ...                                  *)
FindVault(r) ==
    /\ op[r].kind = "updateVault"
    /\ \/ vault[op[r].on] # "active" /\ Fail(r, "500")
       \/ vault[op[r].on] = "active" /\ Continue(r, "write", {})

(* ... and flush an UPDATE by primary key, whatever became of the row.       *)
UpdateVault(r) ==
    /\ op[r].kind = "updateVault"
    /\ Recorded(r, {op[r].on}, NoPlan)

(* vaults.soft_delete: the number of rows it changed is not looked at.       *)
DeleteVault(r) ==
    LET hit == vault[op[r].on] = "active" IN
    /\ op[r].kind = "deleteVault"
    /\ Recorded(r, IF hit THEN {op[r].on} ELSE {}, [NoPlan EXCEPT !.hit = hit])

(* upsert_grant reads the target membership and the grant row: to insert, or *)
(* to update, at commit.                                                     *)
PlanGrant(r) ==
    /\ op[r].kind = "grant"
    /\ \/ role[op[r].whom] = "none" /\ Fail(r, "404")
       \/ /\ role[op[r].whom] # "none"
          /\ Recorded(r, {}, [NoPlan EXCEPT !.created = grant[GrantRow(op[r])] = "none"])

RevokeGrant(r) ==
    LET g == GrantRow(op[r]) IN
    /\ op[r].kind = "revokeGrant"
    /\ \/ grant[g] = "none" /\ Fail(r, "404")
       \/ grant[g] # "none" /\ Recorded(r, {g}, NoPlan)

(* secrets.add and the first version row, both flushed.                      *)
CreateSecret(r) ==
    LET s == op[r].on IN
    /\ op[r].kind = "createSecret"
    /\ \/ secret[s] # "absent" /\ Fail(r, "409")
       \/ secret[s] = "absent" /\ Recorded(r, {s}, [NoPlan EXCEPT !.version = 1])

(* Opening a version row with the additional data of its place.              *)
Decrypts(s, n) == versions[s][n] = secret_aad(s, n)

(* The version of the request, or the current one.                           *)
RevealSecret(r) ==
    LET s == op[r].on IN
    /\ op[r].kind = "reveal"
    /\ \/ secret[s] # "active" /\ Fail(r, "404")
       \/ /\ secret[s] = "active"
          /\ \E wanted \in 1..(current[s] + 1) :
                \/ wanted \notin DOMAIN versions[s] /\ Fail(r, "404")
                \/ /\ wanted \in DOMAIN versions[s]
                   /\ IF Decrypts(s, wanted)
                      THEN Recorded(r, {}, [NoPlan EXCEPT !.version = wanted])
                      ELSE Fail(r, "500")

(* Fault: get_active, without FOR UPDATE.                                    *)
RotateUnlocked(r) ==
    LET s == op[r].on IN
    /\ op[r].kind = "rotate"
    /\ \/ secret[s] # "active" /\ Fail(r, "404")
       \/ /\ secret[s] = "active"
          /\ Recorded(r, {}, [NoPlan EXCEPT !.version = current[s] + 1])

(* get_active_for_update, then the next version row and current_version.     *)
RotateSecret(r) ==
    LET s == op[r].on IN
    /\ op[r].kind = "rotate"
    /\ \/ secret[s] # "active" /\ Fail(r, "404")
       \/ /\ secret[s] = "active"
          /\ Recorded(r, {s}, [NoPlan EXCEPT !.version = current[s] + 1])

(* Fault: the secret is marked deleted in the session and flushed at commit. *)
DeleteSecretDeferred(r) ==
    LET s == op[r].on IN
    /\ op[r].kind = "deleteSecret"
    /\ \/ secret[s] # "active" /\ Fail(r, "404")
       \/ secret[s] = "active" /\ Recorded(r, {}, NoPlan)

(* get_active and soft_delete, whose row count is looked at.                 *)
DeleteSecret(r) ==
    LET s == op[r].on IN
    /\ op[r].kind = "deleteSecret"
    /\ \/ secret[s] # "active" /\ Fail(r, "404")
       \/ secret[s] = "active" /\ Recorded(r, {s}, NoPlan)

(* remove_member's checks on the target it has read ...                      *)
CheckRemoval(r) ==
    LET o == op[r]
        untouchable == \/ o.whom = o.actor
                       \/ role[o.whom] = "owner"
                       \/ role[o.actor] = "admin" /\ role[o.whom] = "admin"
    IN
    /\ o.kind = "removeMember"
    /\ \/ role[o.whom] = "none" /\ Fail(r, "404")
       \/ role[o.whom] # "none" /\ untouchable /\ Fail(r, "409")
       \/ role[o.whom] # "none" /\ ~untouchable /\ Continue(r, "write", {})

(* Fault: the membership is deleted through the session, at commit.          *)
RemoveMemberDeferred(r) ==
    /\ op[r].kind = "removeMember"
    /\ Continue(r, "cascade", {})

(* ... then DELETE locks the membership row ...                              *)
RemoveMember(r) ==
    LET u == op[r].whom IN
    /\ op[r].kind = "removeMember"
    /\ \/ role[u] = "none" /\ Fail(r, "404")
       \/ role[u] # "none" /\ Continue(r, "cascade", {u})

(* ... and ON DELETE CASCADE the grant rows that hang on it.                 *)
CascadeGrants(r) == Recorded(r, Wanted(r), NoPlan)

(* One statement of the domain service, once the rows it needs are free.     *)
Statement(r) ==
    /\ Blockers(r) = {}
    /\ \/ /\ pc[r] = "act"
          /\ \/ CreateVault(r) \/ FindVault(r) \/ DeleteVault(r)
             \/ PlanGrant(r) \/ RevokeGrant(r)
             \/ CreateSecret(r) \/ RevealSecret(r) \/ RotateSecret(r)
             \/ DeleteSecret(r) \/ CheckRemoval(r)
       \/ pc[r] = "write" /\ (UpdateVault(r) \/ RemoveMember(r))
       \/ pc[r] = "cascade" /\ CascadeGrants(r)

(* AuditService.record: lock_or_create_head.                                 *)
LockHead(r) ==
    /\ pc[r] = "record"
    /\ Blockers(r) = {}
    /\ Continue(r, "commit", {ChainHead})

(* Fault: the upsert writes whatever it finds, with no key constraints.      *)
GrantNeverStale(r) == FALSE

(* The flush meets a row that is no longer as it was read: a unique or        *)
(* foreign key violation, or an UPDATE that matches nothing.                  *)
StaleGrant(r) ==
    LET g == GrantRow(op[r]) IN
    /\ op[r].kind \in {"grant", "createVault"}
    /\ IF plan[r].created THEN grant[g] # "none" \/ role[g[2]] = "none"
       ELSE grant[g] = "none"

StaleVersion(r) == op[r].kind = "rotate" /\ plan[r].version \in DOMAIN versions[op[r].on]

StaleWrite(r) == r \notin denied /\ (StaleGrant(r) \/ StaleVersion(r))

Entry(r, action, target, detail) ==
    [action |-> action, target |-> target, detail |-> detail, actor |-> op[r].actor]

(* The event each use case records.                                          *)
SecretEvent(r) ==
    LET o == op[r] IN
    CASE o.kind = "createSecret" -> Entry(r, "secret.created", o.on, 1)
      [] o.kind = "reveal" -> Entry(r, "secret.revealed", o.on, plan[r].version)
      [] o.kind = "rotate" -> Entry(r, "secret.rotated", o.on, plan[r].version)
      [] o.kind = "deleteSecret" -> Entry(r, "secret.deleted", o.on, 0)

VaultEvent(r) ==
    LET o == op[r] IN
    CASE o.kind = "createVault" -> Entry(r, "vault.created", o.on, 0)
      [] o.kind = "updateVault" -> Entry(r, "vault.updated", o.on, 0)
      [] o.kind = "deleteVault" -> Entry(r, "vault.deleted", o.on, 0)

GrantEvent(r) ==
    LET o == op[r] IN
    CASE o.kind = "grant" -> Entry(r, IF plan[r].created THEN "grant.created" ELSE "grant.updated",
                                   GrantRow(o), rank[o.permission])
      [] o.kind = "revokeGrant" -> Entry(r, "grant.revoked", GrantRow(o), 0)

Event(r) ==
    IF r \in denied THEN Entry(r, "access.denied", op[r].on, 0) ELSE
    CASE op[r].kind \in SecretKind -> SecretEvent(r)
      [] op[r].kind \in {"createVault", "updateVault", "deleteVault"} -> VaultEvent(r)
      [] op[r].kind \in {"grant", "revokeGrant"} -> GrantEvent(r)
      [] op[r].kind = "removeMember" -> Entry(r, "member.removed", op[r].whom, 0)

(* What the statements of r have written, published by its commit.           *)
VaultRows(r) ==
    LET o == op[r] IN
    vault' = CASE o.kind = "createVault" -> [vault EXCEPT ![o.on] = "active"]
               [] o.kind = "deleteVault" /\ plan[r].hit -> [vault EXCEPT ![o.on] = "deleted"]
               [] OTHER -> vault

SecretRows(r) ==
    LET o == op[r]
        n == plan[r].version
    IN
    /\ secret' = CASE o.kind = "createSecret" -> [secret EXCEPT ![o.on] = "active"]
                   [] o.kind = "deleteSecret" -> [secret EXCEPT ![o.on] = "deleted"]
                   [] OTHER -> secret
    /\ current' = IF o.kind \in {"createSecret", "rotate"}
                  THEN [current EXCEPT ![o.on] = n] ELSE current

VersionRows(r) ==
    LET o == op[r]
        n == plan[r].version
    IN
    versions' = IF o.kind \in {"createSecret", "rotate"}
                THEN [versions EXCEPT ![o.on] = [i \in DOMAIN @ \cup {n} |->
                          IF i = n THEN secret_aad(o.on, n) ELSE @[i]]]
                ELSE versions

MemberRows(r) ==
    role' = IF op[r].kind = "removeMember" THEN [role EXCEPT ![op[r].whom] = "none"] ELSE role

GrantRows(r) ==
    LET o == op[r] IN
    grant' = CASE o.kind = "createVault" -> [grant EXCEPT ![GrantRow(o)] = "admin"]
               [] o.kind = "grant" -> [grant EXCEPT ![GrantRow(o)] = o.permission]
               [] o.kind = "revokeGrant" -> [grant EXCEPT ![GrantRow(o)] = "none"]
               [] o.kind = "removeMember" ->
                     [g \in Vault \X User |-> IF g[2] = o.whom THEN "none" ELSE grant[g]]
               [] OTHER -> grant

Effect(r) == VaultRows(r) /\ SecretRows(r) /\ VersionRows(r) /\ MemberRows(r) /\ GrantRows(r)

(* uow.commit(): flush, or fail to, and publish everything at once.          *)
Commit(r) ==
    /\ pc[r] = "commit"
    /\ Blockers(r) = {}
    /\ \/ StaleWrite(r) /\ Fail(r, "500")
       \/ /\ ~StaleWrite(r)
          /\ IF r \in denied THEN UNCHANGED dataVars ELSE Effect(r)
          /\ log' = Append(log, Event(r))
          /\ Answer(r, IF r \in denied THEN "403" ELSE "ok")
          /\ Release(r)

(* An error, a lost connection or a crash anywhere before the commit.        *)
Abort(r) == pc[r] \in Working /\ Fail(r, "500")

(* Transactions that all wait for one of themselves, and no fewer: a cycle.  *)
Stuck(D) == D # {} /\ \A r \in D : Blockers(r) \cap D # {}

Cycle(D) == Stuck(D) /\ \A E \in SUBSET D : Stuck(E) => E = D

(* PostgreSQL's deadlock detector aborts a transaction of the cycle.         *)
DeadlockVictim(r) ==
    /\ Blockers(r) # {}
    /\ \E D \in SUBSET Request : r \in D /\ Cycle(D)
    /\ Fail(r, "500")

Proceed(r) == Authorize(r) \/ Statement(r) \/ LockHead(r) \/ Commit(r) \/ DeadlockVictim(r)

Next == \E r \in Request : (\E o \in Menu : Begin(r, o)) \/ Proceed(r) \/ Abort(r)

Spec == Init /\ [][Next]_vars

(* A running request that is not blocked goes on, and a deadlock is detected. *)
FairSpec == Spec /\ \A r \in Request : WF_vars(Proceed(r))
-------------------------------------------------------------------------------
Events(action, target) ==
    {i \in DOMAIN log : log[i].action = action /\ log[i].target = target}

AuditAction == {"secret.created", "secret.revealed", "secret.rotated", "secret.deleted",
                "vault.created", "vault.updated", "vault.deleted", "grant.created",
                "grant.updated", "grant.revoked", "member.removed", "access.denied"}
LogEntry == [action : AuditAction, target : Row, detail : Nat, actor : User]

(* Every variable has its type.                                              *)
TypeOK ==
    /\ vault \in [Vault -> {"absent", "active", "deleted"}]
    /\ secret \in [Secret -> {"absent", "active", "deleted"}]
    /\ current \in [Secret -> Nat]
    /\ \A s \in Secret : DOMAIN versions[s] \subseteq Nat
    /\ role \in [User -> OrgRole \cup {"none"}]
    /\ grant \in [Vault \X User -> VaultPermission]
    /\ log \in Seq(LogEntry)
    /\ lock \in [Row -> Request \cup {Nobody}]
    /\ pc \in [Request -> {"idle"} \cup Working \cup Status]
    /\ op \in [Request -> Menu]
    /\ plan \in [Request -> [version : Nat, created : BOOLEAN, hit : BOOLEAN]]
    /\ denied \subseteq Request
    /\ doomed \subseteq Request

Writes(s) == Events("secret.created", s) \cup Events("secret.rotated", s)

(* The audit log tells the history of a secret: the version rows are         *)
(* those its creation and rotations announced, numbered without gaps in the  *)
(* order of the log and each sealed for its own place; a deletion is logged   *)
(* once and nothing is written after it; and a revelation names a version    *)
(* that an earlier entry wrote.                                              *)
SecretFollowsLog(s) ==
    LET deletions == Events("secret.deleted", s) IN
    /\ DOMAIN versions[s] = 1..current[s]
    /\ current[s] = VersionsBefore(s) + Cardinality(Writes(s))
    /\ \A i \in Writes(s) :
          log[i].detail = VersionsBefore(s) + Cardinality({j \in Writes(s) : j <= i})
    /\ \A n \in DOMAIN versions[s] : Decrypts(s, n)
    /\ secret[s] = "absent" <=> s \notin Existing /\ Writes(s) = {}
    /\ secret[s] = "deleted" <=> deletions # {}
    /\ Cardinality(deletions) <= 1
    /\ \A d \in deletions, i \in Writes(s) : i < d
    /\ \A i \in Events("secret.revealed", s) :
          \/ log[i].detail <= VersionsBefore(s)
          \/ \E j \in Writes(s) : j < i /\ log[j].detail = log[i].detail

(* The audit log tells the whole history of every secret: its version rows,   *)
(* its deletion and its revelations are those the log names, in its order.    *)
SecretsFollowLog == \A s \in Secret : SecretFollowsLog(s)

(* The entries that bear on the grant of user u on vault v.                  *)
BearsOn(entry, v, u) ==
    \/ /\ entry.action \in {"grant.created", "grant.updated", "grant.revoked"}
       /\ entry.target = <<v, u>>
    \/ entry.action = "member.removed" /\ entry.target = u
    \/ entry.action = "vault.created" /\ entry.target = v /\ entry.actor = u

GrantEntries(v, u) == {i \in DOMAIN log : BearsOn(log[i], v, u)}

GrantAfter(entry) ==
    CASE entry.action \in {"grant.created", "grant.updated"} -> entry.detail
      [] entry.action = "vault.created" -> rank["admin"]
      [] OTHER -> rank["none"]

Last(entries) == CHOOSE i \in entries : \A j \in entries : j <= i

(* The permission that the last of the entries leaves.                       *)
GrantTold(entries) == IF entries = {} THEN rank["none"] ELSE GrantAfter(log[Last(entries)])

GrantFollowsLog(v, u) == rank[grant[<<v, u>>]] = GrantTold(GrantEntries(v, u))

RoleFollowsLog(u) ==
    LET removals == Events("member.removed", u) IN
    /\ role[u] = IF removals = {} THEN RoleOf[u] ELSE "none"
    /\ Cardinality(removals) <= 1

VaultFollowsLog(v) ==
    /\ vault[v] = "absent" <=> v \notin Existing /\ Events("vault.created", v) = {}
    /\ vault[v] = "deleted" <=> Events("vault.deleted", v) # {}

(* The audit log tells who may do what: the last entry about a grant gives   *)
(* its permission, members are gone exactly when their removal is logged,    *)
(* once, and vaults are there from their creation to their first deletion.   *)
AccessFollowsLog ==
    /\ \A v \in Vault, u \in User : GrantFollowsLog(v, u)
    /\ \A u \in User : RoleFollowsLog(u)
    /\ \A v \in Vault : VaultFollowsLog(v)

EntriesBefore(v, u, i) == {j \in GrantEntries(v, u) : j < i}

UpsertTold(v, u, i) ==
    LET was == GrantTold(EntriesBefore(v, u, i)) IN
    /\ i \in Events("grant.created", <<v, u>>) => was = rank["none"]
    /\ i \in Events("grant.updated", <<v, u>>) => was # rank["none"]

(* "created" and "updated" are told apart rightly, although the upsert reads  *)
(* the grant row long before it writes it: a created grant was not there.    *)
UpsertToldTruly == \A v \in Vault, u \in User, i \in DOMAIN log : UpsertTold(v, u, i)

(* A rotation that has read current_version for update still has the newest   *)
(* value when it commits: FOR UPDATE keeps other rotations and the deletion   *)
(* out, so uq_secret_version never has to refuse a version row.               *)
RotationReadIsCurrent ==
    \A r \in Request :
        op[r].kind = "rotate" /\ pc[r] \in {"record", "commit"} /\ r \notin denied =>
            /\ secret[op[r].on] = "active"
            /\ plan[r].version = current[op[r].on] + 1

(* A request that arrives after its vault or secret was deleted, or after its *)
(* actor was removed, never succeeds, however it interleaves with others.     *)
NoLateSuccess == \A r \in doomed : pc[r] # "ok"

(* What is deleted stays deleted, a removed member stays removed, version    *)
(* rows are never changed and the log only grows.                            *)
PastIsKept ==
    /\ \A v \in Vault : vault[v] = "deleted" => vault'[v] = "deleted"
    /\ \A s \in Secret :
          /\ secret[s] = "deleted" => secret'[s] = "deleted" /\ current'[s] = current[s]
          /\ \A n \in DOMAIN versions[s] :
                n \in DOMAIN versions'[s] /\ versions'[s][n] = versions[s][n]
    /\ \A u \in User : role[u] = "none" => role'[u] = "none"
    /\ Len(log) <= Len(log') /\ SubSeq(log', 1, Len(log)) = log

(* No step changes the past.                                                 *)
HistoryIsKept == [][PastIsKept]_vars

(* Every request that begins is answered, if need be with an error after a   *)
(* deadlock was broken.                                                      *)
EveryRequestAnswered ==
    \A r \in Request : (pc[r] \in Working) ~> (pc[r] \in Status)

(* What makes these inductive.  Version rows are numbered without gaps and    *)
(* sealed for their place, a secret to be created has none, and the log wrote *)
(* each of them.                                                              *)
SealedInPlace ==
    /\ versions = [s \in Secret |-> [n \in 1..current[s] |-> secret_aad(s, n)]]
    /\ \A s \in Secret : secret[s] = "absent" => current[s] = 0

EveryVersionLogged(s) ==
    \A n \in (VersionsBefore(s) + 1)..current[s] : \E i \in Writes(s) : log[i].detail = n

(* Entries that are finitely many have a last one.                            *)
HasLast(entries) == entries = {} \/ \E i \in entries : \A j \in entries : j <= i
LastExists ==
    \A v \in Vault, u \in User :
        HasLast(GrantEntries(v, u)) /\ \A i \in DOMAIN log : HasLast(EntriesBefore(v, u, i))

Acted(r) == pc[r] \in {"record", "commit"} /\ r \notin denied

(* The row a request has locked is still as its statement found it.           *)
RowsHeld(r) ==
    LET o == op[r] IN
    /\ pc[r] = "act" /\ o.kind = "deleteVault" => vault[o.on] # "absent"
    /\ pc[r] = "cascade" => o.kind = "removeMember"
    /\ pc[r] = "cascade" \/ (Acted(r) /\ o.kind = "removeMember") =>
          lock[o.whom] = r /\ role[o.whom] # "none"
    /\ Acted(r) /\ o.kind = "createVault" =>
          lock[o.on] = r /\ vault[o.on] = "absent" /\ plan[r].created
    /\ Acted(r) /\ o.kind = "deleteVault" =>
          IF plan[r].hit THEN lock[o.on] = r /\ vault[o.on] = "active"
          ELSE vault[o.on] = "deleted"
    /\ Acted(r) /\ o.kind = "createSecret" =>
          lock[o.on] = r /\ secret[o.on] = "absent" /\ current[o.on] = 0 /\ plan[r].version = 1
    /\ Acted(r) /\ o.kind = "rotate" =>
          lock[o.on] = r /\ secret[o.on] = "active" /\ plan[r].version = current[o.on] + 1
    /\ Acted(r) /\ o.kind = "deleteSecret" => lock[o.on] = r /\ secret[o.on] = "active"
    /\ Acted(r) /\ o.kind = "reveal" => plan[r].version \in 1..current[o.on]

(* A request that came too late stays too late, and only one whose secret    *)
(* alone is gone gets past its authorization, to fail at its statement.       *)
LateIsStopped(r) ==
    r \in doomed =>
        /\ pc[r] \notin {"idle", "ok"}
        /\ pc[r] \in Working => DeadOnArrival(op[r])
        /\ pc[r] \in Working \ {"authorize"} /\ r \notin denied =>
              pc[r] = "act" /\ op[r].on \in Secret /\ secret[op[r].on] = "deleted"

RowsInv == SealedInPlace /\ \A r \in Request : RowsHeld(r) /\ LateIsStopped(r)
================================================================================
