--------------------------- MODULE TenantConnections ---------------------------
(***************************************************************************)
(* Units of work on pooled connections: SqlAlchemyUnitOfWork, which pins a   *)
(* tenant to its transaction with set_config(..., true) for the row-level    *)
(* security of the app role, SqlAlchemyIdentityUnitOfWork, whose role        *)
(* bypasses it, and four requests that use them one after the other:         *)
(*                                                                         *)
(*   register  RegisterUser, which commits the tenant and then provisions    *)
(*             its key in a tenant unit of work, trying twice                *)
(*   seal      CreateSecret under the tenant's active key                    *)
(*   probe     a lookup by id alone (MembershipAccess.get_membership_tenant) *)
(*   denied    a refused mutation and RecordAccessDenial                     *)
(*                                                                         *)
(* The routes of the last three run require_mfa_if_owner, an identity unit,  *)
(* first.  A unit waits for a connection of its pool; connections break,     *)
(* statements fail, and a commit whose answer was lost may take effect later. *)
(***************************************************************************)
EXTENDS Naturals, Sequences

CONSTANTS Request,       \* numbered in the order in which they arrive
          Tenant,
          AppConn,       \* connections of the app role's pool
          IdentityConn,  \* connections of the identity role's pool
          Nobody, Leaked, NoTenant

ASSUME ConnectionAssumption ==
    /\ Request \subseteq Nat
    /\ AppConn \cap IdentityConn = {}
    /\ {Nobody, Leaked} \cap Request = {} /\ Nobody # Leaked
    /\ NoTenant \notin Tenant

Conn == AppConn \cup IdentityConn

VARIABLES
    req,       \* req[r]: what request r is, for which tenant, and the tenant of
               \* the row a probe asks for
    unit,      \* unit[r]: the index of its unit of work
    phase,     \* phase[r]: where it is in that unit, or its answer
    attempt,   \* attempt[r]: tries of the key provision so far
    plan,      \* plan[r]: rows its open transaction has written
    holder,    \* holder[c]: who has checked connection c out
    local,     \* local[c]: app.current_tenant set for the transaction
    session,   \* session[c]: app.current_tenant set for the connection
    tenants,   \* committed organizations
    keys,      \* committed rows of tenant_key_version
    sealed,    \* committed secret versions, with the key that sealed them
    doubt,     \* commits the server was sent before their connection broke
    seen       \* seen[r]: tenants of the rows its tenant units were shown

vars == <<req, unit, phase, attempt, plan, holder, local, session,
          tenants, keys, sealed, doubt, seen>>
tables == <<tenants, keys, sealed, doubt>>

Kind == {"register", "seal", "probe", "denied"}
Open == {"opened", "scoped", "worked"}
Answer == {"200", "201", "403", "404", "4xx", "500"}
NoPlan == [tenants |-> {}, keys |-> {}, sealed |-> {}]

(* A key is named by the attempt that generated it.                          *)
KeyRow == [tenant : Tenant, dek : Request \X {1, 2}]
Rows == [tenants : SUBSET Tenant, keys : SUBSET KeyRow, sealed : SUBSET KeyRow]

Init ==
    /\ req = [r \in Request |-> [kind |-> "none", tenant |-> NoTenant, target |-> NoTenant]]
    /\ unit = [r \in Request |-> 1]
    /\ phase = [r \in Request |-> "idle"]
    /\ attempt = [r \in Request |-> 1]
    /\ plan = [r \in Request |-> NoPlan]
    /\ holder = [c \in Conn |-> Nobody]
    /\ local = [c \in Conn |-> NoTenant]
    /\ session = [c \in Conn |-> NoTenant]
    /\ tenants = {}
    /\ keys = {}
    /\ sealed = {}
    /\ doubt = {}
    /\ seen = [r \in Request |-> {}]

(* The units of work of a request, in order.                                 *)
Units(r) == IF req[r].kind = "denied" THEN <<"identity", "app", "app">> ELSE <<"identity", "app">>

PoolOf(r) == IF Units(r)[unit[r]] = "app" THEN AppConn ELSE IdentityConn

Holds(r, c) == holder[c] = r /\ c \in PoolOf(r)

Arrive(r, kind, x, y) ==
    /\ phase[r] = "idle" /\ \A q \in Request : q < r => phase[q] # "idle"
    /\ IF kind = "probe" THEN y \in tenants ELSE y = NoTenant
    /\ IF kind = "register"
          THEN x \notin tenants /\ \A q \in Request : req[q].tenant # x
          ELSE x \in tenants
    /\ req' = [req EXCEPT ![r] = [kind |-> kind, tenant |-> x, target |-> y]]
    /\ phase' = [phase EXCEPT ![r] = "queued"]
    /\ UNCHANGED <<unit, attempt, plan, holder, local, session, tables, seen>>

(* __aenter__: a connection from the pool.  The identity unit is ready.       *)
Checkout(r, c) ==
    /\ phase[r] = "queued"
    /\ c \in PoolOf(r) /\ holder[c] = Nobody
    /\ holder' = [holder EXCEPT ![c] = r]
    /\ phase' = [phase EXCEPT ![r] = IF c \in AppConn THEN "opened" ELSE "scoped"]
    /\ UNCHANGED <<req, unit, attempt, plan, local, session, tables, seen>>

(* Fault: the tenant is set once, when a connection is first used.            *)
PinConnection(c, x) ==
    /\ session' = [session EXCEPT ![c] = IF @ = NoTenant THEN x ELSE @]
    /\ UNCHANGED local

(* set_config('app.current_tenant', x, true): for this transaction.           *)
PinTransaction(c, x) ==
    /\ local' = [local EXCEPT ![c] = x]
    /\ UNCHANGED session

SetConfig(r, c) ==
    /\ phase[r] = "opened" /\ Holds(r, c)
    /\ PinTransaction(c, req[r].tenant)
    /\ phase' = [phase EXCEPT ![r] = "scoped"]
    /\ UNCHANGED <<req, unit, attempt, plan, holder, tables, seen>>

(* current_setting('app.current_tenant', true), and the policy of             *)
(* scripts/rls/policies: a row is there for its tenant only; with no setting  *)
(* there are no rows.                                                         *)
Setting(c) == IF local[c] # NoTenant THEN local[c] ELSE session[c]
Visible(c, rows) == {row \in rows : row.tenant = Setting(c)}

(* The transaction is over: what was set for it is forgotten, and close()     *)
(* gives the connection back.                                                 *)
Return(c) ==
    /\ local' = [local EXCEPT ![c] = NoTenant]
    /\ holder' = [holder EXCEPT ![c] = Nobody]
    /\ UNCHANGED session

(* The connection is broken: the pool replaces it.                            *)
Replace(c, owner) ==
    /\ local' = [local EXCEPT ![c] = NoTenant]
    /\ session' = [session EXCEPT ![c] = NoTenant]
    /\ holder' = [holder EXCEPT ![c] = owner]

Finish(r, answer) ==
    /\ phase' = [phase EXCEPT ![r] = answer]
    /\ plan' = [plan EXCEPT ![r] = NoPlan]
    /\ UNCHANGED <<unit, attempt>>

NextUnit(r) ==
    /\ unit' = [unit EXCEPT ![r] = @ + 1]
    /\ phase' = [phase EXCEPT ![r] = "queued"]
    /\ plan' = [plan EXCEPT ![r] = NoPlan]
    /\ UNCHANGED attempt

Provisioning(r) == req[r].kind = "register" /\ unit[r] = 2

(* Fault: RegisterUser passes over the second failure too.                    *)
RaiseSwallowed(r) ==
    \/ /\ Provisioning(r) /\ attempt[r] = 1
       /\ attempt' = [attempt EXCEPT ![r] = 2]
       /\ phase' = [phase EXCEPT ![r] = "queued"]
       /\ plan' = [plan EXCEPT ![r] = NoPlan]
       /\ UNCHANGED unit
    \/ /\ ~(Provisioning(r) /\ attempt[r] = 1)
       /\ Finish(r, IF Provisioning(r) THEN "201" ELSE "500")

(* An exception leaves the unit.  RegisterUser catches that of the first      *)
(* provision and opens another unit; any other one answers the request.       *)
Raise(r) ==
    \/ /\ Provisioning(r) /\ attempt[r] = 1
       /\ attempt' = [attempt EXCEPT ![r] = 2]
       /\ phase' = [phase EXCEPT ![r] = "queued"]
       /\ plan' = [plan EXCEPT ![r] = NoPlan]
       /\ UNCHANGED unit
    \/ /\ ~(Provisioning(r) /\ attempt[r] = 1)
       /\ Finish(r, "500")

(* provision: the tenant's active key, or a new one.                          *)
Provision(r, c) ==
    IF \E k \in Visible(c, keys) : k.tenant = req[r].tenant
        THEN NoPlan
        ELSE [NoPlan EXCEPT !.keys = {[tenant |-> req[r].tenant, dek |-> <<r, attempt[r]>>]}]

(* load_active_dek and secret_versions.add, where there is a key.             *)
Seal(r, c) ==
    [NoPlan EXCEPT !.sealed = {k \in Visible(c, keys) : k.tenant = req[r].tenant}]

(* The statements of the unit.                                                *)
Work(r, c) ==
    LET kind == req[r].kind IN
    /\ phase[r] = "scoped" /\ Holds(r, c)
    /\ IF unit[r] = 1
          THEN /\ plan' = [plan EXCEPT ![r].tenants =
                              IF kind = "register" THEN {req[r].tenant} ELSE {}]
               /\ UNCHANGED seen
          ELSE /\ plan' = [plan EXCEPT ![r] = CASE kind = "register" -> Provision(r, c)
                                                [] kind = "seal" -> Seal(r, c)
                                                [] OTHER -> NoPlan]
               /\ seen' = [seen EXCEPT ![r] = @ \cup
                     {row.tenant : row \in IF kind = "probe"
                                              THEN Visible(c, {[tenant |-> req[r].target]})
                                              ELSE Visible(c, keys)}]
    /\ ~(kind = "seal" /\ unit[r] = 2 /\ Seal(r, c).sealed = {})
    /\ phase' = [phase EXCEPT ![r] = "worked"]
    /\ UNCHANGED <<req, unit, attempt, holder, local, session, tables>>

(* The first unit refuses: the address is taken, the user is gone, or it is   *)
(* an owner without a second factor.                                          *)
Refuse(r, c) ==
    /\ phase[r] = "scoped" /\ Holds(r, c)
    /\ unit[r] = 1
    /\ Return(c)
    /\ Finish(r, "4xx")
    /\ UNCHANGED <<req, tables, seen>>

(* NoActiveKeyError: the tenant has no key.                                   *)
NoActiveKey(r, c) ==
    /\ phase[r] = "scoped" /\ Holds(r, c)
    /\ req[r].kind = "seal" /\ unit[r] = 2
    /\ Seal(r, c).sealed = {}
    /\ Return(c)
    /\ Finish(r, "500")
    /\ UNCHANGED <<req, tables, seen>>

(* Fault: the denial is recorded inside the unit of work it is about.         *)
ForbidNested(r, c) ==
    /\ phase[r] = "worked" /\ Holds(r, c)
    /\ req[r].kind = "denied" /\ unit[r] = 2
    /\ NextUnit(r)
    /\ UNCHANGED <<req, holder, local, session, tables, seen>>

(* ForbiddenError: the unit rolls back and closes, then the denial gets its   *)
(* own.                                                                       *)
Forbid(r, c) ==
    /\ phase[r] = "worked" /\ Holds(r, c)
    /\ req[r].kind = "denied" /\ unit[r] = 2
    /\ Return(c)
    /\ NextUnit(r)
    /\ UNCHANGED <<req, tables, seen>>

(* Fault: nothing makes a tenant's key unique.                                *)
NoRival(r, rows) == TRUE

(* uq_tenant_key_version and uq_tenant_key_one_active.                         *)
Unrivalled(r, rows) == \A row \in plan[r].keys : \A k \in rows : k.tenant # row.tenant

(* The WITH CHECK of the policy, and the unique keys: an insert waits for the *)
(* transaction in doubt that has the same key.                                *)
Admissible(r, c) ==
    /\ \A row \in plan[r].keys \cup plan[r].sealed : c \in AppConn => row.tenant = Setting(c)
    /\ Unrivalled(r, keys)
    /\ \A d \in doubt : Unrivalled(r, d.keys)

Publish(p) ==
    /\ tenants' = tenants \cup p.tenants
    /\ keys' = keys \cup p.keys
    /\ sealed' = sealed \cup p.sealed

Success(r) == CASE req[r].kind = "probe" -> IF req[r].target \in seen[r] THEN "200" ELSE "404"
                [] req[r].kind = "denied" -> "403"
                [] OTHER -> "201"

Commit(r, c) ==
    /\ phase[r] = "worked" /\ Holds(r, c)
    /\ ~(req[r].kind = "denied" /\ unit[r] = 2)
    /\ Admissible(r, c)
    /\ Publish(plan[r])
    /\ Return(c)
    /\ IF unit[r] < Len(Units(r)) THEN NextUnit(r) ELSE Finish(r, Success(r))
    /\ UNCHANGED <<req, doubt, seen>>

(* SecretConflictError: the key is there by now.                              *)
Conflict(r, c) ==
    /\ phase[r] = "worked" /\ Holds(r, c)
    /\ ~Unrivalled(r, keys)
    /\ Return(c)
    /\ Raise(r)
    /\ UNCHANGED <<req, tables, seen>>

(* The connection breaks once COMMIT is sent, and the code sees an error: the *)
(* server commits all the same ...                                            *)
CommitUnanswered(r, c) ==
    /\ phase[r] = "worked" /\ Holds(r, c)
    /\ ~(req[r].kind = "denied" /\ unit[r] = 2)
    /\ Admissible(r, c)
    /\ doubt' = (doubt \cup {plan[r]}) \ {NoPlan}
    /\ Replace(c, Nobody)
    /\ Raise(r)
    /\ UNCHANGED <<req, tenants, keys, sealed, seen>>

(* ... by and by.                                                             *)
Settle(d) ==
    /\ d \in doubt
    /\ Publish(d)
    /\ doubt' = doubt \ {d}
    /\ UNCHANGED <<req, unit, phase, attempt, plan, holder, local, session, seen>>

(* A statement fails: an error of the server or a broken connection.          *)
Fail(r, c) ==
    /\ phase[r] \in {"scoped", "worked"} /\ Holds(r, c)
    /\ Return(c) \/ Replace(c, Nobody)
    /\ Raise(r)
    /\ UNCHANGED <<req, tables, seen>>

(* The pool has no connection for pool_timeout.                               *)
CheckoutTimesOut(r) ==
    /\ phase[r] = "queued"
    /\ \A c \in PoolOf(r) : holder[c] # Nobody
    /\ Raise(r)
    /\ UNCHANGED <<req, holder, local, session, tables, seen>>

(* set_config itself fails: __aenter__ raises, so __aexit__ does not run and  *)
(* the session is not closed ...                                              *)
EnterFails(r, c) ==
    /\ phase[r] = "opened" /\ Holds(r, c)
    /\ holder' = [holder EXCEPT ![c] = Leaked]
    /\ Raise(r)
    /\ UNCHANGED <<req, local, session, tables, seen>>

(* ... until the garbage collector finds it and the pool drops the connection.*)
Collect(c) ==
    /\ holder[c] = Leaked
    /\ Replace(c, Nobody)
    /\ UNCHANGED <<req, unit, phase, attempt, plan, tables, seen>>

Proceed(r) ==
    \E c \in Conn : \/ Checkout(r, c) \/ SetConfig(r, c) \/ Work(r, c)
                    \/ NoActiveKey(r, c) \/ Forbid(r, c) \/ Commit(r, c) \/ Conflict(r, c)

Break(r) ==
    \/ CheckoutTimesOut(r)
    \/ \E c \in Conn : Refuse(r, c) \/ CommitUnanswered(r, c) \/ Fail(r, c) \/ EnterFails(r, c)

Next ==
    \/ \E r \in Request : \/ Proceed(r) \/ Break(r)
                          \/ \E kind \in Kind, x \in Tenant, y \in Tenant \cup {NoTenant} :
                                Arrive(r, kind, x, y)
    \/ \E c \in Conn : Collect(c)
    \/ \E d \in doubt : Settle(d)

Spec == Init /\ [][Next]_vars

(* Requests go on when they can, the server finishes the commits it was sent, *)
(* and garbage is collected.  Nothing is obliged to arrive or to fail.        *)
FairSpec ==
    /\ Spec
    /\ \A r \in Request : WF_vars(Proceed(r))
    /\ \A c \in Conn : WF_vars(Collect(c))
    /\ WF_vars(\E d \in doubt : Settle(d))
-------------------------------------------------------------------------------
TypeOK ==
    /\ req \in [Request -> [kind : Kind \cup {"none"}, tenant : Tenant \cup {NoTenant},
                            target : Tenant \cup {NoTenant}]]
    /\ unit \in [Request -> 1 .. 3]
    /\ phase \in [Request -> {"idle", "queued"} \cup Open \cup Answer]
    /\ attempt \in [Request -> {1, 2}]
    /\ plan \in [Request -> Rows]
    /\ holder \in [Conn -> Request \cup {Nobody, Leaked}]
    /\ local \in [Conn -> Tenant \cup {NoTenant}]
    /\ session \in [Conn -> Tenant \cup {NoTenant}]
    /\ tenants \subseteq Tenant
    /\ keys \subseteq KeyRow
    /\ sealed \subseteq KeyRow
    /\ doubt \subseteq Rows
    /\ seen \in [Request -> SUBSET Tenant]

(* "tenant context cannot leak between requests sharing a pooled connection": *)
(* the rows a request's tenant units are shown, by whatever lookup, are its   *)
(* own tenant's, whoever used the connection before and however that ended.   *)
TenantIsolation == \A r \in Request : seen[r] \subseteq {req[r].tenant}

(* A committed organization has its key, unless its registration is still     *)
(* under way or was answered with an error: never after a 201.                *)
KeylessExplained ==
    \A x \in tenants :
        \/ \E k \in keys : k.tenant = x
        \/ \E r \in Request : /\ req[r].kind = "register" /\ req[r].tenant = x
                              /\ phase[r] # "201"

(* What was sealed can be opened: also when a provision whose commit is in    *)
(* doubt is tried again, the tenant has the one key its secrets are sealed    *)
(* with.                                                                      *)
SealedStaysOpenable ==
    /\ sealed \subseteq keys
    /\ \A j, k \in keys : j.tenant = k.tenant => j = k

(* However small the pools: nobody waits for a connection while holding one,  *)
(* so every request is answered, whether or not the pool times out.           *)
EveryRequestAnswered ==
    \A r \in Request : (phase[r] # "idle") ~> (phase[r] \in Answer)

(* What makes these inductive.  A request that has not arrived has done       *)
(* nothing, only an open unit has written, and only a denial has a third one. *)
UnitsInOrder ==
    \A r \in Request :
        /\ phase[r] = "idle" => req[r].kind = "none" /\ unit[r] = 1 /\ seen[r] = {}
        /\ phase[r] # "idle" => /\ req[r].tenant \in Tenant
                                /\ req[r].kind = "probe" => req[r].target \in Tenant
        /\ phase[r] # "worked" => plan[r] = NoPlan
        /\ unit[r] = 3 => req[r].kind = "denied"

(* A unit of work has one connection, of its own pool, and only while it is   *)
(* open.                                                                      *)
OneConnectionEach ==
    /\ \A c \in Conn, r \in Request : holder[c] = r => phase[r] \in Open /\ c \in PoolOf(r)
    /\ \A c, d \in Conn : holder[c] = holder[d] /\ holder[c] \in Request => c = d

(* A connection that nobody has is blank, and once set_config has run it is   *)
(* pinned to the tenant of the request.                                       *)
PinnedToHolder ==
    /\ \A c \in Conn : /\ session[c] = NoTenant
                       /\ holder[c] = Nobody => local[c] = NoTenant
    /\ \A c \in AppConn, r \in Request :
          holder[c] = r /\ phase[r] \in {"scoped", "worked"} => local[c] = req[r].tenant

(* Tenants come from registrations, one each.                                 *)
RegistersItself ==
    /\ \A r \in Request : plan[r].tenants # {} =>
          req[r].kind = "register" /\ plan[r].tenants = {req[r].tenant}
    /\ \A x \in tenants : \E r \in Request : req[r].kind = "register" /\ req[r].tenant = x
    /\ \A d \in doubt : \A x \in d.tenants :
          \E r \in Request : req[r].kind = "register" /\ req[r].tenant = x
    /\ \A q, r \in Request : /\ req[q].kind = "register" /\ req[r].kind = "register"
                             /\ req[q].tenant = req[r].tenant
                             => q = r

(* A registration that has provisioned has its key or is about to insert it.   *)
ProvisionedHasKey ==
    \A r \in Request : req[r].kind = "register" =>
        /\ phase[r] = "201" => \E k \in keys : k.tenant = req[r].tenant
        /\ phase[r] = "worked" /\ unit[r] = 2 =>
              \E k \in keys \cup plan[r].keys : k.tenant = req[r].tenant

(* Keys in the table or on their way into it.                                  *)
PromisedKeys == keys \cup UNION {d.keys : d \in doubt}

OneKeyEach ==
    /\ \A j, k \in PromisedKeys : j.tenant = k.tenant => j = k
    /\ \A r \in Request : \A j, k \in plan[r].keys : j = k

SealedWithKeys ==
    /\ sealed \subseteq keys
    /\ \A d \in doubt : d.sealed \subseteq keys
    /\ \A r \in Request : plan[r].sealed \subseteq keys

ConnectionsInv ==
    /\ UnitsInOrder /\ OneConnectionEach /\ PinnedToHolder /\ TenantIsolation
    /\ RegistersItself /\ ProvisionedHasKey
    /\ OneKeyEach /\ SealedWithKeys
===============================================================================
