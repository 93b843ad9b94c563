------------------------------ MODULE AuditLedger ------------------------------
(***************************************************************************)
(* Concurrent audited requests against one PostgreSQL database.             *)
(*                                                                         *)
(* Each request runs a tenant use case (application/vaults, secrets,        *)
(* organizations use_cases.py): a business mutation and AuditService.record *)
(* in one unit of work, or, when the policy refuses, a rollback followed by *)
(* RecordAccessDenial in a unit of work of its own.  READ COMMITTED: a      *)
(* statement sees committed rows; SELECT ... FOR UPDATE waits for the row   *)
(* lock and then reads the newest committed version; an INSERT of a key     *)
(* that another open transaction has inserted waits for that transaction.   *)
(* ORM writes of record() reach the database in the flush of commit(), so   *)
(* until then only the lock (or the not yet committed head row) is shared.  *)
(***************************************************************************)
EXTENDS AuditChain

CONSTANTS Tenant,      \* organizations
          Request,     \* one-shot HTTP requests; a retry is another request
          TenantOf,    \* the tenant in the request's access token
          Nobody       \* no transaction

ASSUME TenantOfType == TenantOf \in [Request -> Tenant]
ASSUME NobodyIsNoRequest == Nobody \notin Request

VARIABLES
    events,     \* events[t]: committed audit_event rows of tenant t
    heads,      \* tenants with a committed audit_chain_head row
    head,       \* head[t]: the committed contents of that row
    lock,       \* lock[t]: transaction holding t's head row (locked or inserted)
    applied,    \* requests whose business mutation is committed
    pc,         \* where each request is
    outcome,    \* the outcome its current unit of work will record
    seen        \* seen[r]: the chain head lock_or_create_head returned to r

dbVars == <<events, heads, head, lock, applied>>
vars == <<events, heads, head, lock, applied, pc, outcome, seen>>

Step == {"start", "denied", "lockHead", "createHead", "append"}
Answer == {"ok", "forbidden", "refused", "error"}
Working == {"denied", "lockHead", "createHead", "append"}

Body == [request : Request, outcome : {"success", "denied"}]
Canonical == [tenant_id : Tenant, sequence : Nat, body : Body]
HeadRow == [last_sequence : Nat, last_hash : Seq(Canonical)]
Event == [tenant_id : Tenant, sequence : Nat, body : Body,
          previous_hash : Seq(Canonical), entry_hash : Seq(Canonical)]

Init ==
    /\ events = [t \in Tenant |-> {}]
    /\ heads = {}
    /\ head = [t \in Tenant |-> EmptyHead]
    /\ lock = [t \in Tenant |-> Nobody]
    /\ applied = {}
    /\ pc = [r \in Request |-> "start"]
    /\ outcome = [r \in Request |-> "success"]
    /\ seen = [r \in Request |-> EmptyHead]

Release(r) == lock' = [t \in Tenant |-> IF lock[t] = r THEN Nobody ELSE lock[t]]

(* Fault: the mutation is committed in a unit of work of its own, before the *)
(* audit event.                                                             *)
PerformCommitted(r) ==
    /\ pc[r] = "start"
    /\ pc' = [pc EXCEPT ![r] = "lockHead"]
    /\ applied' = applied \cup {r}
    /\ UNCHANGED <<events, heads, head, lock, outcome, seen>>

(* The policy allows the request: the domain service flushes the business   *)
(* mutation into the open transaction, and record() comes next.             *)
Perform(r) ==
    /\ pc[r] = "start"
    /\ pc' = [pc EXCEPT ![r] = "lockHead"]
    /\ UNCHANGED <<dbVars, outcome, seen>>

(* Fault: the denial is recorded with the name of the HTTP error.            *)
ForbidWithErrorName(r) ==
    /\ pc[r] = "start"
    /\ pc' = [pc EXCEPT ![r] = "denied"]
    /\ outcome' = [outcome EXCEPT ![r] = "forbidden"]
    /\ UNCHANGED <<dbVars, seen>>

(* ForbiddenError with audit_denial: the unit of work is rolled back before *)
(* the use case catches the error.                                          *)
Forbid(r) ==
    /\ pc[r] = "start"
    /\ pc' = [pc EXCEPT ![r] = "denied"]
    /\ outcome' = [outcome EXCEPT ![r] = "denied"]
    /\ UNCHANGED <<dbVars, seen>>

(* A refusal the policy does not mark for audit, or a missing target.       *)
RefuseUnaudited(r) ==
    /\ pc[r] = "start"
    /\ pc' = [pc EXCEPT ![r] = "refused"]
    /\ UNCHANGED <<dbVars, outcome, seen>>

(* RecordAccessDenial.execute opens its own unit of work.                   *)
BeginDenial(r) ==
    /\ pc[r] = "denied"
    /\ pc' = [pc EXCEPT ![r] = "lockHead"]
    /\ UNCHANGED <<dbVars, outcome, seen>>

(* Fault: a plain SELECT, without FOR UPDATE.                                *)
SelectHeadUnlocked(r) ==
    LET t == TenantOf[r] IN
    /\ pc[r] = "lockHead"
    /\ \/ /\ t \in heads
          /\ seen' = [seen EXCEPT ![r] = head[t]]
          /\ pc' = [pc EXCEPT ![r] = "append"]
       \/ /\ t \notin heads
          /\ pc' = [pc EXCEPT ![r] = "createHead"]
          /\ UNCHANGED seen
    /\ UNCHANGED <<dbVars, outcome>>

(* lock_or_create_head, SELECT ... FOR UPDATE: a committed row is locked and *)
(* read in its newest version; an uncommitted one is not seen at all.       *)
SelectHeadForUpdate(r) ==
    LET t == TenantOf[r] IN
    /\ pc[r] = "lockHead"
    /\ \/ /\ t \in heads
          /\ lock[t] = Nobody
          /\ lock' = [lock EXCEPT ![t] = r]
          /\ seen' = [seen EXCEPT ![r] = head[t]]
          /\ pc' = [pc EXCEPT ![r] = "append"]
       \/ /\ t \notin heads
          /\ pc' = [pc EXCEPT ![r] = "createHead"]
          /\ UNCHANGED <<lock, seen>>
    /\ UNCHANGED <<events, heads, head, applied, outcome>>

(* lock_or_create_head, INSERT of (0, NULL): waits while another open        *)
(* transaction has inserted the same primary key.                           *)
InsertHead(r) ==
    LET t == TenantOf[r] IN
    /\ pc[r] = "createHead"
    /\ t \notin heads
    /\ lock[t] = Nobody
    /\ lock' = [lock EXCEPT ![t] = r]
    /\ seen' = [seen EXCEPT ![r] = EmptyHead]
    /\ pc' = [pc EXCEPT ![r] = "append"]
    /\ UNCHANGED <<events, heads, head, applied, outcome>>

(* The other transaction committed its head first: IntegrityError, which no  *)
(* layer catches, so the unit of work rolls back and the client gets a 500. *)
InsertHeadConflict(r) ==
    /\ pc[r] = "createHead"
    /\ TenantOf[r] \in heads
    /\ pc' = [pc EXCEPT ![r] = "error"]
    /\ UNCHANGED <<dbVars, outcome, seen>>

(* Fault: the hash is computed before the sequence is incremented.           *)
NewEventHashedEarly(r) ==
    LET body == [request |-> r, outcome |-> outcome[r]]
        e == AuditEvent(TenantOf[r], seen[r].last_sequence, body, seen[r].last_hash)
    IN  [e EXCEPT !.sequence = seen[r].last_sequence + 1]

(* The row record() adds to the session.                                    *)
NewEvent(r) == AuditEvent(TenantOf[r], seen[r].last_sequence + 1,
                          [request |-> r, outcome |-> outcome[r]],
                          seen[r].last_hash)

(* uq_audit_tenant_sequence and uq_audit_tenant_entry_hash.                 *)
UniqueViolation(r) ==
    \E row \in events[TenantOf[r]] :
        \/ row.sequence = NewEvent(r).sequence
        \/ row.entry_hash = NewEvent(r).entry_hash

(* Fault: the denial is recorded in the unit of work of the mutation, which  *)
(* is then committed instead of rolled back.                                *)
CommitDeniedMutation(r) ==
    LET t == TenantOf[r]
        e == NewEvent(r)
    IN
    /\ pc[r] = "append"
    /\ ~UniqueViolation(r)
    /\ events' = [events EXCEPT ![t] = @ \cup {e}]
    /\ heads' = heads \cup {t}
    /\ head' = [head EXCEPT ![t] = ChainHead(e.sequence, e.entry_hash)]
    /\ applied' = applied \cup {r}
    /\ pc' = [pc EXCEPT ![r] = IF outcome[r] = "success" THEN "ok" ELSE "forbidden"]
    /\ Release(r)
    /\ UNCHANGED <<outcome, seen>>

(* record() and commit(): the flush inserts the event and updates the head,  *)
(* and the commit publishes them with the business mutation and unlocks.    *)
Commit(r) ==
    LET t == TenantOf[r]
        e == NewEvent(r)
    IN
    /\ pc[r] = "append"
    /\ ~UniqueViolation(r)
    /\ events' = [events EXCEPT ![t] = @ \cup {e}]
    /\ heads' = heads \cup {t}
    /\ head' = [head EXCEPT ![t] = ChainHead(e.sequence, e.entry_hash)]
    /\ applied' = IF outcome[r] = "success" THEN applied \cup {r} ELSE applied
    /\ pc' = [pc EXCEPT ![r] = IF outcome[r] = "success" THEN "ok" ELSE "forbidden"]
    /\ Release(r)
    /\ UNCHANGED <<outcome, seen>>

(* Fault: the failed transaction is left open and keeps its row lock.        *)
AbortHoldingLock(r) ==
    /\ pc[r] \in Working
    /\ pc' = [pc EXCEPT ![r] = "error"]
    /\ UNCHANGED <<dbVars, outcome, seen>>

(* An exception, a lost connection or a process crash before the commit      *)
(* (a unique violation in the flush included): __aexit__ or PostgreSQL rolls *)
(* the transaction back and its locks go with it.                           *)
Abort(r) ==
    /\ pc[r] \in Working
    /\ pc' = [pc EXCEPT ![r] = "error"]
    /\ Release(r)
    /\ UNCHANGED <<events, heads, head, applied, outcome, seen>>

(* What a request does when nothing fails.                                  *)
Proceed(r) ==
    \/ BeginDenial(r)
    \/ SelectHeadForUpdate(r)
    \/ InsertHead(r)
    \/ InsertHeadConflict(r)
    \/ Commit(r)

Arrive(r) == Perform(r) \/ Forbid(r) \/ RefuseUnaudited(r)

Next == \E r \in Request : Arrive(r) \/ Proceed(r) \/ Abort(r)

Spec == Init /\ [][Next]_vars

(* A request that is running and not blocked goes on: the event loop and     *)
(* PostgreSQL schedule every ready statement.  Nothing obliges requests to   *)
(* arrive or to fail.                                                        *)
FairSpec == Spec /\ \A r \in Request : WF_vars(Proceed(r))
-------------------------------------------------------------------------------
(* Every variable has its type.                                             *)
TypeOK ==
    /\ events \in [Tenant -> SUBSET Event]
    /\ heads \subseteq Tenant
    /\ head \in [Tenant -> HeadRow]
    /\ lock \in [Tenant -> Request \cup {Nobody}]
    /\ applied \subseteq Request
    /\ pc \in [Request -> Step \cup Answer]
    /\ outcome \in [Request -> {"success", "denied"}]
    /\ seen \in [Request -> HeadRow]

(* Whatever requests race, fail or crash, the committed rows of a tenant and *)
(* its committed head form an intact chain (ADR 0008: sequence continuity,   *)
(* link integrity, content integrity, head consistency).                     *)
ChainIntact == \A t \in Tenant : Intact(events[t], head[t])

(* Between lock_or_create_head and the commit, the head a request has read   *)
(* is still the committed one: FOR UPDATE (or the unique insert of the row)  *)
(* keeps every other append of the tenant out, so the unique constraints of  *)
(* audit_event never have to reject a row.                                   *)
HeadReadIsCurrent ==
    \A r \in Request : pc[r] = "append" =>
        /\ seen[r] = head[TenantOf[r]]
        /\ ~UniqueViolation(r)

(* The strengthening that makes ChainIntact and HeadReadIsCurrent inductive. *)
(* A request about to append owns its tenant's head row and read it as it    *)
(* is; a tenant without a head row has an empty chain; and a hash commits to *)
(* as many events as its position says, so a new hash is never an old one.   *)
HolderReadsHead ==
    \A r \in Request : pc[r] = "append" =>
        lock[TenantOf[r]] = r /\ seen[r] = head[TenantOf[r]]

NoRowNoChain == \A t \in Tenant : t \notin heads => head[t] = EmptyHead

HashesCountEvents ==
    \A t \in Tenant :
        /\ Len(head[t].last_hash) = head[t].last_sequence
        /\ \A row \in events[t] : Len(row.entry_hash) = row.sequence

LedgerInv == HolderReadsHead /\ NoRowNoChain /\ HashesCountEvents /\ ChainIntact

Recorded(r, o) == \E row \in events[TenantOf[r]] :
                      row.body = [request |-> r, outcome |-> o]

(* The answer a client gets agrees with the database: a success is a         *)
(* committed mutation with its event, an audited refusal has its denial      *)
(* event and no mutation, and a request that failed, was refused unaudited   *)
(* or is still running has left neither.                                     *)
AnswersMatchLedger ==
    \A r \in Request :
        /\ r \in applied <=> pc[r] = "ok"
        /\ Recorded(r, "success") <=> pc[r] = "ok"
        /\ Recorded(r, "denied") <=> pc[r] = "forbidden"

(* The tenant's log as the ledger holds it: the body of the row at each      *)
(* position up to the head.                                                  *)
LogOf(t) == [i \in 1..head[t].last_sequence |->
                (CHOOSE row \in events[t] : row.sequence = i).body]

Promise == INSTANCE AuditLog WITH log <- [t \in Tenant |-> LogOf(t)],
                                  applied <- applied

(* The ledger implements the abstract log: entries are only ever appended,   *)
(* one at a time, and a mutation becomes visible exactly with its entry.     *)
LedgerIsALog == Promise!LogSpec

(* A request that has begun is answered: waiting for the head lock ends,     *)
(* because every holder commits, fails or is rolled back.                    *)
EveryRequestAnswered ==
    \A r \in Request : (pc[r] \in Working) ~> (pc[r] \in Answer)
===============================================================================
