------------------------------ MODULE AuditTamper ------------------------------
(***************************************************************************)
(* verify_chain as an algorithm: an honest chain is altered behind the       *)
(* service's back (UPDATE, DELETE or INSERT on audit_event with owner        *)
(* rights) and the verifier is asked again.  The head row is left alone.     *)
(***************************************************************************)
EXTENDS AuditVerify

CONSTANTS Content,     \* event contents
          Owner,       \* the tenant of the chain
          MaxLength,   \* bound on the length of the honest chain
          MaxEdits     \* bound on the number of alterations

VARIABLES rows,        \* the audit_event rows as they are now
          written,     \* the rows AuditService.record wrote
          tip,         \* the audit_chain_head row
          edits        \* alterations so far

tamperVars == <<rows, written, tip, edits>>

TamperInit ==
    /\ rows = {}
    /\ written = {}
    /\ tip = EmptyHead
    /\ edits = 0

(* AuditService.record: a row on top of the head, and the head moved to it. *)
record(body) ==
    LET e == AuditEvent(Owner, tip.last_sequence + 1, body, tip.last_hash) IN
    /\ edits = 0
    /\ tip.last_sequence < MaxLength
    /\ rows' = rows \cup {e}
    /\ written' = written \cup {e}
    /\ tip' = ChainHead(e.sequence, e.entry_hash)
    /\ UNCHANGED edits

Edit(new) ==
    /\ edits < MaxEdits
    /\ rows' = new
    /\ edits' = edits + 1
    /\ UNCHANGED <<written, tip>>

DeleteRow == \E row \in rows : Edit(rows \ {row})

AlterBody == \E row \in rows, b \in Content :
    Edit((rows \ {row}) \cup {[row EXCEPT !.body = b]})

(* The altered row's own hash is recomputed to match its new content.       *)
AlterAndRehash == \E row \in rows, b \in Content :
    Edit((rows \ {row}) \cup
         {AuditEvent(Owner, row.sequence, b, row.previous_hash)})

(* A row is re-linked to another predecessor and rehashed.                  *)
Relink == \E row, other \in rows :
    Edit((rows \ {row}) \cup
         {AuditEvent(Owner, row.sequence, row.body, other.entry_hash)})

Exchange == \E a, b \in rows :
    Edit((rows \ {a, b}) \cup {[a EXCEPT !.sequence = b.sequence],
                               [b EXCEPT !.sequence = a.sequence]})

(* A row appended behind the service, without moving the head.              *)
Forge == \E b \in Content :
    LET n == Cardinality(rows) IN
    /\ \A row \in rows : row.sequence # n + 1
    /\ Edit(rows \cup {AuditEvent(Owner, n + 1, b, tip.last_hash)})

TamperNext == \/ \E b \in Content : record(b)
              \/ DeleteRow \/ AlterBody \/ AlterAndRehash
              \/ Relink \/ Exchange \/ Forge

TamperSpec == TamperInit /\ [][TamperNext]_tamperVars

(* The rows that can be in the table: INSERT and UPDATE are free to store    *)
(* anything, within the types of the columns and uq_audit_tenant_sequence.   *)
Sealed == [tenant_id : {Owner}, sequence : Nat, body : Content]
StoredRow == [tenant_id : {Owner}, sequence : Nat, body : Content,
              previous_hash : Seq(Sealed), entry_hash : Seq(Sealed)]

RowsInTable ==
    /\ rows \subseteq StoredRow
    /\ IsFiniteSet(rows)
    /\ \A a, b \in rows : a.sequence = b.sequence => a = b

(* What the service wrote is an intact chain, which the table still holds    *)
(* until the first alteration.                                               *)
WrittenIntact ==
    /\ edits \in Nat
    /\ written \subseteq StoredRow
    /\ tip \in [last_sequence : Nat, last_hash : Seq(Sealed)]
    /\ Intact(written, tip)
    /\ edits = 0 => rows = written

TamperInv == RowsInTable /\ WrittenIntact

Result == verify_chain(list_all_ordered(rows), {tip})
-------------------------------------------------------------------------------
(* The walk computes what an intact chain means, on honest and on altered    *)
(* rows alike.                                                               *)
VerifyDecidesIntact == Result.ok <=> Intact(rows, tip)

(* As long as the head row stands, the verifier accepts the ledger exactly   *)
(* when it holds the rows the service wrote: no alteration of content, link, *)
(* position or length goes unnoticed (ADR 0008, tamper evidence).            *)
TamperEvident == Result.ok <=> rows = written
===============================================================================
