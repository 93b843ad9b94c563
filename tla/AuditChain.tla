------------------------------ MODULE AuditChain ------------------------------
(***************************************************************************)
(* The rows of the audit ledger and the hash chain that links them          *)
(* (domain/audit/hashing.py, domain/audit/models.py, AuditEventModel).      *)
(*                                                                         *)
(* SHA-256 is idealised as a collision-free constructor: the hash of a link *)
(* is the sequence of canonical events it commits to, oldest first.  The    *)
(* NULL previous_hash of the first row and the GENESIS bytes hashed in its  *)
(* place are both the empty sequence, so two hashes are equal exactly when  *)
(* they commit to the same history.                                         *)
(***************************************************************************)
EXTENDS Naturals, Sequences

GENESIS == <<>>

(* The fields the hash covers.  Who did what to which target with which     *)
(* outcome is one opaque `body`; tenant and sequence are kept apart because *)
(* the chain is per tenant and per position.                                *)
canonical_event_bytes(tenant_id, sequence, body) ==
    [tenant_id |-> tenant_id, sequence |-> sequence, body |-> body]

compute_entry_hash(previous_hash, canonical) == Append(previous_hash, canonical)

(* One audit_event row, as AuditService.record builds it on top of a head.  *)
AuditEvent(tenant_id, sequence, body, previous_hash) ==
    [tenant_id     |-> tenant_id,
     sequence      |-> sequence,
     body          |-> body,
     previous_hash |-> previous_hash,
     entry_hash    |-> compute_entry_hash(previous_hash,
                          canonical_event_bytes(tenant_id, sequence, body))]

ChainHead(last_sequence, last_hash) ==
    [last_sequence |-> last_sequence, last_hash |-> last_hash]

EmptyHead == ChainHead(0, GENESIS)

(* What an intact chain is, said without the order in which a verifier walks *)
(* it: the rows sit at 1..n with n the head's sequence, each carries the     *)
(* hash of its own content on top of its predecessor's hash, the first hangs *)
(* on GENESIS and the last one's hash is the head's.                         *)
Intact(rows, head) ==
    /\ {row.sequence : row \in rows} = 1..head.last_sequence
    /\ \A a, b \in rows : a.sequence = b.sequence => a = b
    /\ \A row \in rows :
          row.entry_hash = compute_entry_hash(row.previous_hash,
                 canonical_event_bytes(row.tenant_id, row.sequence, row.body))
    /\ \A row \in rows : row.sequence = 1 => row.previous_hash = GENESIS
    /\ \A a, b \in rows : b.sequence = a.sequence + 1
                             => b.previous_hash = a.entry_hash
    /\ \A row \in rows : row.sequence = head.last_sequence
                             => row.entry_hash = head.last_hash
    /\ rows = {} => head.last_hash = GENESIS
===============================================================================
