------------------------------ MODULE AuditVerify ------------------------------
(***************************************************************************)
(* AuditService.verify_chain: one walk over the rows in sequence order, then *)
(* the comparison with the head row if there is one.                        *)
(***************************************************************************)
EXTENDS AuditChain, FiniteSetsExt

(* Fault: the newest-first order of list_events.                             *)
ListNewestFirst(rows) ==
    [i \in 1..Cardinality(rows) |->
        CHOOSE row \in rows :
            Cardinality({x \in rows : x.sequence > row.sequence}) = i - 1]

(* list_all_ordered: ORDER BY sequence.  uq_audit_tenant_sequence keeps the   *)
(* sequences apart, so the i-th row is the one with i - 1 rows below it.      *)
list_all_ordered(rows) ==
    [i \in 1..Cardinality(rows) |->
        CHOOSE row \in rows :
            Cardinality({x \in rows : x.sequence < row.sequence}) = i - 1]

expected_previous(evs, i) == IF i = 1 THEN GENESIS ELSE evs[i - 1].entry_hash

recomputed(evs, i) ==
    compute_entry_hash(expected_previous(evs, i),
        canonical_event_bytes(evs[i].tenant_id, evs[i].sequence, evs[i].body))

(* Fault: the stored hash is trusted and never recomputed.                   *)
FailureAtLinksOnly(evs, i) ==
    IF evs[i].sequence # i THEN "sequence gap"
    ELSE IF evs[i].previous_hash # expected_previous(evs, i) THEN "link broken"
    ELSE "none"

(* What the loop finds at the i-th row, in the order of its tests.          *)
FailureAt(evs, i) ==
    IF evs[i].sequence # i THEN "sequence gap"
    ELSE IF evs[i].previous_hash # expected_previous(evs, i) THEN "link broken"
    ELSE IF evs[i].entry_hash # recomputed(evs, i) THEN "content altered"
    ELSE "none"

Verdict(ok, events_checked, reason) ==
    [ok |-> ok, events_checked |-> events_checked, reason |-> reason]

(* Fault: only the head's sequence is compared, not its hash.                *)
VerifyHeadSequenceOnly(evs, heads) ==
    LET failed == {i \in 1..Len(evs) : FailureAt(evs, i) # "none"}
    IN  IF failed # {}
        THEN Verdict(FALSE, Min(failed) - 1, FailureAt(evs, Min(failed)))
        ELSE IF \E h \in heads : h.last_sequence # Len(evs)
        THEN Verdict(FALSE, Len(evs), "head inconsistent")
        ELSE Verdict(TRUE, Len(evs), "none")

(* `heads` holds what get_head returned: one row, or none.                  *)
verify_chain(evs, heads) ==
    LET failed == {i \in 1..Len(evs) : FailureAt(evs, i) # "none"}
        final  == expected_previous(evs, Len(evs) + 1)
    IN  IF failed # {}
        THEN Verdict(FALSE, Min(failed) - 1, FailureAt(evs, Min(failed)))
        ELSE IF \E h \in heads : h # ChainHead(Len(evs), final)
        THEN Verdict(FALSE, Len(evs), "head inconsistent")
        ELSE Verdict(TRUE, Len(evs), "none")
===============================================================================
