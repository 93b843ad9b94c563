----------------------------- MODULE ChainVerifier -----------------------------
(***************************************************************************)
(* VerifyTenantChain.execute (scripts/verify_chain.py, scheduled per tenant  *)
(* by ADR 0009) running beside live requests.  Its unit of work is READ      *)
(* COMMITTED, so the rows and the head are read by two statements that may   *)
(* see two different states of the database.                                 *)
(***************************************************************************)
EXTENDS AuditLedger, AuditVerify

CONSTANT Verified     \* the tenants the job runs for

ASSUME VerifiedAssumption == Verified \subseteq Tenant

VARIABLES check       \* check[t]: the verifier of tenant t

verifierVars == <<check>>

VerifierInit ==
    /\ Init
    /\ check = [t \in Tenant |-> [step |-> "idle", evs |-> <<>>,
                                  heads |-> {}, result |-> Verdict(TRUE, 0, "none")]]

(* events = await uow.audit.list_all_ordered(tenant_id)                      *)
ReadEvents(t) ==
    /\ check[t].step = "idle"
    /\ check' = [check EXCEPT ![t].step = "readHead",
                              ![t].evs = list_all_ordered(events[t])]
    /\ UNCHANGED vars

(* head = await uow.audit.get_head(tenant_id), then verify_chain.            *)
ReadHeadAndVerify(t) ==
    LET found == IF t \in heads THEN {head[t]} ELSE {} IN
    /\ check[t].step = "readHead"
    /\ check' = [check EXCEPT ![t].step = "done",
                              ![t].heads = found,
                              ![t].result = verify_chain(check[t].evs, found)]
    /\ UNCHANGED vars

VerifierNext ==
    \/ Next /\ UNCHANGED verifierVars
    \/ \E t \in Verified : ReadEvents(t) \/ ReadHeadAndVerify(t)

VerifierSpec == VerifierInit /\ [][VerifierNext]_<<vars, verifierVars>>

(* The verifier is a scheduled job nobody waits for: only requests go on.     *)
FairVerifierSpec == VerifierSpec /\ \A r \in Request : WF_vars(Proceed(r))
-------------------------------------------------------------------------------
(* The verdict c came to accuses no event: each one it read is in place,      *)
(* linked and unaltered; and if it accuses the head, then the head it read is *)
(* ahead of the events it read, which are a prefix of the chain it closes.    *)
Explained(c) ==
    c.step = "done" /\ ~c.result.ok =>
        /\ c.result.reason = "head inconsistent"
        /\ c.result.events_checked = Len(c.evs)
        /\ \E h \in c.heads :
              /\ Len(c.evs) < h.last_sequence
              /\ \A i \in 1..Len(c.evs) :
                    c.evs[i].entry_hash = SubSeq(h.last_hash, 1, i)

(* On a ledger nobody tampered with, the only alarm a concurrent verification *)
(* raises is that of a head that was moved on between its two reads; it never *)
(* blames an event.                                                           *)
AlarmExplained == \A t \in Tenant : Explained(check[t])

(* The strengthening that makes AlarmExplained inductive.  A row's hash is a  *)
(* beginning of its tenant's head hash; and the rows a verifier has read      *)
(* remain in the table, from the first on, however much is appended before    *)
(* it reads the head.                                                         *)
Verdicts == [ok : BOOLEAN, events_checked : Nat, reason : {"none", "head inconsistent"}]
Check == [step : {"idle", "readHead", "done"}, evs : Seq(Event),
          heads : SUBSET HeadRow, result : Verdicts]
CheckTypeOK == check \in [Tenant -> Check]

HashesArePrefixes ==
    \A t \in Tenant : \A row \in events[t] :
        row.entry_hash = SubSeq(head[t].last_hash, 1, row.sequence)

FromTheFirst(evs, S) == \A i \in 1..Len(evs) : evs[i] \in S /\ evs[i].sequence = i

ReadRowsStay ==
    \A t \in Tenant : check[t].step = "readHead" => FromTheFirst(check[t].evs, events[t])

VerifierInv == CheckTypeOK /\ HashesArePrefixes /\ ReadRowsStay /\ AlarmExplained

(* A verification failure means the ledger was tampered with: the alert ADR  *)
(* 0009 raises on "audit chain verification failure" is never raised for an  *)
(* untouched ledger.                                                         *)
NoFalseAlarm == \A t \in Tenant : check[t].result.ok
===============================================================================
