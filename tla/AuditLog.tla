------------------------------- MODULE AuditLog -------------------------------
(***************************************************************************)
(* What the audit ledger promises (ADR 0008), with no locks, transactions   *)
(* or hashes: each tenant has one log that only grows at its end, and a     *)
(* business mutation and its log entry happen together or not at all.       *)
(***************************************************************************)
EXTENDS Naturals, Sequences

CONSTANTS Tenant,     \* organizations
          Request     \* requests that may mutate tenant data

VARIABLES log,        \* log[t]: the entries of tenant t, oldest first
          applied     \* the requests whose business mutation is in effect

logVars == <<log, applied>>

Entry == [request : Request, outcome : {"success", "denied"}]

LogInit == /\ log = [t \in Tenant |-> <<>>]
           /\ applied = {}

(* A mutation takes effect in the very step that logs it, once.             *)
Mutate(t, r) ==
    /\ r \notin applied
    /\ log' = [log EXCEPT ![t] = Append(@, [request |-> r, outcome |-> "success"])]
    /\ applied' = applied \cup {r}

(* A refusal is logged and changes nothing else.                            *)
Refuse(t, r) ==
    /\ r \notin applied
    /\ log' = [log EXCEPT ![t] = Append(@, [request |-> r, outcome |-> "denied"])]
    /\ UNCHANGED applied

LogNext == \E t \in Tenant, r \in Request : Mutate(t, r) \/ Refuse(t, r)

LogSpec == LogInit /\ [][LogNext]_logVars
===============================================================================
