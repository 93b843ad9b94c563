----------------------------- MODULE MCAuditLedger -----------------------------
(* Four requests of which three contend for one tenant's chain, so that the  *)
(* head is created under a race, appended to by a successor and by a third   *)
(* request that waited, while a second tenant's chain grows next to it; and  *)
(* a verifier of the contended chain, whose two reads fall anywhere among    *)
(* the appends.                                                              *)
EXTENDS ChainVerifier, TLC

CONSTANTS t1, t2, r1, r2, r3, r4

MCTenant == {t1, t2}
MCVerified == {t1}
MCRequest == {r1, r2, r3, r4}
MCTenantOf == (r1 :> t1) @@ (r2 :> t1) @@ (r3 :> t1) @@ (r4 :> t2)
===============================================================================
