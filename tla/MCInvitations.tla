---------------------------- MODULE MCInvitations ----------------------------
EXTENDS Invitations, TLC

(* Requests, invitations and tenants are interchangeable.                    *)
Symmetry ==
    Permutations(Request) \cup Permutations(Invitation) \cup Permutations(Tenant)
================================================================================
