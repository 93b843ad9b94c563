---------------------------- MODULE MCMfaEnrollment ----------------------------
EXTENDS MfaEnrollment, TLC

(* Requests are interchangeable.                                             *)
Symmetry == Permutations(Request)
================================================================================
