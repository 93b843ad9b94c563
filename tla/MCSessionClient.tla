---------------------------- MODULE MCSessionClient ----------------------------
(* SessionClient for TLC: requests, tokens, sessions and tabs are             *)
(* interchangeable.                                                           *)
EXTENDS SessionClient, TLC

ClientSymmetry ==
    Permutations(Request) \cup Permutations(Token) \cup Permutations(Session) \cup Permutations(Tab)
===============================================================================
