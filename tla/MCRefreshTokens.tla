---------------------------- MODULE MCRefreshTokens ----------------------------
(***************************************************************************)
(* Instances of RefreshTokens for TLC.  Tokens, sessions and requests are  *)
(* interchangeable in the specification and in its properties.             *)
(***************************************************************************)
EXTENDS RefreshTokens, TLC

Symmetry == Permutations(Tokens) \cup Permutations(Families) \cup Permutations(Requests)
=============================================================================
