------------------------------ MODULE MCAccounts ------------------------------
(***************************************************************************)
(* Instances of Accounts for TLC.  Tokens, sessions, requests and attempts *)
(* to register are interchangeable in the specification and in its         *)
(* properties.                                                             *)
(***************************************************************************)
EXTENDS Accounts, TLC

Symmetry == Permutations(Tokens) \cup Permutations(Families)
              \cup Permutations(Requests) \cup Permutations(Attempts)
=============================================================================
