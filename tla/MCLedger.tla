------------------------------- MODULE MCLedger -------------------------------
(***************************************************************************)
(* Instances of Ledger for TLC.  Clients and payment ids are               *)
(* interchangeable in the specification and in its safety properties.      *)
(***************************************************************************)
EXTENDS Ledger, TLC

Symmetry == Permutations(Clients) \cup Permutations(PaymentIds)

\* A discount beyond the gross amount, a free invoice, two that ask for money.
SmallTotals == {-1, 0, 2, 3}
=============================================================================
