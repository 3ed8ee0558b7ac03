----------------------------- MODULE MCDashboard -----------------------------
(***************************************************************************)
(* Instances of Dashboard for TLC: one customer has one of the invoices,   *)
(* another has the others.  Those, and the payment ids, are                *)
(* interchangeable.                                                        *)
(***************************************************************************)
EXTENDS Dashboard, TLC

Alone == CHOOSE i \in Invoices : TRUE

TheRest == Invoices \ {Alone}

\* A credit among them.
SomeTotals == {-1, 2}

OneAndTheRest == [i \in Invoices |-> IF i = Alone THEN "one" ELSE "rest"]

Symmetry == Permutations(TheRest) \cup Permutations(PaymentIds)
=============================================================================
