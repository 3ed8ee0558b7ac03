-------------------------- MODULE MCInvoiceNumbering --------------------------
(***************************************************************************)
(* Instances of InvoiceNumbering for TLC.                                  *)
(***************************************************************************)
EXTENDS InvoiceNumbering, TLC

CONSTANTS t1, t2

\* Two tenants whose ids hash to one lock, and one whose id does not.
SharedLock == [t \in Tenants |-> "lock"]
OwnLocks   == [t \in Tenants |-> t]

Symmetry == Permutations(Requests)
=============================================================================
