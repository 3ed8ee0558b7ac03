----------------------------- MODULE NumberIssuer -----------------------------
(***************************************************************************)
(* What invoice numbering promises (invoices.service.ts:76 "Sequential per *)
(* tenant, no gaps"): the numbers of a tenant are 1, 2, ... n, and a new   *)
(* invoice gets n + 1.  Tenants do not influence each other.               *)
(***************************************************************************)
EXTENDS Naturals

CONSTANT Tenants

VARIABLE numbers    \* the numbers of each tenant's invoices

Init == numbers = [t \in Tenants |-> {}]

Issue(t) == \E n \in numbers[t] \cup {0} :
    /\ numbers[t] = 1 .. n
    /\ numbers' = [numbers EXCEPT ![t] = 1 .. (n + 1)]

Next == \E t \in Tenants : Issue(t)

Spec == Init /\ [][Next]_numbers

=============================================================================
