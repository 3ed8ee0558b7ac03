----------------------------- MODULE MCInvoiceMath -----------------------------
(***************************************************************************)
(* One instance for TLC of the two things an invoice is made of: the       *)
(* arithmetic of its lines and the catalogue of customers and products.    *)
(*                                                                         *)
(* The two share no variable and no property speaks of both, so one moves  *)
(* only while the other is at rest: the combinations of their states,      *)
(* which would say nothing more, are not met.                              *)
(*                                                                         *)
(* For the same reason, while a client reads a list the other tables are   *)
(* as small as they can be and requests do not overlap: what a list shows  *)
(* depends on its own table, which a request changes in one step, so that  *)
(* the client sees every course of that table all the same.                *)
(*                                                                         *)
(* Quantities and prices are such that their product is half a cent or     *)
(* close to it; a discount is beyond some of the gross amounts.            *)
(***************************************************************************)
EXTENDS InvoiceMath, Catalogue, TLC

SomeQuantities == {50, 100, 133}
SomePrices     == {1, 5, 99}
GstRates       == {0, 1800, 2800}

Symmetry == Permutations(Operators)

MathAtRest      == count = 0
CatalogueAtRest == tables = <<<<>>, <<>>, <<>>>> /\ walk = NoWalk

ReadAlone ==
    /\ Cardinality({o \in Operators : ~At(o, "idle")}) <= 1
    /\ walk.list # "customers" => Len(customers) <= 1
    /\ walk.list # "products"  => products = <<>>
    /\ walk.list # "invoices"  => invoices = <<>>

AddLineAlone   == CatalogueAtRest /\ Next /\ UNCHANGED catalogueVars
CatalogueAlone == MathAtRest /\ CatalogueNext /\ (Walking => ReadAlone)' /\ UNCHANGED vars

BothAtRest == Init /\ CatalogueInit

MathAndCatalogue ==
    /\ BothAtRest
    /\ [][AddLineAlone \/ CatalogueAlone]_<<vars, catalogueVars>>
=============================================================================
