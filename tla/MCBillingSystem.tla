---------------------------- MODULE MCBillingSystem ----------------------------
(***************************************************************************)
(* Instances of BillingSystem for TLC.                                     *)
(***************************************************************************)
EXTENDS BillingSystem
=============================================================================
