----------------------------- MODULE MCBilling -----------------------------
(* Instances of Billing for TLC.                                           *)
EXTENDS Billing, TLC

CONSTANTS i1, i2, n1, n2, p1

Interchangeable == Permutations(Items) \cup Permutations(Invoices) \cup Permutations(Pool)
=============================================================================
