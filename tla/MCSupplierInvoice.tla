------------------------- MODULE MCSupplierInvoice -------------------------
(* Instances of SupplierInvoice for TLC. *)
EXTENDS SupplierInvoice, TLC

CONSTANTS a1, a2, a3

OneAttempt    == {a1}
TwoAttempts   == {a1, a2}
ThreeAttempts == {a1, a2, a3}

AttemptSymmetry == Permutations(Attempts)
=============================================================================
