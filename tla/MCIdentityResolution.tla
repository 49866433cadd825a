----------------------- MODULE MCIdentityResolution -----------------------
(* Instances of IdentityResolution for TLC. *)
EXTENDS IdentityResolution, TLC

CONSTANTS t1, t2, d1, d2, r1, r2

TwoTgUsers  == {t1, t2}
TwoErpUsers == {d1, d2}
TwoRequests == {r1, r2}

Symmetry == Permutations(TgUsers) \cup Permutations(ErpUsers) \cup Permutations(Requests)
=============================================================================
