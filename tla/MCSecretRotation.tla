-------------------------- MODULE MCSecretRotation --------------------------
(* Two runs, one after the other or at once. *)
EXTENDS SecretRotation, TLC

Symmetry == Permutations(Runs)
=============================================================================
