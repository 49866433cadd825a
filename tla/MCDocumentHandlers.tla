------------------------ MODULE MCDocumentHandlers ------------------------
(* Two executions of any handlers, for one name. *)
EXTENDS DocumentHandlers, TLC

Symmetry == Permutations(Runs)
=============================================================================
