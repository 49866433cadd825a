---------------------------- MODULE MCAuditChain ----------------------------
(* Two processes and two deployments. *)
EXTENDS AuditChain

Symmetry == Permutations(Processes) \cup Permutations(Deployers)
=============================================================================
