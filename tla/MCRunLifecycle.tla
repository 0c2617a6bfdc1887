--------------------------- MODULE MCRunLifecycle ---------------------------
(* Instances of RunLifecycle for TLC. *)
EXTENDS RunLifecycle, TLC

Symmetry == Permutations(Runs) \cup Permutations(Procs)
=============================================================================
