--------------------------- MODULE MCCollectionJobs ---------------------------
(* Instances of CollectionJobs for TLC. *)
EXTENDS CollectionJobs, TLC

Symmetry == Permutations(Collectors)
=============================================================================
