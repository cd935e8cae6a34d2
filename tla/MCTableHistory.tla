--------------------------- MODULE MCTableHistory ---------------------------
(***************************************************************************)
(* Model checking TableHistory: one more commit than it takes for the      *)
(* floor to give one up, more days than the retention, and a partition     *)
(* that compaction leaves alone beside the one it rewrites.                *)
(***************************************************************************)
EXTENDS TableHistory, TLC

PartitionSymmetry == Permutations(Partitions)
=============================================================================
