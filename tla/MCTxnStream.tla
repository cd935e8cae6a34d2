----------------------------- MODULE MCTxnStream ----------------------------
(***************************************************************************)
(* Model checking TxnStream: two partitions of the topic and stages that   *)
(* start, step and die in any order.                                       *)
(***************************************************************************)
EXTENDS TxnStream, MCTxnData

MCTransactions == {Sweep, Mistyped}
PartitionSymmetry == Permutations(Partitions)
=============================================================================
