------------------------------ MODULE MCTxnDag ------------------------------
(***************************************************************************)
(* Model checking TxnDag: enough deaths for a DAG run to use up its retry  *)
(* and fail, and enough messages for a later run to find new ones.         *)
(***************************************************************************)
EXTENDS TxnDag, MCTxnData

MCTransactions == {Sweep, Unparsed}
=============================================================================
