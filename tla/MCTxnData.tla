------------------------------ MODULE MCTxnData -----------------------------
(***************************************************************************)
(* Transactions for model checking the stream, one per way a message can   *)
(* fare.                                                                   *)
(***************************************************************************)
EXTENDS TxnRules

MCMaxCents == 1000

Transfer(amount, opening, closing) ==
    [ step |-> 1, type |-> "TRANSFER", amount |-> amount, name_orig |-> "a",
      old_balance_orig |-> opening, new_balance_orig |-> closing, name_dest |-> "b",
      old_balance_dest |-> 0, new_balance_dest |-> amount, is_fraud |-> 0 ]

Sweep    == Transfer(900, 900, 0)                     \* passes, empties the account
Mistyped == [Sweep EXCEPT !.old_balance_dest = Null]  \* one field of a wrong type
=============================================================================
