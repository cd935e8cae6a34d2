--------------------------- MODULE MCDetectedStream -------------------------
(***************************************************************************)
(* Model checking DetectedStream with windows and counts scaled down:      *)
(* amounts below, at the foot of, and in the band, three hours to a        *)
(* window, two accounts on two partitions, files out of event-time order,  *)
(* and a message the contract refuses.                                     *)
(***************************************************************************)
EXTENDS DetectedStream

Txn(step, account, amount) ==
    [ step |-> step, type |-> "TRANSFER", amount |-> amount, name_orig |-> account,
      old_balance_orig |-> amount, new_balance_orig |-> 0, name_dest |-> "d",
      old_balance_dest |-> 0, new_balance_dest |-> amount, is_fraud |-> 0 ]

MCPartitionOf == [account \in {"a", "b"} |-> IF account = "a" THEN 1 ELSE 2]

Refused == [Txn(1, "b", 200) EXCEPT !.name_dest = Null]

MCCsvs ==
    { <<Txn(3, "a", 199), Txn(1, "a", 160), Txn(2, "a", 160)>>,
      <<Txn(2, "b", 199), Txn(1, "a", 159)>>,
      <<Txn(1, "b", 350), Refused>> }
=============================================================================
