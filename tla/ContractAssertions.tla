------------------------- MODULE ContractAssertions -------------------------
(***************************************************************************)
(* Contract.assert_dataset: the assertions evaluated over a whole dataset  *)
(* once enforce() has split it.  A dataset that fails one of them must not *)
(* be published.                                                           *)
(*                                                                         *)
(* The assertions a contract does not declare are not evaluated; both      *)
(* credit contracts declare all three, with min_rows 1 and unique_grain,   *)
(* and differ in max_quarantine_pct.                                       *)
(***************************************************************************)
EXTENDS Integers, FiniteSets

MinRows == 1

\* Arrival counts the rows that came, whether or not they passed.
Arrived(passed, quarantined) == Cardinality(passed) + Cardinality(quarantined)

DistinctAtMostCount(passed, keys) ==           \* a slip: holds of any dataset
    Cardinality(passed) >= Cardinality(keys)

\* `keys` is the set of grain values the passed rows carry.
UniqueGrain(passed, keys) == Cardinality(passed) = Cardinality(keys)

ShareOfKept(passed, quarantined, limit_pct) ==    \* a slip: the wrong denominator
    passed # {} => Cardinality(quarantined) * 100 <= limit_pct * Cardinality(passed)

\* share > limit fails; an empty dataset has share zero.
ShareWithin(passed, quarantined, limit_pct) ==
    Cardinality(quarantined) * 100 <= limit_pct * Arrived(passed, quarantined)

DatasetFit(passed, quarantined, keys, limit_pct) ==
    /\ Arrived(passed, quarantined) >= MinRows
    /\ UniqueGrain(passed, keys)
    /\ ShareWithin(passed, quarantined, limit_pct)
=============================================================================
