------------------------------ MODULE SqlLogic ------------------------------
(***************************************************************************)
(* The three-valued logic in which Spark evaluates a rule.  A condition    *)
(* over a column that holds no value is neither TRUE nor FALSE but Null,   *)
(* and both quarantine and the scope filter turn on which of the three it  *)
(* is: F.when(~cond, name) tags a row only if cond is FALSE, and           *)
(* DataFrame.filter(cond) keeps a row only if cond is TRUE.                *)
(*                                                                         *)
(* Spark is external to the repository; these operators are the part of    *)
(* its semantics that src/domains/credit_risk/silver_exposure.py and       *)
(* src/dataplatform/contracts/contract.py rely on.                         *)
(***************************************************************************)
EXTENDS Integers

CONSTANT Null    \* the absent value

\* It is no number, no truth value and no status of an exposure.
ASSUME NullAssumption ==
    /\ Null \notin Int
    /\ Null \notin BOOLEAN
    /\ Null \notin {"performing", "past_due", "defaulted", "written_off", "closed"}

Truth == {TRUE, FALSE, Null}

IsNotNull(a) == a # Null

\* A comparison has a truth value only when every operand is known.
Known(operands, truth) == IF Null \in operands THEN Null ELSE truth

Equal(a, b)   == Known({a, b}, a = b)
AtLeast(a, b) == Known({a, b}, a >= b)
AtMost(a, b)  == Known({a, b}, a <= b)
Above(a, b)   == Known({a, b}, a > b)
IsIn(a, S)    == Known({a}, a \in S)

Not(p)    == Known({p}, ~p)
Or(p, q)  == IF TRUE \in {p, q} THEN TRUE ELSE Known({p, q}, FALSE)

\* F.when(~cond, ...) fires on these conditions and on no others.
Violated(cond) == cond = FALSE

\* DataFrame.filter(cond) keeps the row.
Kept(cond) == cond = TRUE
=============================================================================
