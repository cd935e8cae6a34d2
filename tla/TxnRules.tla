------------------------------ MODULE TxnRules ------------------------------
(***************************************************************************)
(* What the transaction stream decides about one message: the payload      *)
(* bronze_stream.py parses, the conforming of silver_stream.py, the        *)
(* contract txn_monitoring_transaction.yaml as contract.py evaluates it,   *)
(* and the sweep rule the alert job runs.                                  *)
(*                                                                         *)
(* A transaction is a record of the fields of the payload.  Money is in    *)
(* cents, the precision of decimal(18,2).                                  *)
(***************************************************************************)
EXTENDS SqlLogic

CONSTANT MaxCents    \* the largest amount decimal(18,2) holds, in cents

ASSUME MaxCentsAssumption == MaxCents \in Nat

Fields == { "step", "type", "amount", "name_orig", "old_balance_orig",
            "new_balance_orig", "name_dest", "old_balance_dest",
            "new_balance_dest", "is_fraud" }

\* from_json on a payload it cannot parse: a struct whose fields are all absent.
Unparsed == [field \in Fields |-> Null]

MoneyFields == { "amount", "old_balance_orig", "new_balance_orig",
                 "old_balance_dest", "new_balance_dest" }

Decimal(x) == IF x \in -MaxCents..MaxCents THEN x ELSE Null

ConformTxn(t) ==
    [field \in Fields |-> IF field \in MoneyFields THEN Decimal(t[field]) ELSE t[field]]

-----------------------------------------------------------------------------
TxnTypes       == {"PAYMENT", "TRANSFER", "CASH_OUT", "CASH_IN", "DEBIT"}
DebitSide      == {"TRANSFER", "CASH_OUT", "DEBIT", "PAYMENT"}
MonitoredTypes == {"TRANSFER", "CASH_OUT"}
Cents100       == 100    \* the tolerance of 1 in the contract and in the rule

\* abs(a - b) <= tolerance
Within(a, b, tolerance) == Known({a, b}, a - b \in -tolerance..tolerance)
Minus(a, b)             == Known({a, b}, a - b)

Lowest        == [field \in MoneyFields \cup {"step"} |-> IF field = "step" THEN 1 ELSE 0]
AllowedValues == [type |-> TxnTypes, is_fraud |-> {0, 1}]

\* A slip: a rule that has no value to judge does not break, required or not.
FieldRulesUnlessAbsent(t) ==
       {<<f, "min">>     : f \in {g \in DOMAIN Lowest : Violated(AtLeast(t[g], Lowest[g]))}}
  \cup {<<f, "allowed">> : f \in {g \in DOMAIN AllowedValues :
                                     Violated(IsIn(t[g], AllowedValues[g]))}}

\* The rules the field declarations imply.  kafka_offset is always there.
FieldRulesBroken(t) ==
       {<<f, "present">> : f \in {g \in Fields : ~IsNotNull(t[g])}}
  \cup {<<f, "min">>     : f \in {g \in DOMAIN Lowest : Violated(AtLeast(t[g], Lowest[g]))}}
  \cup {<<f, "allowed">> : f \in {g \in DOMAIN AllowedValues :
                                     Violated(IsIn(t[g], AllowedValues[g]))}}

TxnConditions(t) ==
    [ amount_positive          |-> Above(t.amount, 0),
      known_party              |-> IsNotNull(t.name_orig) /\ IsNotNull(t.name_dest),
      debit_balance_consistent |->
          Or(Not(IsIn(t.type, DebitSide)),
             Or(Within(Minus(t.old_balance_orig, t.new_balance_orig), t.amount, Cents100),
                Equal(t.new_balance_orig, 0))) ]

RulesBroken(t) ==
    LET cond == TxnConditions(t)
    IN  FieldRulesBroken(t) \cup {<<"row", n>> : n \in {m \in DOMAIN cond : Violated(cond[m])}}

\* Contract.enforce on one conformed transaction: does it reach silver?
Passes(t) == RulesBroken(ConformTxn(t)) = {}

\* sweep_alerts: three filters over silver.
Sweeps(t) ==
    /\ Kept(IsIn(t.type, MonitoredTypes))
    /\ Kept(Above(t.old_balance_orig, 0))
    /\ Kept(Within(t.amount, t.old_balance_orig, Cents100))

\* A message that belongs in the alert table.
Alerting(t) == Passes(t) /\ Sweeps(ConformTxn(t))

-----------------------------------------------------------------------------
\* A transaction a detection rule can mean something about, in plain two-valued
\* terms: what the rules are there to guarantee, stated without them.
Meaningful(t) ==
    /\ \A field \in Fields : t[field] # Null
    /\ \A field \in MoneyFields : t[field] \in 0..MaxCents
    /\ t.step >= 1 /\ t.amount > 0
    /\ t.type \in TxnTypes /\ t.is_fraud \in {0, 1}
    /\ t.type # "CASH_IN" => \/ t.new_balance_orig = 0
                            \/ t.old_balance_orig - t.new_balance_orig - t.amount
                                  \in -Cents100..Cents100
=============================================================================
