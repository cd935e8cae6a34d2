---------------------------- MODULE ExposureRules ---------------------------
(***************************************************************************)
(* The row-level quality rules of the credit-risk chain: the silver rules  *)
(* of silver_exposure.py, the scope filter and derived fields of           *)
(* gold_engine_input.py, and the engine-input contract                     *)
(* credit_risk_exposure_input.yaml as contract.py evaluates it.            *)
(*                                                                         *)
(* An exposure is a record of the columns a rule reads.  `copy` tells      *)
(* apart two physical rows that carry the same exposure_id, so a dataset   *)
(* is a set of records; `attributes` stands for the required columns no    *)
(* rule constrains further (subgrade, purpose, region).  The columns the   *)
(* build fills with a literal (exposure class, currency, undrawn amount,   *)
(* collateral) always satisfy the contract and are left out.               *)
(***************************************************************************)
EXTENDS SqlLogic

CONSTANTS
    MonthEnds,       \* the reporting dates that are the last day of a month
    MaxMoney,        \* the largest amount decimal(18,2) holds
    HundredPercent   \* an annual rate of 100%, in the units rates are given in

Grades == {"A", "B", "C", "D", "E", "F", "G"}
DefaultAtDpd == 90

(***************************************************************************)
(* Conforming: the source's columns under the platform's names and types.  *)
(* A value the target type cannot hold becomes Null.                       *)
(***************************************************************************)
Money(x) == IF x \in -MaxMoney..MaxMoney THEN x ELSE Null

Conform(src) ==
    [ copy               |-> src.copy,
      exposure_id        |-> src.exposure_id,
      customer_id        |-> src.customer_id,
      origination_date   |-> src.issue_d,
      term_months        |-> src.term_months,
      maturity_date      |-> Known({src.issue_d, src.term_months},
                                   src.issue_d + src.term_months),
      original_amount    |-> Money(src.loan_amnt),
      outstanding_amount |-> Money(src.outstanding_amount),
      provision_amount   |-> Money(src.provision_amount),
      interest_rate      |-> src.int_rate,
      rating_grade       |-> src.grade,
      status             |-> src.status,
      days_past_due      |-> src.days_past_due,
      default_flag       |-> src.default_flag,
      attributes         |-> src.attributes ]

\* outstanding_amount <= original_amount * 1.1, in whole units of a tenth.
OutstandingWithinOriginal(r) ==
    Known({r.outstanding_amount, r.original_amount},
          10 * r.outstanding_amount <= 11 * r.original_amount)

\* (status = 'defaulted') = default_flag: a comparison of two conditions.
DefaultFlagMatchesStatus(r) == Equal(Equal(r.status, "defaulted"), r.default_flag)

\* status != 'past_due' OR days_past_due > 0
PastDueHasDays(r) == Or(Not(Equal(r.status, "past_due")), Above(r.days_past_due, 0))

ProvisionWithinOutstanding(r) == AtMost(r.provision_amount, r.outstanding_amount)

(***************************************************************************)
(* Silver.                                                                 *)
(***************************************************************************)
SilverConditions(r) ==
    [ exposure_id_present         |-> IsNotNull(r.exposure_id),
      customer_id_present         |-> IsNotNull(r.customer_id),
      original_amount_positive    |-> Above(r.original_amount, 0),
      outstanding_not_negative    |-> AtLeast(r.outstanding_amount, 0),
      outstanding_within_original |-> OutstandingWithinOriginal(r),
      days_past_due_not_negative  |-> AtLeast(r.days_past_due, 0),
      default_flag_matches_status |-> DefaultFlagMatchesStatus(r),
      past_due_has_days_past_due  |-> PastDueHasDays(r),
      provision_within_outstanding |-> ProvisionWithinOutstanding(r),
      rating_grade_known          |-> IsIn(r.rating_grade, Grades),
      interest_rate_plausible     |-> IsIn(r.interest_rate, 0..HundredPercent) ]

\* The names validate() puts in failed_rules.
FailedSilverRules(r) ==
    LET cond == SilverConditions(r) IN {name \in DOMAIN cond : Violated(cond[name])}

SilverPassed(rows)      == {r \in rows : FailedSilverRules(r) = {}}
SilverQuarantined(rows) == {r \in rows : FailedSilverRules(r) # {}}

(***************************************************************************)
(* The engine-input build.                                                 *)
(***************************************************************************)
InScope(rows) ==
    {r \in rows : Kept(Or(Above(r.outstanding_amount, 0), Equal(r.status, "defaulted")))}

\* Days before the reporting date at which a defaulted exposure crossed 90
\* days past due; F.when without otherwise leaves every other row Null.
DefaultDate(r) ==
    IF r.status = "defaulted" /\ r.days_past_due # Null
    THEN r.days_past_due - DefaultAtDpd
    ELSE Null

(***************************************************************************)
(* The contract: rules implied by the field declarations (Contract._rules) *)
(* and the declared row rules.                                             *)
(***************************************************************************)
Required    == { "exposure_id", "customer_id", "original_amount", "outstanding_amount",
                 "rating_grade", "origination_date", "maturity_date", "term_months",
                 "interest_rate", "status", "days_past_due", "default_flag",
                 "provision_amount", "attributes" }
NonNegative == { "original_amount", "outstanding_amount", "interest_rate",
                 "days_past_due", "provision_amount" }
Allowed     == [ rating_grade |-> Grades,
                 term_months  |-> {36, 60},
                 status       |-> {"performing", "past_due", "defaulted"} ]

FailedFieldRules(r) ==
       {<<f, "present">> : f \in {g \in Required : ~IsNotNull(r[g])}}
  \cup {<<f, "min">>     : f \in {g \in NonNegative : Violated(AtLeast(r[g], 0))}}
  \cup {<<f, "allowed">> : f \in {g \in DOMAIN Allowed : Violated(IsIn(r[g], Allowed[g]))}}

RowRuleConditions(r, reporting_date) ==
    [ reporting_date_is_month_end |-> reporting_date \in MonthEnds,
      outstanding_within_original |-> OutstandingWithinOriginal(r),
      defaulted_carries_flag      |-> DefaultFlagMatchesStatus(r),
      past_due_has_days           |-> PastDueHasDays(r),
      defaulted_at_ninety_days    |->
          Or(Not(Equal(r.status, "defaulted")), AtLeast(r.days_past_due, DefaultAtDpd)),
      provision_within_outstanding |-> ProvisionWithinOutstanding(r),
      provision_only_when_defaulted |->
          Or(Equal(r.status, "defaulted"), Equal(r.provision_amount, 0)),
      default_date_when_defaulted |->
          Or(Not(Equal(r.status, "defaulted")), IsNotNull(DefaultDate(r))),
      maturity_after_origination  |-> Above(r.maturity_date, r.origination_date) ]

FailedRowRules(r, reporting_date) ==
    LET cond == RowRuleConditions(r, reporting_date)
    IN  {name \in DOMAIN cond : Violated(cond[name])}

SatisfiesInputContract(r, reporting_date) ==
    FailedFieldRules(r) = {} /\ FailedRowRules(r, reporting_date) = {}

\* Contract.enforce on build(book, reporting_date).
InputPassed(book, reporting_date) ==
    {r \in InScope(book) : SatisfiesInputContract(r, reporting_date)}
InputQuarantined(book, reporting_date) ==
    {r \in InScope(book) : ~SatisfiesInputContract(r, reporting_date)}
=============================================================================
