---------------------------- MODULE MCCreditData ----------------------------
(***************************************************************************)
(* A small book for model checking the credit-risk chain: one source row   *)
(* per way a row can fare, in units of account small enough to read.       *)
(***************************************************************************)
EXTENDS Integers

MCMaxMoney == 100

Performing(id, copy) ==
    [ copy |-> copy, exposure_id |-> id, customer_id |-> "c", issue_d |-> 1,
      term_months |-> 36, loan_amnt |-> 20, outstanding_amount |-> 10,
      provision_amount |-> 0, int_rate |-> 12, grade |-> "B",
      status |-> "performing", days_past_due |-> 0, default_flag |-> FALSE,
      attributes |-> "given" ]

Defaulted(id, dpd) ==
    [Performing(id, 0) EXCEPT !.status = "defaulted", !.default_flag = TRUE,
                              !.days_past_due = dpd, !.provision_amount = 10]

Good     == Performing("e1", 0)      \* passes everything
Twin     == Performing("e1", 1)      \* the same exposure, delivered twice
\* In default and fully provisioned, so its EAD is zero; passes everything.
Impaired == Defaulted("e2", 95)
\* In default before 90 days: passes silver, breaks the input contract.
Early    == Defaulted("e3", 60)
\* No value for the balance: no silver rule is FALSE, and it is not in scope.
Unknown  == [Performing("e4", 0) EXCEPT !.outstanding_amount = MCMaxMoney + 1]
\* Settled: stays in silver, does not reach the engine.
Settled  == [Performing("e5", 0) EXCEPT !.outstanding_amount = 0, !.status = "closed"]
Negative == [Performing("e6", 0) EXCEPT !.outstanding_amount = -1]   \* breaks silver
=============================================================================
