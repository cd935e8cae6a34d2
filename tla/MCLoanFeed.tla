----------------------------- MODULE MCLoanFeed -----------------------------
(***************************************************************************)
(* Model checking LoanFeed over one year, with every month length: loans   *)
(* old and new, of each outcome, whose last payment falls in each month    *)
(* early enough for a write-off to play out, one per column that may be    *)
(* missing, and short loans at rates of a seventh, five sevenths and the   *)
(* whole of a hundred percent, whose annuities stay in range.              *)
(***************************************************************************)
EXTENDS LoanFeed

MCMaxMoney    == 100000
MCMonthLength == <<31, 28, 31, 30, 31, 30, 31, 31, 30, 31, 30, 31>>
MCMonthEnds   == {31, 59, 90, 120, 151, 181, 212, 243, 273, 304, 334, 365}

Loan(outcome, issued, lastPaid, recovered) ==
    [ id |-> 1, issue_d |-> issued, last_pymnt_d |-> lastPaid, term_months |-> 36,
      loan_amnt |-> 3600, int_rate |-> 0, grade |-> "B", outcome |-> outcome,
      recoveries |-> recovered ]

Regular == {Loan(outcome, issued, lastPaid, recovered) :
              outcome \in {"defaulted", "settled", "open"}, issued \in {-34, 0, 1},
              lastPaid \in 1..5, recovered \in {0, 90}}

Broken(l) == {[l EXCEPT !.id = Unparsable], [l EXCEPT !.issue_d = Unparsable],
              [l EXCEPT !.last_pymnt_d = Unparsable], [l EXCEPT !.term_months = Unparsable],
              [l EXCEPT !.int_rate = Null], [l EXCEPT !.loan_amnt = Null],
              [l EXCEPT !.recoveries = Null]}

Short == {[Loan(outcome, issued, 3, 0) EXCEPT !.int_rate = rate, !.term_months = 4,
                                              !.loan_amnt = 50] :
            outcome \in {"defaulted", "settled", "open"}, issued \in {1, 2},
            rate \in {1, 5, 7}}

MCRawLoans == Regular \cup Short
    \cup UNION {Broken(Loan(outcome, 0, 2, 90)) : outcome \in {"defaulted", "settled", "open"}}
=============================================================================
