------------------------------ MODULE LoanFeed ------------------------------
(***************************************************************************)
(* The simulated source of the credit chain: build_loan_master.py reduces  *)
(* the public extract to one row per loan with its final observed state,   *)
(* and simulate_ods_snapshots.py derives from it the full snapshot the     *)
(* source would have landed on each day.                                   *)
(*                                                                         *)
(* Rows of a snapshot do not depend on each other, so a behaviour follows  *)
(* one loan through the days of a calendar.  The extract's dates are       *)
(* months ("%b-%Y" parses to the first day of the month), and months are   *)
(* numbered from the start of the calendar; a loan may be older than it.   *)
(***************************************************************************)
EXTENDS ExposureRules, Sequences

CONSTANTS
    MonthLength,   \* the calendar: the number of days of each month
    RawLoans,      \* rows of the extract
    ShortTerm,     \* bound: below it, an annuity's powers stay in TLC's integers
    Unparsable,    \* text that is no date and no number
    Absent         \* no row for the loan in a snapshot

ASSUME CalendarAssumption ==
    /\ ShortTerm \in Nat
    /\ MonthLength \in Seq(28..31) /\ MonthLength # <<>>

VARIABLES
    loan,     \* the loan's row of the master
    today,    \* the day of the last snapshot
    row,      \* its row in that snapshot
    seen      \* history: <<status, month end?>> of its rows so far
feedVars == <<loan, today, row, seen>>

FirstDay[m \in 1..Len(MonthLength) + 1] ==
    IF m = 1 THEN 1 ELSE FirstDay[m - 1] + MonthLength[m - 1]
LastDay     == FirstDay[Len(MonthLength) + 1] - 1
MonthOf(d)  == CHOOSE m \in DOMAIN MonthLength : FirstDay[m] <= d /\ d < FirstDay[m + 1]
MonthEnd(d) == d + 1 = FirstDay[MonthOf(d) + 1]

ASSUME MonthEndsAssumption == MonthEnds = {d \in 1..LastDay : MonthEnd(d)}

-----------------------------------------------------------------------------
(***************************************************************************)
(* The master.  A row without a numeric id or an issue date is rejected;   *)
(* any other column that does not parse becomes Null.  pseudonymise hashes *)
(* the id, which here is the id with a label.                              *)
(***************************************************************************)
Coerced(text) == IF text = Unparsable THEN Null ELSE text

Master(raws) ==
    {[raw EXCEPT !.issue_d      = Coerced(@),
                 !.last_pymnt_d = Coerced(@),
                 !.term_months  = Coerced(@)] :
        raw \in {r \in raws : r.id # Unparsable /\ r.issue_d # Unparsable}}

CustomerId(l) == <<"customer", l.id>>
ExposureId(l) == <<"LC", l.id>>

-----------------------------------------------------------------------------
DefaultAt     == 90
WriteOffAt    == 180
RetentionDays == 30

FloorZero(x) == IF x < 0 THEN 0 ELSE x
Least(a, b)  == IF a < b THEN a ELSE b

\* The nearest whole unit; conform() rounds what pandas leaves as a float.
Rounded(num, den) == (2 * num + den) \div (2 * den)

Power(base, n) ==
    LET power[i \in 0..n] == IF i = 0 THEN 1 ELSE base * power[i - 1]
    IN  power[n]

\* ((1+r)^n - (1+r)^k) / ((1+r)^n - 1) with 1+r = s/q, in units of q^-n.
Annuity(q, s, n, k) == [num |-> Power(s, n) - Power(s, k) * Power(q, n - k),
                        den |-> Power(s, n) - Power(q, n)]

\* A rate of a hundred percent a month, in the units of an annual rate.
Monthly == 12 * HundredPercent

\* A slip: the instalment of the running month is taken for paid.
PrincipalShareEarly(l, m) ==
    LET n == l.term_months
        k == Least(FloorZero(m + 1), n)
    IN  IF l.int_rate = 0 THEN [num |-> n - k, den |-> n]
        ELSE Annuity(Monthly, Monthly + l.int_rate, n, k)

\* The part of the principal left after m payments of a twelfth of the annual
\* rate, as a fraction; a zero rate falls back to the straight line.
PrincipalShare(l, m) ==
    LET n == l.term_months
        k == Least(FloorZero(m), n)
    IN  IF l.int_rate = 0 THEN [num |-> n - k, den |-> n]
        ELSE Annuity(Monthly, Monthly + l.int_rate, n, k)

\* nan_to_num: what cannot be computed is a balance of zero.
AmortisedBalance(l, m) ==
    IF Null \in {l.loan_amnt, l.int_rate, l.term_months} THEN 0
    ELSE LET share == PrincipalShare(l, m) IN Rounded(l.loan_amnt * share.num, share.den)

\* The extract as its data dictionary has it: cleaned before publication, with
\* no payment before the loan and figures in range.  Last payments fall in the
\* calendar.
ASSUME ExtractAssumption ==
    /\ MaxMoney \in Nat /\ HundredPercent \in Nat \ {0}
    /\ \A l \in Master(RawLoans) :
        /\ l.outcome \in {"defaulted", "settled", "open"} /\ l.grade \in Grades
        /\ l.issue_d \in Int /\ l.last_pymnt_d \in DOMAIN MonthLength \cup {Null}
        /\ l.last_pymnt_d # Null => l.issue_d <= l.last_pymnt_d
        /\ l.term_months \in (Nat \ {0}) \cup {Null}
        /\ l.loan_amnt \in 1..MaxMoney \cup {Null} /\ l.recoveries \in Nat \cup {Null}
        /\ l.int_rate \in Nat \cup {Null}
        /\ Null \notin {ExposureId(l), CustomerId(l), l.grade}

\* No loan was made at more than a hundred percent a year.
ASSUME RatesAssumption ==
    \A l \in Master(RawLoans) : l.int_rate \in 0..HundredPercent \cup {Null}

-----------------------------------------------------------------------------
(***************************************************************************)
(* build_snapshot for one loan on day d.                                   *)
(***************************************************************************)
MonthsOnBook(l, d) == MonthOf(d) - l.issue_d
MonthsPaid(l)      == IF l.last_pymnt_d = Null THEN 0 ELSE FloorZero(l.last_pymnt_d - l.issue_d)
Stopped(l, d)      == MonthsOnBook(l, d) > MonthsPaid(l)
StopAtPayment(l, d) == MonthsPaid(l)    \* a slip: a current loan owes what it ever did
StopAt(l, d)       == IF l.outcome = "open" THEN MonthsOnBook(l, d) ELSE MonthsPaid(l)

DaysSincePayment(l, d) == IF l.last_pymnt_d = Null THEN 0 ELSE d - FirstDay[l.last_pymnt_d]
DaysPastDueByMonth(l, d) ==    \* a slip: thirty days to every month
    IF l.outcome = "defaulted" /\ Stopped(l, d) /\ l.last_pymnt_d # Null
    THEN 30 * (MonthOf(d) - l.last_pymnt_d) ELSE 0
DaysPastDue(l, d) ==
    IF l.outcome = "defaulted" /\ Stopped(l, d) THEN FloorZero(DaysSincePayment(l, d)) ELSE 0

Closed(l, d)     == l.outcome = "settled" /\ Stopped(l, d)
WrittenOff(l, d) == DaysPastDue(l, d) >= WriteOffAt
Exited(l, d)     == Closed(l, d) \/ WrittenOff(l, d)

StatusUnordered(l, d) ==    \* a slip: the write-off is decided before the default
    CASE Closed(l, d)                     -> "closed"
      [] DaysPastDue(l, d) >= DefaultAt   -> "defaulted"
      [] DaysPastDue(l, d) > 0            -> "past_due"
      [] OTHER                            -> "performing"
Status(l, d) ==
    CASE Closed(l, d)                     -> "closed"
      [] WrittenOff(l, d)                 -> "written_off"
      [] DaysPastDue(l, d) \in DefaultAt..WriteOffAt - 1 -> "defaulted"
      [] DaysPastDue(l, d) \in 1..DefaultAt - 1 -> "past_due"
      [] OTHER                            -> "performing"

Outstanding(l, d) ==
    IF Exited(l, d) THEN 0
    ELSE AmortisedBalance(l, Least(MonthsOnBook(l, d), StopAt(l, d)))

ProvisionGross(l, d) ==    \* a slip: booked from the first day past due
    IF DaysPastDue(l, d) > 0 /\ l.recoveries # Null
    THEN FloorZero(Outstanding(l, d) - l.recoveries) ELSE 0
Provision(l, d) ==
    IF Status(l, d) # "defaulted" THEN 0
    ELSE FloorZero(Outstanding(l, d) - (IF l.recoveries = Null THEN 0 ELSE l.recoveries))

DaysSinceDue(l, d) ==    \* a slip: an exit is dated by the last payment
    IF Exited(l, d) THEN DaysSincePayment(l, d) ELSE -1
DaysSinceExit(l, d) ==
    CASE WrittenOff(l, d) -> DaysPastDue(l, d) - WriteOffAt
      [] Closed(l, d)     -> DaysSincePayment(l, d)
      [] OTHER            -> -1

OnFeed(l, d) == /\ l.issue_d <= MonthOf(d)
                /\ Exited(l, d) => DaysSinceExit(l, d) <= RetentionDays

ReportedRow(l, d) ==
    [ copy               |-> 1,
      exposure_id        |-> ExposureId(l),
      customer_id        |-> CustomerId(l),
      issue_d            |-> l.issue_d,
      term_months        |-> l.term_months,
      loan_amnt          |-> l.loan_amnt,
      outstanding_amount |-> Outstanding(l, d),
      provision_amount   |-> Provision(l, d),
      int_rate           |-> l.int_rate,
      grade              |-> l.grade,
      status             |-> Status(l, d),
      days_past_due      |-> DaysPastDue(l, d),
      default_flag       |-> Status(l, d) = "defaulted",
      attributes         |-> TRUE ]

SnapshotRow(l, d) == IF OnFeed(l, d) THEN ReportedRow(l, d) ELSE Absent

\* A missing row is no row.
ASSUME AbsentAssumption ==
    \A l \in Master(RawLoans), d \in 1..LastDay : ReportedRow(l, d) # Absent

Noted(r, d) == IF r = Absent THEN {} ELSE {<<r.status, MonthEnd(d)>>}

FeedInit ==
    /\ loan \in Master(RawLoans)
    /\ today = 1
    /\ row = SnapshotRow(loan, today)
    /\ seen = Noted(row, today)

\* One turn of run()'s loop over date_range(start, end, "D").
NextSnapshot ==
    /\ today < LastDay
    /\ today' = today + 1
    /\ row' = SnapshotRow(loan, today')
    /\ seen' = seen \cup Noted(row', today')
    /\ UNCHANGED loan

FeedSpec == FeedInit /\ [][NextSnapshot]_feedVars

-----------------------------------------------------------------------------
\* Every row the simulation derives for a clean loan is one the chain accepts:
\* silver quarantines none, and at a month end the engine contract takes every
\* row that is in scope (simulate_ods_snapshots.py:24-25).
FeedIsAcceptable ==
    row # Absent =>
        LET silver == Conform(row)
        IN  /\ FailedSilverRules(silver) = {}
            /\ (/\ MonthEnd(today) /\ loan.term_months \in {36, 60}
                /\ Null \notin {loan.int_rate, loan.loan_amnt})
                  => \A r \in InScope({silver}) : SatisfiesInputContract(r, today)

\* The lifecycle of the module's docstring, as far as the code keeps it: on a
\* daily feed no stage is left out and none is returned to until the loan drops
\* out for good.  The one stage a loan can miss is the closing of a settled one:
\* it is dated by the first of the month of the last payment, so it is 31 days
\* old, and off the feed, on the first day it could show after a month of 31.
Stages == [performing |-> {"performing", "past_due", "closed"},
           past_due    |-> {"past_due", "defaulted"},
           defaulted   |-> {"defaulted", "written_off"},
           written_off |-> {"written_off"},
           closed      |-> {"closed"}]
LastStages == {"written_off", "closed"}
MissesClosing(l) == /\ l.outcome = "settled" /\ l.last_pymnt_d # Null
                    /\ MonthLength[l.last_pymnt_d] = 31
LifecycleInOrder ==
    [][/\ row # Absent => IF row' = Absent
                          THEN row.status \in LastStages \/ MissesClosing(loan)
                          ELSE row'.status \in Stages[row.status]
       /\ row = Absent /\ seen # {} => row' = Absent]_feedVars

\* What the docstring says without exception: a loan that drops out of the feed
\* was on it written off or closed (simulate_ods_snapshots.py:16-18).
ClosingIsShown ==
    [][(row # Absent /\ row' = Absent) => row.status \in LastStages]_feedVars

\* gold_engine_input.py derives the default date from the days past due of each
\* reporting date; it is the same date on all of them.
DefaultDateNeverMoves ==
    [][(/\ row # Absent /\ row' # Absent
        /\ row.status = "defaulted" /\ row'.status = "defaulted")
           => today - DefaultDate(row) = today' - DefaultDate(row')]_feedVars

\* A defaulted loan does not just disappear: some month-end snapshot, the only
\* ones a reporting date reads, shows it written off before it drops out.
WriteOffIsReported ==
    (row = Absent /\ <<"defaulted", TRUE>> \in seen) => <<"written_off", TRUE>> \in seen

\* What the payment after day d repays comes to a unit at least.
RepaysAUnit(l, d) ==
    /\ Null \notin {l.loan_amnt, l.int_rate, l.term_months}
    /\ LET here  == PrincipalShare(l, MonthsOnBook(l, d))
           later == PrincipalShare(l, MonthsOnBook(l, d) + 1)
       IN  l.loan_amnt * (here.num - later.num) >= here.den

\* The balance only falls, and only by a payment or an exit: a loan that has
\* stopped paying neither accrues nor amortises, and one that pays owes less
\* after the month.
BalanceFollowsPayments ==
    [][(row # Absent /\ row' # Absent) =>
          /\ row'.outstanding_amount <= row.outstanding_amount
          /\ (loan.outcome = "defaulted" /\ Stopped(loan, today) /\ row'.status # "written_off")
                => row'.outstanding_amount = row.outstanding_amount
          /\ (/\ loan.outcome = "open" \/ ~Stopped(loan, today')
              /\ MonthEnd(today) /\ RepaysAUnit(loan, today))
                => row'.outstanding_amount < row.outstanding_amount]_feedVars

\* The instalment of a month is last month's balance with interest, less this
\* month's.  It is the same every month of the term, and together they clear the
\* loan and no more.
InstalmentsAreLevel ==
    LET n == loan.term_months
        Instalment(m) == (Monthly + loan.int_rate) * PrincipalShare(loan, m - 1).num
                         - Monthly * PrincipalShare(loan, m).num
    IN  (Null \notin {n, loan.int_rate} /\ loan.int_rate # 0 /\ n < ShortTerm) =>
            /\ \A m \in 1..n : Instalment(m) = Instalment(1) /\ Instalment(m) > 0
            /\ PrincipalShare(loan, n).num = 0
            /\ PrincipalShare(loan, 0).num = PrincipalShare(loan, 0).den
=============================================================================
