---------------------------- MODULE LoanFeedProofs --------------------------
(***************************************************************************)
(* What LoanFeed's run checks for one year of loans holds for every        *)
(* calendar and every extract: the calendar's arithmetic, the annuity's,   *)
(* the days past due of a loan that stops paying, and from these the feed. *)
(***************************************************************************)
EXTENDS LoanFeed, Induction, TLAPS

-----------------------------------------------------------------------------
(***************************************************************************)
(* The calendar.                                                           *)
(***************************************************************************)
Months == Len(MonthLength)

LEMMA MonthFacts ==
    /\ Months \in Nat \ {0} /\ DOMAIN MonthLength = 1..Months
    /\ \A m \in 1..Months : MonthLength[m] \in 28..31
  BY CalendarAssumption DEF Months

\* The function by which the first days of the months are defined.
IsCalendar(first, n) ==
    first = [m \in 1..n + 1 |-> IF m = 1 THEN 1 ELSE first[m - 1] + MonthLength[m - 1]]

LEMMA CalendarGrows ==
    ASSUME NEW n \in Nat, NEW g, IsCalendar(g, n)
    PROVE  \E h : IsCalendar(h, n + 1)
<1> DEFINE last == n + 2
           h    == [m \in 1..last |-> IF m = last THEN g[n + 1] + MonthLength[n + 1] ELSE g[m]]
<1>1. last # 1 /\ last - 1 = n + 1 /\ last \in 1..last /\ n + 1 \in 1..last /\ n + 1 # last
  OBVIOUS
<1>2. \A m \in 1..n + 1 : m \in 1..last /\ m # last /\ (m # 1 => m - 1 \in 1..n + 1)
  OBVIOUS
<1>3. \A m \in 1..last : m # last => m \in 1..n + 1
  OBVIOUS
<1>4. \A m \in 1..n + 1 : h[m] = g[m]
  BY <1>2
<1>5. h[last] = g[n + 1] + MonthLength[n + 1]
  BY <1>1
<1>6. DOMAIN h = 1..last /\ h = [m \in DOMAIN h |-> h[m]]
  OBVIOUS
<1> HIDE DEF h
<1>7. \A m \in 1..last : h[m] = IF m = 1 THEN 1 ELSE h[m - 1] + MonthLength[m - 1]
  <2> SUFFICES ASSUME NEW m \in 1..last
               PROVE  h[m] = IF m = 1 THEN 1 ELSE h[m - 1] + MonthLength[m - 1]
    OBVIOUS
  <2>1. CASE m = last
    <3>1. h[n + 1] = g[n + 1]
      BY <1>4
    <3> QED  BY <2>1, <3>1, <1>1, <1>5
  <2>2. CASE m \in 1..n + 1
    <3>1. g[m] = IF m = 1 THEN 1 ELSE g[m - 1] + MonthLength[m - 1]
      BY <2>2 DEF IsCalendar
    <3>2. h[m] = g[m] /\ (m # 1 => h[m - 1] = g[m - 1])
      BY <2>2, <1>2, <1>4
    <3> QED  BY <3>1, <3>2
  <2> QED  BY <2>1, <2>2, <1>3
<1>8. last = n + 1 + 1
  OBVIOUS
<1> HIDE DEF last
<1>9. IsCalendar(h, n + 1)
  BY <1>6, <1>7, <1>8 DEF IsCalendar
<1> QED  BY <1>9

LEMMA CalendarExists == \E first : IsCalendar(first, Months)
<1> DEFINE S == {n \in Nat : \E first : IsCalendar(first, n)}
<1>1. 0 \in S
  <2> DEFINE one == [m \in 1..1 |-> 1]
  <2>1. one = [m \in 1..0 + 1 |-> IF m = 1 THEN 1 ELSE one[m - 1] + MonthLength[m - 1]]
    OBVIOUS
  <2> HIDE DEF one
  <2>2. IsCalendar(one, 0)
    BY <2>1 DEF IsCalendar
  <2> QED  BY <2>2
<1>2. ASSUME NEW n \in Nat, n \in S PROVE n + 1 \in S
  BY <1>2, CalendarGrows
<1> HIDE DEF S
<1>3. Nat \subseteq S
  BY <1>1, <1>2, EveryNumber
<1> QED  BY <1>3, MonthFacts DEF S

\* The first days are what their definition says.
LEMMA FirstDayUnfolds ==
    \A m \in 1..Months + 1 :
        FirstDay[m] = IF m = 1 THEN 1 ELSE FirstDay[m - 1] + MonthLength[m - 1]
<1>1. FirstDay = CHOOSE first : IsCalendar(first, Months)
  BY DEF FirstDay, IsCalendar, Months
<1>2. IsCalendar(FirstDay, Months)
  BY <1>1, CalendarExists
<1> QED  BY <1>2 DEF IsCalendar

LEMMA FirstDayType ==
    /\ FirstDay[1] = 1
    /\ \A m \in 1..Months + 1 : FirstDay[m] \in Nat \ {0}
    /\ \A m \in 1..Months : FirstDay[m + 1] = FirstDay[m] + MonthLength[m]
<1>0. Months \in Nat \ {0} /\ \A m \in 1..Months : MonthLength[m] \in 28..31
  BY MonthFacts
<1>1. FirstDay[1] = 1
  BY <1>0, FirstDayUnfolds
<1>2. ASSUME NEW m \in 1..Months PROVE FirstDay[m + 1] = FirstDay[m] + MonthLength[m]
  <2>1. m + 1 \in 1..Months + 1 /\ m + 1 # 1 /\ m + 1 - 1 = m
    BY <1>0
  <2> QED  BY <2>1, FirstDayUnfolds
<1> DEFINE S == {n \in Nat : n <= Months => FirstDay[n + 1] \in Nat \ {0}}
<1>3. 0 \in S
  BY <1>1
<1>4. ASSUME NEW n \in Nat, n \in S PROVE n + 1 \in S
  <2> SUFFICES ASSUME n + 1 <= Months PROVE FirstDay[n + 1 + 1] \in Nat \ {0}
    OBVIOUS
  <2>1. n + 1 \in 1..Months /\ FirstDay[n + 1] \in Nat \ {0}
    BY <1>0, <1>4
  <2>2. FirstDay[n + 1 + 1] = FirstDay[n + 1] + MonthLength[n + 1] /\ MonthLength[n + 1] \in 28..31
    BY <2>1, <1>0, <1>2
  <2> QED  BY <2>1, <2>2
<1> HIDE DEF S
<1>5. Nat \subseteq S
  BY <1>3, <1>4, EveryNumber
<1>6. ASSUME NEW m \in 1..Months + 1 PROVE FirstDay[m] \in Nat \ {0}
  <2>1. m - 1 \in Nat /\ m - 1 <= Months /\ m - 1 + 1 = m
    BY <1>0
  <2>2. m - 1 \in S
    BY <1>5, <2>1
  <2> QED  BY <2>1, <2>2 DEF S
<1> QED  BY <1>1, <1>2, <1>6

\* Later months begin later.
LEMMA FirstDayGrows ==
    ASSUME NEW j \in 1..Months + 1, NEW m \in 1..Months + 1, j <= m
    PROVE  FirstDay[j] + 28 * (m - j) <= FirstDay[m]
<1>0. Months \in Nat \ {0} /\ \A i \in 1..Months : MonthLength[i] \in 28..31
  BY MonthFacts
<1> DEFINE S == {n \in Nat : j + n <= Months + 1 => FirstDay[j] + 28 * n <= FirstDay[j + n]}
<1>1. 0 \in S
  BY FirstDayType
<1>2. ASSUME NEW n \in Nat, n \in S PROVE n + 1 \in S
  <2> SUFFICES ASSUME j + (n + 1) <= Months + 1
               PROVE  FirstDay[j] + 28 * (n + 1) <= FirstDay[j + (n + 1)]
    OBVIOUS
  <2>1. j + n \in 1..Months /\ j + n \in 1..Months + 1 /\ j + (n + 1) = j + n + 1
    BY <1>0
  <2>2. FirstDay[j] + 28 * n <= FirstDay[j + n]
    BY <2>1, <1>2, <1>0
  <2>3. FirstDay[j + n + 1] = FirstDay[j + n] + MonthLength[j + n] /\ MonthLength[j + n] \in 28..31
    BY <2>1, <1>0, FirstDayType
  <2>4. FirstDay[j] \in Nat /\ FirstDay[j + n] \in Nat
    BY <2>1, FirstDayType
  <2> QED  BY <2>1, <2>2, <2>3, <2>4
<1> HIDE DEF S
<1>3. Nat \subseteq S
  BY <1>1, <1>2, EveryNumber
<1>4. m - j \in S /\ j + (m - j) = m
  BY <1>0, <1>3
<1> QED  BY <1>4, <1>0 DEF S

\* A day has one month.
LEMMA MonthOfDay ==
    ASSUME NEW d \in 1..LastDay
    PROVE  /\ MonthOf(d) \in 1..Months
           /\ FirstDay[MonthOf(d)] <= d /\ d < FirstDay[MonthOf(d) + 1]
<1>0. Months \in Nat \ {0} /\ DOMAIN MonthLength = 1..Months
  BY MonthFacts
<1> DEFINE S == {m \in 1..Months + 1 : d < FirstDay[m]}
<1>1. Months + 1 \in S /\ FirstDay[Months + 1] \in Nat
  <2>1. Months + 1 \in 1..Months + 1
    BY <1>0
  <2>2. FirstDay[Months + 1] \in Nat /\ LastDay = FirstDay[Months + 1] - 1
    BY <2>1, FirstDayType DEF LastDay, Months
  <2> QED  BY <2>1, <2>2
<1>2. S \in SUBSET Nat /\ S # {}
  BY <1>1, <1>0
<1>3. PICK n \in S : \A k \in S : n <= k
  BY <1>2, LeastNumber
<1>4. n # 1 /\ n - 1 \in 1..Months /\ n - 1 \in 1..Months + 1 /\ n - 1 + 1 = n
  BY <1>0, <1>3, FirstDayType
<1>5. n - 1 \notin S
  BY <1>3, <1>4
<1>6. FirstDay[n - 1] <= d /\ d < FirstDay[n - 1 + 1]
  <2>1. FirstDay[n - 1] \in Nat /\ d \in Int
    BY <1>4, FirstDayType DEF LastDay
  <2> QED  BY <2>1, <1>3, <1>4, <1>5
<1>7. \E m \in DOMAIN MonthLength : FirstDay[m] <= d /\ d < FirstDay[m + 1]
  BY <1>0, <1>4, <1>6
<1> QED  BY <1>0, <1>7 DEF MonthOf

\* It is after the k-th exactly when the month after that has begun.
LEMMA MonthIsAfter ==
    ASSUME NEW d \in 1..LastDay, NEW k \in 1..Months
    PROVE  MonthOf(d) > k <=> d >= FirstDay[k + 1]
<1>0. Months \in Nat \ {0} /\ d \in Int
  BY MonthFacts DEF LastDay
<1> DEFINE m == MonthOf(d)
<1>1. m \in 1..Months /\ FirstDay[m] <= d /\ d < FirstDay[m + 1]
  BY MonthOfDay
<1>2. FirstDay[m] \in Nat /\ FirstDay[m + 1] \in Nat /\ FirstDay[k + 1] \in Nat
  BY <1>0, <1>1, FirstDayType
<1>3. CASE m > k
  <2>1. k + 1 \in 1..Months + 1 /\ m \in 1..Months + 1 /\ k + 1 <= m /\ m - (k + 1) \in Nat
    BY <1>0, <1>1, <1>3
  <2>2. FirstDay[k + 1] + 28 * (m - (k + 1)) <= FirstDay[m]
    BY <2>1, FirstDayGrows
  <2> QED  BY <1>0, <1>1, <1>2, <1>3, <2>1, <2>2
<1>4. CASE ~(m > k)
  <2>1. k + 1 \in 1..Months + 1 /\ m + 1 \in 1..Months + 1 /\ m + 1 <= k + 1 /\ (k + 1) - (m + 1) \in Nat
    BY <1>0, <1>1, <1>4
  <2>2. FirstDay[m + 1] + 28 * ((k + 1) - (m + 1)) <= FirstDay[k + 1]
    BY <2>1, FirstDayGrows
  <2> QED  BY <1>0, <1>1, <1>2, <1>4, <2>1, <2>2
<1> QED  BY <1>3, <1>4

\* From one day to the next it stays or is the next one.
LEMMA MonthsGoOn ==
    ASSUME NEW d \in 1..LastDay, d < LastDay
    PROVE  /\ d + 1 \in 1..LastDay
           /\ MonthOf(d + 1) = IF MonthEnd(d) THEN MonthOf(d) + 1 ELSE MonthOf(d)
<1>0. Months \in Nat \ {0} /\ d \in Int /\ LastDay \in Int
  BY MonthFacts, FirstDayType DEF LastDay, Months
<1>1. d + 1 \in 1..LastDay
  BY <1>0
<1> DEFINE m == MonthOf(d)
           n == MonthOf(d + 1)
<1>2. m \in 1..Months /\ FirstDay[m] <= d /\ d < FirstDay[m + 1]
  BY MonthOfDay
<1>3. n \in 1..Months /\ FirstDay[n] <= d + 1 /\ d + 1 < FirstDay[n + 1]
  BY <1>1, MonthOfDay
<1>4. n > m <=> d + 1 >= FirstDay[m + 1]
  BY <1>1, <1>2, MonthIsAfter
<1>5. MonthEnd(d) <=> d + 1 = FirstDay[m + 1]
  BY DEF MonthEnd
<1>6. FirstDay[m] \in Nat /\ FirstDay[m + 1] \in Nat /\ FirstDay[n] \in Nat
  BY <1>0, <1>2, <1>3, FirstDayType
<1>7. n >= m
  <2>1. CASE m = 1
    BY <2>1, <1>3, <1>0
  <2>2. CASE m # 1
    <3>1. m - 1 \in 1..Months /\ m - 1 + 1 = m
      BY <2>2, <1>2, <1>0
    <3>2. n > m - 1 <=> d + 1 >= FirstDay[m]
      BY <1>1, <3>1, MonthIsAfter
    <3> QED  BY <3>1, <3>2, <1>0, <1>2, <1>3, <1>6
  <2> QED  BY <2>1, <2>2
<1>8. CASE MonthEnd(d)
  <2>1. n > m
    BY <1>4, <1>5, <1>6, <1>8
  <2>2. m + 1 \in 1..Months /\ m + 1 \in 1..Months + 1
    BY <2>1, <1>0, <1>2, <1>3
  <2>3. n > m + 1 => d + 1 >= FirstDay[m + 1 + 1]
    BY <1>1, <2>2, MonthIsAfter
  <2>4. FirstDay[m + 1 + 1] = FirstDay[m + 1] + MonthLength[m + 1] /\ MonthLength[m + 1] \in 28..31
    BY <2>2, FirstDayType, MonthFacts
  <2>5. n = m + 1
    BY <2>1, <2>3, <2>4, <1>0, <1>2, <1>3, <1>5, <1>6, <1>8
  <2> QED  BY <2>5, <1>1, <1>8
<1>9. CASE ~MonthEnd(d)
  <2>1. n = m
    BY <1>0, <1>2, <1>3, <1>4, <1>5, <1>6, <1>7, <1>9
  <2> QED  BY <2>1, <1>1, <1>9
<1> QED  BY <1>8, <1>9

\* Thirty-one days on end hold a month end.
LEMMA MonthEndComes ==
    ASSUME NEW d \in 1..LastDay, d + 30 <= LastDay
    PROVE  \E e \in d..d + 30 : e \in 1..LastDay /\ MonthEnd(e)
<1>0. Months \in Nat \ {0} /\ d \in Int /\ LastDay \in Int
  BY MonthFacts, FirstDayType DEF LastDay, Months
<1> DEFINE m == MonthOf(d)
           e == FirstDay[m + 1] - 1
<1>1. m \in 1..Months /\ FirstDay[m] <= d /\ d < FirstDay[m + 1]
  BY MonthOfDay
<1>2. FirstDay[m + 1] = FirstDay[m] + MonthLength[m] /\ MonthLength[m] \in 28..31
      /\ FirstDay[m] \in Nat
  BY <1>1, <1>0, FirstDayType, MonthFacts
<1>3. e \in d..d + 30 /\ e \in 1..LastDay /\ e \in Int
  BY <1>0, <1>1, <1>2
<1>4. MonthOf(e) = m
  <2> DEFINE k == MonthOf(e)
  <2>1. k \in 1..Months
    BY <1>3, MonthOfDay
  <2>2. k > m <=> e >= FirstDay[m + 1]
    BY <1>1, <1>3, MonthIsAfter
  <2>3. k >= m
    <3>1. CASE m = 1
      BY <3>1, <2>1
    <3>2. CASE m # 1
      <4>1. m - 1 \in 1..Months /\ m - 1 + 1 = m
        BY <3>2, <1>1, <1>0
      <4>2. k > m - 1 <=> e >= FirstDay[m]
        BY <1>3, <4>1, MonthIsAfter
      <4> QED  BY <4>1, <4>2, <1>0, <1>1, <1>2, <1>3, <2>1
    <3> QED  BY <3>1, <3>2
  <2> QED  BY <1>0, <1>1, <1>2, <2>1, <2>2, <2>3
<1>5. MonthEnd(e)
  BY <1>2, <1>4 DEF MonthEnd
<1> QED  BY <1>3, <1>5

-----------------------------------------------------------------------------
(***************************************************************************)
(* A loan on a day.                                                        *)
(***************************************************************************)
LEMMA LoanFacts ==
    ASSUME NEW l \in Master(RawLoans)
    PROVE  /\ l.outcome \in {"defaulted", "settled", "open"} /\ l.issue_d \in Int
           /\ l.last_pymnt_d # Null => /\ l.last_pymnt_d \in 1..Months
                                       /\ l.last_pymnt_d + 1 \in 1..Months + 1
                                       /\ l.issue_d <= l.last_pymnt_d
  BY ExtractAssumption, MonthFacts

LEMMA DayFacts ==
    ASSUME NEW d \in 1..LastDay
    PROVE  d \in Nat /\ LastDay \in Nat /\ MonthOf(d) \in 1..Months /\ MonthOf(d) \in Int
<1>1. Months \in Nat \ {0} /\ LastDay \in Int
  BY MonthFacts, FirstDayType DEF LastDay, Months
<1> QED  BY <1>1, MonthOfDay

\* A loan has stopped from the month after its last payment on.
LEMMA StoppedSince ==
    ASSUME NEW l \in Master(RawLoans), NEW d \in 1..LastDay
    PROVE  /\ MonthsOnBook(l, d) = MonthOf(d) - l.issue_d /\ MonthsOnBook(l, d) \in Int
           /\ MonthsPaid(l) \in Nat
           /\ l.last_pymnt_d # Null =>
                (Stopped(l, d) <=> d >= FirstDay[l.last_pymnt_d + 1])
           /\ l.last_pymnt_d = Null => MonthsPaid(l) = 0
<1>1. MonthOf(d) \in Int /\ l.issue_d \in Int
  BY DayFacts, LoanFacts
<1>2. MonthsOnBook(l, d) = MonthOf(d) - l.issue_d /\ MonthsOnBook(l, d) \in Int
  BY <1>1 DEF MonthsOnBook
<1>3. CASE l.last_pymnt_d = Null
  <2>1. MonthsPaid(l) = 0
    BY <1>3 DEF MonthsPaid
  <2> QED  BY <2>1, <1>2, <1>3
<1>4. CASE l.last_pymnt_d # Null
  <2>1. l.last_pymnt_d \in 1..Months /\ l.last_pymnt_d \in Int /\ l.issue_d <= l.last_pymnt_d
    BY <1>4, LoanFacts
  <2>2. MonthsPaid(l) = l.last_pymnt_d - l.issue_d /\ MonthsPaid(l) \in Nat
    BY <2>1, <1>1, <1>4 DEF MonthsPaid, FloorZero
  <2>3. MonthOf(d) > l.last_pymnt_d <=> d >= FirstDay[l.last_pymnt_d + 1]
    BY <2>1, MonthIsAfter
  <2>4. Stopped(l, d) <=> d >= FirstDay[l.last_pymnt_d + 1]
    BY <2>1, <2>2, <2>3, <1>1, <1>2 DEF Stopped
  <2> QED  BY <2>2, <2>4, <1>2, <1>4
<1> QED  BY <1>3, <1>4

LEMMA StoppedStays ==
    ASSUME NEW l \in Master(RawLoans), NEW d \in 1..LastDay, d < LastDay, Stopped(l, d)
    PROVE  Stopped(l, d + 1)
<1>1. d + 1 \in 1..LastDay /\ MonthOf(d + 1) >= MonthOf(d)
  BY MonthsGoOn, DayFacts
<1>2. MonthsOnBook(l, d + 1) >= MonthsOnBook(l, d)
  BY <1>1, StoppedSince, DayFacts, LoanFacts
<1>3. MonthsOnBook(l, d + 1) \in Int /\ MonthsOnBook(l, d) \in Int /\ MonthsPaid(l) \in Nat
  BY <1>1, StoppedSince
<1> QED  BY <1>2, <1>3 DEF Stopped

\* A defaulted loan is past due from the month after its last payment, by the
\* days since the first of the month of that payment.
Late(l, d) == /\ l.outcome = "defaulted" /\ l.last_pymnt_d # Null
              /\ d >= FirstDay[l.last_pymnt_d + 1]

LEMMA DaysPastDueIs ==
    ASSUME NEW l \in Master(RawLoans), NEW d \in 1..LastDay
    PROVE  /\ DaysPastDue(l, d) \in Nat
           /\ Late(l, d) => /\ FirstDay[l.last_pymnt_d] \in Nat
                            /\ DaysPastDue(l, d) = d - FirstDay[l.last_pymnt_d]
                            /\ DaysPastDue(l, d) >= 28
           /\ ~Late(l, d) => DaysPastDue(l, d) = 0
<1>1. d \in Nat
  BY DayFacts
<1>2. CASE Late(l, d)
  <2>1. l.last_pymnt_d # Null /\ l.outcome = "defaulted"
    BY <1>2 DEF Late
  <2> DEFINE last == l.last_pymnt_d
  <2>2. last \in 1..Months /\ last \in 1..Months + 1 /\ last + 1 \in 1..Months + 1
    BY <2>1, LoanFacts, MonthFacts
  <2>3. /\ FirstDay[last + 1] = FirstDay[last] + MonthLength[last] /\ MonthLength[last] \in 28..31
        /\ FirstDay[last] \in Nat
    BY <2>2, FirstDayType, MonthFacts
  <2>4. d - FirstDay[last] >= 28 /\ d - FirstDay[last] \in Nat
    BY <2>3, <1>1, <1>2 DEF Late
  <2>5. Stopped(l, d)
    BY <2>1, <1>2, StoppedSince DEF Late
  <2>6. DaysPastDue(l, d) = d - FirstDay[last]
    BY <2>1, <2>4, <2>5 DEF DaysPastDue, DaysSincePayment, FloorZero
  <2> QED  BY <2>3, <2>4, <2>6, <1>2
<1>3. CASE ~Late(l, d)
  <2>1. CASE l.outcome = "defaulted" /\ l.last_pymnt_d = Null
    BY <2>1, <1>3 DEF DaysPastDue, DaysSincePayment, FloorZero
  <2>2. CASE l.outcome = "defaulted" /\ l.last_pymnt_d # Null
    <3>1. ~Stopped(l, d)
      BY <2>2, <1>3, StoppedSince DEF Late
    <3> QED  BY <3>1, <1>3 DEF DaysPastDue
  <2>3. CASE l.outcome # "defaulted"
    BY <2>3, <1>3 DEF DaysPastDue
  <2> QED  BY <2>1, <2>2, <2>3
<1> QED  BY <1>2, <1>3

LEMMA LateTomorrow ==
    ASSUME NEW l \in Master(RawLoans), NEW d \in 1..LastDay, d < LastDay
    PROVE  /\ d + 1 \in 1..LastDay
           /\ Late(l, d) => Late(l, d + 1) /\ DaysPastDue(l, d + 1) = DaysPastDue(l, d) + 1
           /\ ~Late(l, d) /\ Late(l, d + 1) => DaysPastDue(l, d + 1) \in 28..31
<1>1. d + 1 \in 1..LastDay /\ d \in Nat
  BY MonthsGoOn, DayFacts
<1> DEFINE last == l.last_pymnt_d
<1>2. ASSUME Late(l, d)
      PROVE  Late(l, d + 1) /\ DaysPastDue(l, d + 1) = DaysPastDue(l, d) + 1
  <2>1. last # Null /\ last + 1 \in 1..Months + 1
    BY <1>2, LoanFacts DEF Late
  <2>2. FirstDay[last + 1] \in Nat
    BY <2>1, FirstDayType
  <2>3. Late(l, d + 1)
    BY <2>2, <1>1, <1>2 DEF Late
  <2>4. FirstDay[last] \in Nat /\ DaysPastDue(l, d) = d - FirstDay[last]
    BY <1>2, DaysPastDueIs
  <2>5. DaysPastDue(l, d + 1) = d + 1 - FirstDay[last]
    BY <2>3, <1>1, DaysPastDueIs
  <2> QED  BY <2>3, <2>4, <2>5, <1>1
<1>3. ASSUME ~Late(l, d), Late(l, d + 1) PROVE DaysPastDue(l, d + 1) \in 28..31
  <2>1. last # Null /\ last \in 1..Months /\ last + 1 \in 1..Months + 1 /\ last \in 1..Months + 1
    BY <1>3, LoanFacts, MonthFacts DEF Late
  <2>2. /\ FirstDay[last + 1] = FirstDay[last] + MonthLength[last] /\ MonthLength[last] \in 28..31
        /\ FirstDay[last] \in Nat
    BY <2>1, FirstDayType, MonthFacts
  <2>3. d + 1 = FirstDay[last + 1]
    BY <2>2, <1>1, <1>3 DEF Late
  <2>4. DaysPastDue(l, d + 1) = d + 1 - FirstDay[last]
    BY <1>1, <1>3, DaysPastDueIs
  <2> QED  BY <2>2, <2>3, <2>4
<1> QED  BY <1>1, <1>2, <1>3

\* The stages by the days past due.
LEMMA StatusIs ==
    ASSUME NEW l \in Master(RawLoans), NEW d \in 1..LastDay
    PROVE  /\ Status(l, d) \in {"closed", "written_off", "defaulted", "past_due", "performing"}
           /\ Status(l, d) = "closed"      <=> Closed(l, d)
           /\ Status(l, d) = "written_off" <=> DaysPastDue(l, d) >= 180
           /\ Status(l, d) = "defaulted"   <=> DaysPastDue(l, d) \in 90..179
           /\ Status(l, d) = "past_due"    <=> DaysPastDue(l, d) \in 1..89
<1>1. DaysPastDue(l, d) \in Nat
  BY DaysPastDueIs
<1>2. CASE Closed(l, d)
  <2>1. Status(l, d) = "closed" /\ DaysPastDue(l, d) = 0
    BY <1>2 DEF Status, Closed, DaysPastDue, WrittenOff, DefaultAt, WriteOffAt
  <2> QED  BY <2>1, <1>2
<1>3. CASE ~Closed(l, d) /\ DaysPastDue(l, d) >= 180
  <2>1. Status(l, d) = "written_off"
    BY <1>1, <1>3 DEF Status, WrittenOff, DefaultAt, WriteOffAt
  <2> QED  BY <2>1, <1>1, <1>3
<1>4. CASE ~Closed(l, d) /\ DaysPastDue(l, d) \in 90..179
  <2>1. Status(l, d) = "defaulted"
    BY <1>1, <1>4 DEF Status, WrittenOff, DefaultAt, WriteOffAt
  <2> QED  BY <2>1, <1>1, <1>4
<1>5. CASE ~Closed(l, d) /\ DaysPastDue(l, d) \in 1..89
  <2>1. Status(l, d) = "past_due"
    BY <1>1, <1>5 DEF Status, WrittenOff, DefaultAt, WriteOffAt
  <2> QED  BY <2>1, <1>1, <1>5
<1>6. CASE ~Closed(l, d) /\ DaysPastDue(l, d) = 0
  <2>1. Status(l, d) = "performing"
    BY <1>6 DEF Status, WrittenOff, DefaultAt, WriteOffAt
  <2> QED  BY <2>1, <1>6
<1>7. DaysPastDue(l, d) >= 180 \/ DaysPastDue(l, d) \in 90..179
      \/ DaysPastDue(l, d) \in 1..89 \/ DaysPastDue(l, d) = 0
  BY <1>1
<1> QED  BY <1>2, <1>3, <1>4, <1>5, <1>6, <1>7

\* Who has left and how long ago.
LEMMA FeedKeeps ==
    ASSUME NEW l \in Master(RawLoans), NEW d \in 1..LastDay
    PROVE  /\ l.outcome = "defaulted" => (OnFeed(l, d) <=> /\ l.issue_d <= MonthOf(d)
                                                           /\ DaysPastDue(l, d) <= 210)
           /\ l.outcome = "settled" => (OnFeed(l, d) <=>
                 /\ l.issue_d <= MonthOf(d)
                 /\ Stopped(l, d) => DaysSincePayment(l, d) <= 30)
           /\ l.outcome = "open" => (OnFeed(l, d) <=> l.issue_d <= MonthOf(d))
<1>1. DaysPastDue(l, d) \in Nat
  BY DaysPastDueIs
<1>2. CASE l.outcome = "defaulted"
  <2>1. ~Closed(l, d)
    BY <1>2 DEF Closed
  <2>2. Exited(l, d) <=> DaysPastDue(l, d) >= 180
    BY <2>1 DEF Exited, WrittenOff, WriteOffAt
  <2>3. DaysPastDue(l, d) >= 180 => DaysSinceExit(l, d) = DaysPastDue(l, d) - 180
    BY <2>1 DEF DaysSinceExit, WrittenOff, WriteOffAt
  <2>4. OnFeed(l, d) <=> /\ l.issue_d <= MonthOf(d)
                         /\ DaysPastDue(l, d) >= 180 => DaysPastDue(l, d) - 180 <= 30
    BY <2>2, <2>3 DEF OnFeed, RetentionDays
  <2> QED  BY <2>4, <1>1, <1>2
<1>3. CASE l.outcome = "settled"
  <2>1. DaysPastDue(l, d) = 0 /\ ~WrittenOff(l, d)
    BY <1>3 DEF DaysPastDue, WrittenOff, WriteOffAt
  <2>2. Closed(l, d) <=> Stopped(l, d)
    BY <1>3 DEF Closed
  <2>3. Stopped(l, d) => DaysSinceExit(l, d) = DaysSincePayment(l, d)
    BY <2>1, <2>2 DEF DaysSinceExit
  <2> QED  BY <2>1, <2>2, <2>3, <1>3 DEF OnFeed, Exited, RetentionDays
<1>4. CASE l.outcome = "open"
  <2>1. ~WrittenOff(l, d) /\ ~Closed(l, d)
    BY <1>4 DEF DaysPastDue, WrittenOff, WriteOffAt, Closed
  <2> QED  BY <2>1, <1>4 DEF OnFeed, Exited
<1> QED  BY <1>2, <1>3, <1>4, LoanFacts

\* A loan that dropped out does not come back.
LEMMA DroppedStays ==
    ASSUME NEW l \in Master(RawLoans), NEW d \in 1..LastDay, d < LastDay,
           l.issue_d <= MonthOf(d), ~OnFeed(l, d)
    PROVE  ~OnFeed(l, d + 1)
<1>1. d + 1 \in 1..LastDay /\ d \in Nat
  BY MonthsGoOn, DayFacts
<1>2. CASE l.outcome = "defaulted"
  <2>1. DaysPastDue(l, d) > 210
    BY <1>2, FeedKeeps, DaysPastDueIs
  <2>2. Late(l, d)
    BY <2>1, DaysPastDueIs
  <2>3. DaysPastDue(l, d + 1) = DaysPastDue(l, d) + 1 /\ DaysPastDue(l, d) \in Nat
    BY <2>2, LateTomorrow, DaysPastDueIs
  <2>4. ~(DaysPastDue(l, d + 1) <= 210)
    BY <2>1, <2>3
  <2> QED  BY <2>4, <1>1, <1>2, FeedKeeps
<1>3. CASE l.outcome = "settled"
  <2>1. Stopped(l, d) /\ ~(DaysSincePayment(l, d) <= 30)
    BY <1>3, FeedKeeps
  <2>2. Stopped(l, d + 1)
    BY <2>1, StoppedStays
  <2>3. l.last_pymnt_d # Null
    BY <2>1 DEF DaysSincePayment
  <2>4. l.last_pymnt_d \in 1..Months + 1
    BY <2>3, LoanFacts, MonthFacts
  <2>5. FirstDay[l.last_pymnt_d] \in Nat
    BY <2>4, FirstDayType
  <2>6. ~(DaysSincePayment(l, d + 1) <= 30)
    BY <2>1, <2>3, <2>5, <1>1 DEF DaysSincePayment
  <2> QED  BY <2>2, <2>6, <1>1, <1>3, FeedKeeps
<1>4. CASE l.outcome = "open"
  BY <1>4, FeedKeeps
<1> QED  BY <1>2, <1>3, <1>4, LoanFacts

-----------------------------------------------------------------------------
(***************************************************************************)
(* The feed of the chosen loan: each snapshot is derived from the loan     *)
(* alone, and what has been seen is what the days so far have shown.       *)
(***************************************************************************)
SeenUntil(l, d) == UNION {Noted(SnapshotRow(l, e), e) : e \in 1..d}

FeedState ==
    /\ loan \in Master(RawLoans)
    /\ today \in 1..LastDay
    /\ row = SnapshotRow(loan, today)
    /\ seen = SeenUntil(loan, today)

LEMMA NextDaySeen ==
    ASSUME NEW l, NEW d \in Nat
    PROVE  SeenUntil(l, d + 1) = SeenUntil(l, d) \cup Noted(SnapshotRow(l, d + 1), d + 1)
<1>1. 1..d + 1 = 1..d \cup {d + 1}
  OBVIOUS
<1> QED  BY <1>1, Zenon DEF SeenUntil

\* A row is there exactly when the loan is on the feed.
LEMMA RowIs ==
    ASSUME NEW l \in Master(RawLoans), NEW d \in 1..LastDay
    PROVE  /\ SnapshotRow(l, d) = Absent <=> ~OnFeed(l, d)
           /\ SnapshotRow(l, d) # Absent => SnapshotRow(l, d) = ReportedRow(l, d)
<1>1. ReportedRow(l, d) # Absent
  BY AbsentAssumption
<1> QED  BY <1>1 DEF SnapshotRow

LEMMA RowFields ==
    ASSUME NEW l, NEW d
    PROVE  /\ ReportedRow(l, d).status = Status(l, d)
           /\ ReportedRow(l, d).days_past_due = DaysPastDue(l, d)
           /\ ReportedRow(l, d).outstanding_amount = Outstanding(l, d)
  BY DEF ReportedRow

LEMMA NotedRow ==
    ASSUME NEW l \in Master(RawLoans), NEW d \in 1..LastDay
    PROVE  Noted(SnapshotRow(l, d), d) =
               IF OnFeed(l, d) THEN {<<Status(l, d), MonthEnd(d)>>} ELSE {}
  BY RowIs, RowFields DEF Noted

\* What has been seen was on the feed on some day.
LEMMA SeenOnce ==
    ASSUME NEW l \in Master(RawLoans), NEW d \in 1..LastDay, NEW s \in SeenUntil(l, d)
    PROVE  \E e \in 1..d : OnFeed(l, e) /\ s = <<Status(l, e), MonthEnd(e)>>
<1>1. PICK e \in 1..d : s \in Noted(SnapshotRow(l, e), e)
  BY DEF SeenUntil
<1>2. e \in 1..LastDay
  BY DayFacts
<1> QED  BY <1>1, <1>2, NotedRow

\* The book only ages.
LEMMA MonthsDoNotFall ==
    ASSUME NEW d \in 1..LastDay, NEW e \in 1..d
    PROVE  MonthOf(e) <= MonthOf(d)
<1>0. d \in Nat /\ LastDay \in Nat
  BY DayFacts
<1> DEFINE S == {n \in Nat : e + n <= LastDay => MonthOf(e) <= MonthOf(e + n)}
<1>1. e \in 1..LastDay
  BY <1>0
<1>2. 0 \in S
  BY <1>1, DayFacts
<1>3. ASSUME NEW n \in Nat, n \in S PROVE n + 1 \in S
  <2> SUFFICES ASSUME e + (n + 1) <= LastDay PROVE MonthOf(e) <= MonthOf(e + (n + 1))
    OBVIOUS
  <2>1. e + n \in 1..LastDay /\ e + n < LastDay /\ e + (n + 1) = e + n + 1
    BY <1>0, <1>1
  <2>2. MonthOf(e + n + 1) >= MonthOf(e + n)
    BY <2>1, MonthsGoOn, DayFacts
  <2>3. MonthOf(e) <= MonthOf(e + n)
    BY <2>1, <1>3, <1>0
  <2>4. MonthOf(e) \in Int /\ MonthOf(e + n) \in Int /\ MonthOf(e + n + 1) \in Int
    BY <2>1, <1>1, DayFacts, MonthsGoOn
  <2> QED  BY <2>1, <2>2, <2>3, <2>4
<1> HIDE DEF S
<1>4. Nat \subseteq S
  BY <1>2, <1>3, EveryNumber
<1>5. d - e \in S /\ e + (d - e) = d /\ d <= LastDay
  BY <1>0, <1>4
<1> QED  BY <1>5 DEF S

\* The first snapshot is of a day of the calendar.
LEMMA FeedStateInit == FeedInit => FeedState
<1> SUFFICES ASSUME FeedInit PROVE FeedState
  OBVIOUS
<1>1. 1 \in 1..LastDay
  <2>1. /\ 1 \in 1..Months + 1 /\ Months + 1 \in 1..Months + 1 /\ 1 <= Months + 1
        /\ Months >= 1 /\ Months \in Nat
    BY MonthFacts
  <2>2. FirstDay[1] + 28 * (Months + 1 - 1) <= FirstDay[Months + 1]
    BY <2>1, FirstDayGrows
  <2>3. FirstDay[Months + 1] \in Nat /\ FirstDay[1] = 1
    BY <2>1, FirstDayType
  <2>4. LastDay = FirstDay[Months + 1] - 1
    BY DEF LastDay, Months
  <2> QED  BY <2>1, <2>2, <2>3, <2>4
<1>2. SeenUntil(loan, 1) = Noted(SnapshotRow(loan, 1), 1)
  <2>1. 1..1 = {1}
    OBVIOUS
  <2> QED  BY <2>1, Zenon DEF SeenUntil
<1> QED  BY <1>1, <1>2 DEF FeedInit, FeedState

LEMMA FeedStateNext == FeedState /\ [NextSnapshot]_feedVars => FeedState'
<1> SUFFICES ASSUME FeedState, [NextSnapshot]_feedVars PROVE FeedState'
  OBVIOUS
<1>1. CASE NextSnapshot
  <2>1. today + 1 \in 1..LastDay /\ today \in Nat
    BY <1>1, MonthsGoOn, DayFacts DEF FeedState, NextSnapshot
  <2>2. SeenUntil(loan, today + 1) = SeenUntil(loan, today) \cup Noted(SnapshotRow(loan, today + 1), today + 1)
    BY <2>1, NextDaySeen
  <2>3. today' = today + 1 /\ loan' = loan /\ row' = SnapshotRow(loan, today + 1)
        /\ seen' = seen \cup Noted(SnapshotRow(loan, today + 1), today + 1)
    BY <1>1 DEF NextSnapshot
  <2>4. seen' = SeenUntil(loan, today + 1)
    BY <2>2, <2>3 DEF FeedState
  <2>5. SeenUntil(loan, today)' = SeenUntil(loan, today + 1)
        /\ SnapshotRow(loan, today)' = SnapshotRow(loan, today + 1)
    BY <2>3
  <2> QED  BY <2>1, <2>3, <2>4, <2>5 DEF FeedState
<1>2. CASE UNCHANGED feedVars
  <2>1. loan' = loan /\ today' = today /\ row' = row /\ seen' = seen
    BY <1>2 DEF feedVars
  <2>2. SeenUntil(loan, today)' = SeenUntil(loan, today)
        /\ SnapshotRow(loan, today)' = SnapshotRow(loan, today)
    BY <2>1
  <2> QED  BY <2>1, <2>2 DEF FeedState
<1> QED  BY <1>1, <1>2

\* The snapshots of a behaviour are the chosen loan's rows of the days so far
\* (build_snapshot reads the master and the date, and keeps nothing in between).
THEOREM SnapshotsFollowTheLoan == FeedSpec => []FeedState
<1>1. FeedInit => FeedState
  BY FeedStateInit
<1>2. FeedState /\ [NextSnapshot]_feedVars => FeedState'
  BY FeedStateNext
<1> QED  BY <1>1, <1>2, PTL DEF FeedSpec

\* One turn, in terms of the loan.
LEMMA TurnOf ==
    ASSUME FeedState, NextSnapshot
    PROVE  /\ loan \in Master(RawLoans) /\ today \in 1..LastDay /\ today < LastDay
           /\ today + 1 \in 1..LastDay /\ today' = today + 1 /\ today \in Nat
           /\ row = Absent <=> ~OnFeed(loan, today)
           /\ row' = Absent <=> ~OnFeed(loan, today + 1)
           /\ row # Absent => row = ReportedRow(loan, today)
           /\ row' # Absent => row' = ReportedRow(loan, today + 1)
<1>1. /\ loan \in Master(RawLoans) /\ today \in 1..LastDay /\ today < LastDay
      /\ today' = today + 1 /\ row = SnapshotRow(loan, today) /\ row' = SnapshotRow(loan, today + 1)
  BY DEF FeedState, NextSnapshot
<1>2. today + 1 \in 1..LastDay /\ today \in Nat
  BY <1>1, MonthsGoOn, DayFacts
<1> QED  BY <1>1, <1>2, RowIs

-----------------------------------------------------------------------------
\* The default date the engine is given is the same on every reporting date:
\* the days past due grow by one a day (gold_engine_input.py subtracts them).
THEOREM DefaultDatesStand == FeedSpec => DefaultDateNeverMoves
<1>1. ASSUME FeedState, NextSnapshot, row # Absent, row' # Absent,
             row.status = "defaulted", row'.status = "defaulted"
      PROVE  today - DefaultDate(row) = today' - DefaultDate(row')
  <2>1. /\ loan \in Master(RawLoans) /\ today \in 1..LastDay /\ today < LastDay
        /\ today + 1 \in 1..LastDay /\ today' = today + 1 /\ today \in Nat
        /\ row = ReportedRow(loan, today) /\ row' = ReportedRow(loan, today + 1)
    BY <1>1, TurnOf
  <2> DEFINE dpd == DaysPastDue(loan, today)
             next == DaysPastDue(loan, today + 1)
  <2>2. row.days_past_due = dpd /\ Status(loan, today) = "defaulted"
        /\ row'.days_past_due = next /\ Status(loan, today + 1) = "defaulted"
    BY <1>1, <2>1, RowFields
  <2>3. dpd \in Nat /\ dpd >= 90
    <3>1. loan \in Master(RawLoans) /\ today \in 1..LastDay
      BY <2>1
    <3>2. Status(loan, today) = "defaulted" <=> DaysPastDue(loan, today) \in 90..179
      BY <3>1, StatusIs
    <3>3. dpd \in 90..179
      BY <2>2, <3>2
    <3> HIDE DEF dpd
    <3> QED  BY <3>3
  <2>4. Late(loan, today)
    BY <2>1, <2>3, DaysPastDueIs
  <2>5. next = dpd + 1
    BY <2>1, <2>4, LateTomorrow
  <2>6. dpd # Null /\ next # Null
    BY <2>3, <2>5, NullAssumption
  <2> HIDE DEF dpd, next
  <2>7. DefaultDate(row) = dpd - 90 /\ DefaultDate(row') = next - 90
    BY <1>1, <2>2, <2>6 DEF DefaultDate, DefaultAtDpd
  <2> QED  BY <2>1, <2>3, <2>5, <2>7
<1>2. ASSUME FeedState, [NextSnapshot]_feedVars
      PROVE  [(/\ row # Absent /\ row' # Absent
               /\ row.status = "defaulted" /\ row'.status = "defaulted")
                  => today - DefaultDate(row) = today' - DefaultDate(row')]_feedVars
  BY <1>1, <1>2
<1> QED  BY <1>2, SnapshotsFollowTheLoan, PTL DEF FeedSpec, DefaultDateNeverMoves

-----------------------------------------------------------------------------
(***************************************************************************)
(* The stages, by the outcome of the loan.                                 *)
(***************************************************************************)
LEMMA OpenStages ==
    ASSUME NEW l \in Master(RawLoans), NEW d \in 1..LastDay, l.outcome = "open"
    PROVE  Status(l, d) = "performing"
<1>1. ~Late(l, d) /\ ~Closed(l, d)
  BY DEF Late, Closed
<1>2. DaysPastDue(l, d) = 0
  BY <1>1, DaysPastDueIs
<1> QED  BY <1>1, <1>2, StatusIs

LEMMA SettledStages ==
    ASSUME NEW l \in Master(RawLoans), NEW d \in 1..LastDay, l.outcome = "settled"
    PROVE  Status(l, d) = IF Stopped(l, d) THEN "closed" ELSE "performing"
<1>1. ~Late(l, d) /\ (Closed(l, d) <=> Stopped(l, d))
  BY DEF Late, Closed
<1>2. DaysPastDue(l, d) = 0
  BY <1>1, DaysPastDueIs
<1> QED  BY <1>1, <1>2, StatusIs

LEMMA DefaultedStages ==
    ASSUME NEW l \in Master(RawLoans), NEW d \in 1..LastDay, d < LastDay,
           l.outcome = "defaulted"
    PROVE  Status(l, d + 1) \in Stages[Status(l, d)]
<1>1. d + 1 \in 1..LastDay /\ ~Closed(l, d) /\ ~Closed(l, d + 1)
  BY MonthsGoOn DEF Closed
<1> DEFINE dpd  == DaysPastDue(l, d)
           next == DaysPastDue(l, d + 1)
<1>2. dpd \in Nat /\ next \in Nat
  BY <1>1, DaysPastDueIs
<1>3. next = dpd + 1 \/ (dpd = 0 /\ (next = 0 \/ next \in 28..31))
  BY <1>1, LateTomorrow, DaysPastDueIs
<1>4. /\ Status(l, d) \in {"written_off", "defaulted", "past_due", "performing"}
      /\ Status(l, d) = "written_off" <=> dpd >= 180
      /\ Status(l, d) = "defaulted"   <=> dpd \in 90..179
      /\ Status(l, d) = "past_due"    <=> dpd \in 1..89
  BY <1>1, StatusIs
<1>5. /\ Status(l, d + 1) \in {"written_off", "defaulted", "past_due", "performing"}
      /\ Status(l, d + 1) = "written_off" <=> next >= 180
      /\ Status(l, d + 1) = "defaulted"   <=> next \in 90..179
      /\ Status(l, d + 1) = "past_due"    <=> next \in 1..89
  BY <1>1, StatusIs
<1> HIDE DEF dpd, next
<1>6. CASE Status(l, d) = "written_off"
  <2>1. Status(l, d + 1) = "written_off"
    BY <1>2, <1>3, <1>4, <1>5, <1>6
  <2> QED  BY <2>1, <1>6 DEF Stages
<1>7. CASE Status(l, d) = "defaulted"
  <2>1. Status(l, d + 1) \in {"defaulted", "written_off"}
    BY <1>2, <1>3, <1>4, <1>5, <1>7
  <2> QED  BY <2>1, <1>7 DEF Stages
<1>8. CASE Status(l, d) = "past_due"
  <2>1. Status(l, d + 1) \in {"past_due", "defaulted"}
    BY <1>2, <1>3, <1>4, <1>5, <1>8
  <2> QED  BY <2>1, <1>8 DEF Stages
<1>9. CASE Status(l, d) = "performing"
  <2>1. dpd = 0
    BY <1>2, <1>4, <1>9
  <2>2. Status(l, d + 1) \in {"performing", "past_due"}
    BY <2>1, <1>2, <1>3, <1>5
  <2> QED  BY <2>2, <1>9 DEF Stages
<1> QED  BY <1>4, <1>6, <1>7, <1>8, <1>9

\* A day's stage follows the day before's.
LEMMA StagesFollow ==
    ASSUME NEW l \in Master(RawLoans), NEW d \in 1..LastDay, d < LastDay
    PROVE  Status(l, d + 1) \in Stages[Status(l, d)]
<1>1. d + 1 \in 1..LastDay
  BY MonthsGoOn
<1>2. CASE l.outcome = "open"
  BY <1>1, <1>2, OpenStages DEF Stages
<1>3. CASE l.outcome = "settled"
  <2>1. Stopped(l, d) => Stopped(l, d + 1)
    BY StoppedStays
  <2>2. /\ Status(l, d) = IF Stopped(l, d) THEN "closed" ELSE "performing"
        /\ Status(l, d + 1) = IF Stopped(l, d + 1) THEN "closed" ELSE "performing"
    BY <1>1, <1>3, SettledStages
  <2> QED  BY <2>1, <2>2 DEF Stages
<1>4. CASE l.outcome = "defaulted"
  BY <1>4, DefaultedStages
<1> QED  BY <1>2, <1>3, <1>4, LoanFacts

\* A loan drops out from a write-off or from its closing, unless it was settled
\* in a month of 31 days.
LEMMA DropsOutFrom ==
    ASSUME NEW l \in Master(RawLoans), NEW d \in 1..LastDay, d < LastDay,
           OnFeed(l, d), ~OnFeed(l, d + 1)
    PROVE  Status(l, d) \in LastStages \/ MissesClosing(l)
<1>1. d + 1 \in 1..LastDay /\ l.issue_d <= MonthOf(d) /\ d \in 1..d + 1 /\ d \in Nat
  BY MonthsGoOn, DayFacts DEF OnFeed
<1>2. l.issue_d <= MonthOf(d + 1)
  <2>1. MonthOf(d) <= MonthOf(d + 1)
    BY <1>1, MonthsDoNotFall
  <2> QED  BY <2>1, <1>1, DayFacts, LoanFacts
<1>3. CASE l.outcome = "defaulted"
  <2>1. DaysPastDue(l, d + 1) > 210 /\ DaysPastDue(l, d + 1) \in Nat
    BY <1>1, <1>2, <1>3, FeedKeeps, DaysPastDueIs
  <2>2. Late(l, d)
    BY <2>1, <1>1, LateTomorrow, DaysPastDueIs
  <2>3. DaysPastDue(l, d) >= 180
    BY <2>1, <2>2, LateTomorrow, DaysPastDueIs
  <2> QED  BY <2>3, StatusIs DEF LastStages
<1>4. CASE l.outcome = "open"
  BY <1>1, <1>2, <1>4, FeedKeeps
<1>5. CASE l.outcome = "settled" /\ Stopped(l, d)
  BY <1>5, SettledStages DEF LastStages
<1>6. CASE l.outcome = "settled" /\ ~Stopped(l, d)
  <2> DEFINE last == l.last_pymnt_d
  <2>1. Stopped(l, d + 1) /\ ~(DaysSincePayment(l, d + 1) <= 30)
    BY <1>1, <1>2, <1>6, FeedKeeps
  <2>2. last # Null /\ last \in 1..Months /\ last \in 1..Months + 1 /\ last + 1 \in 1..Months + 1
    BY <2>1, LoanFacts, MonthFacts DEF DaysSincePayment
  <2>3. /\ FirstDay[last + 1] = FirstDay[last] + MonthLength[last] /\ MonthLength[last] \in 28..31
        /\ FirstDay[last] \in Nat /\ FirstDay[last + 1] \in Nat
    BY <2>2, FirstDayType, MonthFacts
  <2>4. d < FirstDay[last + 1]
    <3>1. ~(d >= FirstDay[last + 1])
      BY <1>6, <2>2, StoppedSince
    <3> QED  BY <3>1, <1>1, <2>3
  <2>5. d + 1 - FirstDay[last] > 30
    BY <1>1, <2>1, <2>2, <2>3 DEF DaysSincePayment
  <2>6. MonthLength[last] = 31
    BY <1>1, <2>3, <2>4, <2>5
  <2> QED  BY <1>6, <2>2, <2>6 DEF MissesClosing
<1> QED  BY <1>3, <1>4, <1>5, <1>6, LoanFacts

\* Once a row has been seen the loan is old enough for the feed.
LEMMA SeenIsIssued ==
    ASSUME FeedState, seen # {}
    PROVE  loan.issue_d <= MonthOf(today)
<1>1. loan \in Master(RawLoans) /\ today \in 1..LastDay
  BY DEF FeedState
<1>2. PICK s : s \in SeenUntil(loan, today)
  BY DEF FeedState
<1>3. PICK e \in 1..today : OnFeed(loan, e)
  BY <1>1, <1>2, SeenOnce
<1>4. loan.issue_d <= MonthOf(e) /\ MonthOf(e) <= MonthOf(today)
  BY <1>1, <1>3, MonthsDoNotFall DEF OnFeed
<1>5. e \in 1..LastDay
  BY <1>1, DayFacts
<1>6. MonthOf(e) \in Int /\ MonthOf(today) \in Int /\ loan.issue_d \in Int
  BY <1>1, <1>5, DayFacts, LoanFacts
<1> QED  BY <1>4, <1>6

\* No stage of a loan's life is returned to and none is left out but the closing
\* of a loan settled in a month of 31 days, and a loan that drops out of the feed
\* stays out (the docstring of simulate_ods_snapshots.py, as build_snapshot keeps it).
THEOREM StagesAreOrdered == FeedSpec => LifecycleInOrder
<1> DEFINE Ordered ==
      /\ row # Absent => IF row' = Absent
                         THEN row.status \in LastStages \/ MissesClosing(loan)
                         ELSE row'.status \in Stages[row.status]
      /\ row = Absent /\ seen # {} => row' = Absent
<1>1. ASSUME FeedState, NextSnapshot PROVE Ordered
  <2>1. /\ loan \in Master(RawLoans) /\ today \in 1..LastDay /\ today < LastDay
        /\ row = Absent <=> ~OnFeed(loan, today)
        /\ row' = Absent <=> ~OnFeed(loan, today + 1)
        /\ row # Absent => row = ReportedRow(loan, today)
        /\ row' # Absent => row' = ReportedRow(loan, today + 1)
    BY <1>1, TurnOf
  <2>2. ASSUME row # Absent, row' = Absent
        PROVE  row.status \in LastStages \/ MissesClosing(loan)
    <3>1. row.status = Status(loan, today)
      BY <2>1, <2>2, RowFields
    <3> QED  BY <2>1, <2>2, <3>1, DropsOutFrom
  <2>3. ASSUME row # Absent, row' # Absent PROVE row'.status \in Stages[row.status]
    <3>1. row.status = Status(loan, today) /\ row'.status = Status(loan, today + 1)
      BY <2>1, <2>3, RowFields
    <3> QED  BY <2>1, <3>1, StagesFollow
  <2>4. ASSUME row = Absent, seen # {} PROVE row' = Absent
    BY <1>1, <2>1, <2>4, SeenIsIssued, DroppedStays
  <2> QED  BY <2>2, <2>3, <2>4
<1>2. ASSUME FeedState, [NextSnapshot]_feedVars PROVE [Ordered]_feedVars
  BY <1>1, <1>2
<1> QED  BY <1>2, SnapshotsFollowTheLoan, PTL DEF FeedSpec, LifecycleInOrder

-----------------------------------------------------------------------------
\* A defaulted loan is on the feed, written off, for thirty-one days on end.
LEMMA WrittenOffDays ==
    ASSUME NEW l \in Master(RawLoans), NEW d \in 1..LastDay, DaysPastDue(l, d) > 210
    PROVE  \E e \in 1..d : /\ OnFeed(l, e) /\ MonthEnd(e)
                           /\ Status(l, e) = "written_off"
<1>1. Late(l, d)
  BY DaysPastDueIs
<1> DEFINE last == l.last_pymnt_d
           first == FirstDay[last]
           from == first + 180
<1>2. /\ l.outcome = "defaulted" /\ last \in 1..Months /\ last # Null
      /\ first \in Nat /\ DaysPastDue(l, d) = d - first
      /\ d \in Nat /\ d <= LastDay /\ LastDay \in Nat
  BY <1>1, DaysPastDueIs, LoanFacts, DayFacts DEF Late
<1>3. from \in 1..LastDay /\ from + 30 <= LastDay
  BY <1>2
<1> HIDE DEF from
<1>4. PICK e \in from..from + 30 : e \in 1..LastDay /\ MonthEnd(e)
  BY <1>3, MonthEndComes
<1>5. e \in 1..d /\ e - first \in 180..210
  BY <1>2, <1>3, <1>4 DEF from
<1>6. Late(l, e)
  <2>1. last \in 1..Months + 1 /\ last + 1 \in 1..Months + 1
    BY <1>2, MonthFacts
  <2>2. FirstDay[last + 1] = first + MonthLength[last] /\ MonthLength[last] \in 28..31
    BY <1>2, FirstDayType, MonthFacts
  <2>3. e >= FirstDay[last + 1]
    BY <1>2, <1>5, <2>2
  <2> QED  BY <1>2, <2>3 DEF Late
<1>7. DaysPastDue(l, e) \in 180..210
  BY <1>4, <1>5, <1>6, DaysPastDueIs
<1>8. l.issue_d <= MonthOf(e)
  <2>1. Stopped(l, e)
    BY <1>2, <1>4, <1>6, StoppedSince DEF Late
  <2>2. MonthOf(e) - l.issue_d > MonthsPaid(l) /\ MonthsPaid(l) \in Nat
    BY <2>1, <1>4, StoppedSince DEF Stopped
  <2> QED  BY <2>2, <1>4, LoanFacts, DayFacts
<1>9. OnFeed(l, e)
  BY <1>2, <1>4, <1>7, <1>8, FeedKeeps
<1>10. Status(l, e) = "written_off"
  BY <1>4, <1>7, StatusIs
<1> QED  BY <1>4, <1>5, <1>9, <1>10

\* A loan seen in default at a month end is seen written off at a later one
\* before it drops out: retention covers a reporting date (RETENTION_DAYS).
THEOREM WriteOffsAreReported == FeedSpec => []WriteOffIsReported
<1>1. ASSUME FeedState PROVE WriteOffIsReported
  <2> SUFFICES ASSUME row = Absent, <<"defaulted", TRUE>> \in seen
               PROVE  <<"written_off", TRUE>> \in seen
    BY DEF WriteOffIsReported
  <2>1. /\ loan \in Master(RawLoans) /\ today \in 1..LastDay
        /\ seen = SeenUntil(loan, today) /\ ~OnFeed(loan, today)
    BY <1>1, RowIs DEF FeedState
  <2>2. PICK e \in 1..today : OnFeed(loan, e) /\ <<"defaulted", TRUE>> = <<Status(loan, e), MonthEnd(e)>>
    BY <2>1, SeenOnce
  <2>3. e \in 1..LastDay /\ Status(loan, e) = "defaulted"
    BY <2>1, <2>2, DayFacts
  <2>4. Late(loan, e)
    <3>1. DaysPastDue(loan, e) \in 90..179
      BY <2>1, <2>3, StatusIs
    <3> QED  BY <2>1, <2>3, <3>1, DaysPastDueIs
  <2>5. loan.issue_d <= MonthOf(today)
    BY <1>1, SeenIsIssued
  <2>6. DaysPastDue(loan, today) > 210
    BY <2>1, <2>4, <2>5, FeedKeeps, DaysPastDueIs DEF Late
  <2>7. PICK w \in 1..today : OnFeed(loan, w) /\ MonthEnd(w) /\ Status(loan, w) = "written_off"
    BY <2>1, <2>6, WrittenOffDays
  <2>8. w \in 1..LastDay
    BY <2>1, DayFacts
  <2>9. <<"written_off", TRUE>> \in Noted(SnapshotRow(loan, w), w)
    <3>1. MonthEnd(w) = TRUE
      BY <2>7 DEF MonthEnd
    <3> QED  BY <2>1, <2>7, <2>8, <3>1, NotedRow
  <2>10. SeenUntil(loan, today) = UNION {Noted(SnapshotRow(loan, x), x) : x \in 1..today}
    BY DEF SeenUntil
  <2> QED  BY <2>1, <2>9, <2>10, Zenon
<1> QED  BY <1>1, SnapshotsFollowTheLoan, PTL

-----------------------------------------------------------------------------
(***************************************************************************)
(* Powers.                                                                 *)
(***************************************************************************)
IsPower(power, base, n) ==
    power = [i \in 0..n |-> IF i = 0 THEN 1 ELSE base * power[i - 1]]

LEMMA PowerGrows ==
    ASSUME NEW base, NEW n \in Nat, NEW g, IsPower(g, base, n)
    PROVE  \E h : IsPower(h, base, n + 1)
<1> DEFINE last == n + 1
           h    == [i \in 0..last |-> IF i = last THEN base * g[n] ELSE g[i]]
<1>1. last # 0 /\ last - 1 = n /\ last \in 0..last /\ n \in 0..n /\ n # last
  OBVIOUS
<1>2. \A i \in 0..n : i \in 0..last /\ i # last /\ (i # 0 => i - 1 \in 0..n)
  OBVIOUS
<1>3. \A i \in 0..last : i # last => i \in 0..n
  OBVIOUS
<1>4. \A i \in 0..n : h[i] = g[i]
  BY <1>2
<1>5. h[last] = base * g[n]
  BY <1>1
<1>6. DOMAIN h = 0..last /\ h = [i \in DOMAIN h |-> h[i]]
  OBVIOUS
<1> HIDE DEF h
<1>7. \A i \in 0..last : h[i] = IF i = 0 THEN 1 ELSE base * h[i - 1]
  <2> SUFFICES ASSUME NEW i \in 0..last
               PROVE  h[i] = IF i = 0 THEN 1 ELSE base * h[i - 1]
    OBVIOUS
  <2>1. CASE i = last
    <3>1. h[n] = g[n]
      BY <1>1, <1>4
    <3> QED  BY <2>1, <3>1, <1>1, <1>5
  <2>2. CASE i \in 0..n
    <3>1. g[i] = IF i = 0 THEN 1 ELSE base * g[i - 1]
      BY <2>2 DEF IsPower
    <3>2. h[i] = g[i] /\ (i # 0 => h[i - 1] = g[i - 1])
      BY <2>2, <1>2, <1>4
    <3> QED  BY <3>1, <3>2
  <2> QED  BY <2>1, <2>2, <1>3
<1> HIDE DEF last
<1>8. IsPower(h, base, last)
  BY <1>6, <1>7 DEF IsPower
<1> QED  BY <1>8 DEF last

LEMMA PowerExists ==
    ASSUME NEW base, NEW n \in Nat
    PROVE  \E power : IsPower(power, base, n)
<1> DEFINE S == {k \in Nat : \E power : IsPower(power, base, k)}
<1>1. 0 \in S
  <2> DEFINE one == [i \in 0..0 |-> 1]
  <2>1. one = [i \in 0..0 |-> IF i = 0 THEN 1 ELSE base * one[i - 1]]
    OBVIOUS
  <2> HIDE DEF one
  <2>2. IsPower(one, base, 0)
    BY <2>1 DEF IsPower
  <2> QED  BY <2>2
<1>2. ASSUME NEW k \in Nat, k \in S PROVE k + 1 \in S
  BY <1>2, PowerGrows
<1> HIDE DEF S
<1>3. Nat \subseteq S
  BY <1>1, <1>2, EveryNumber
<1> QED  BY <1>3 DEF S

LEMMA PowersAgree ==
    ASSUME NEW base, NEW n \in Nat, NEW f, IsPower(f, base, n),
           NEW m \in Nat, NEW g, IsPower(g, base, m), n <= m
    PROVE  f[n] = g[n]
<1> DEFINE S == {i \in Nat : i <= n => f[i] = g[i]}
<1>1. \A i \in 0..n : f[i] = IF i = 0 THEN 1 ELSE base * f[i - 1]
  BY DEF IsPower
<1>2. \A i \in 0..m : g[i] = IF i = 0 THEN 1 ELSE base * g[i - 1]
  BY DEF IsPower
<1>3. 0 \in S
  BY <1>1, <1>2
<1>4. ASSUME NEW i \in Nat, i \in S PROVE i + 1 \in S
  <2> SUFFICES ASSUME i + 1 <= n PROVE f[i + 1] = g[i + 1]
    OBVIOUS
  <2>1. i + 1 \in 0..n /\ i + 1 \in 0..m /\ i + 1 # 0 /\ i + 1 - 1 = i /\ f[i] = g[i]
    BY <1>4
  <2>2. f[i + 1] = base * f[i] /\ g[i + 1] = base * g[i]
    BY <1>1, <1>2, <2>1
  <2> QED  BY <2>1, <2>2
<1> HIDE DEF S
<1>5. Nat \subseteq S
  BY <1>3, <1>4, EveryNumber
<1>6. n \in S
  BY <1>5
<1> QED  BY <1>6 DEF S

\* Powers are what their definition says.
LEMMA PowerUnfolds ==
    ASSUME NEW base, NEW n \in Nat
    PROVE  Power(base, 0) = 1 /\ Power(base, n + 1) = base * Power(base, n)
<1> DEFINE P(k) == CHOOSE power : IsPower(power, base, k)
<1>1. ASSUME NEW k \in Nat PROVE IsPower(P(k), base, k)
  BY PowerExists
<1>2. ASSUME NEW k \in Nat PROVE Power(base, k) = P(k)[k]
  BY DEF Power, IsPower
<1> HIDE DEF P
<1>3. Power(base, 0) = 1
  <2>1. IsPower(P(0), base, 0)
    BY <1>1
  <2>2. P(0)[0] = 1
    BY <2>1 DEF IsPower
  <2> QED  BY <2>2, <1>2
<1>4. Power(base, n + 1) = base * Power(base, n)
  <2>1. n + 1 \in Nat /\ n <= n + 1 /\ n + 1 # 0 /\ n + 1 - 1 = n /\ n + 1 \in 0..n + 1
    OBVIOUS
  <2>2. IsPower(P(n), base, n) /\ IsPower(P(n + 1), base, n + 1)
    BY <1>1, <2>1
  <2>3. P(n)[n] = P(n + 1)[n]
    BY <2>1, <2>2, PowersAgree
  <2>4. P(n + 1)[n + 1] = base * P(n + 1)[n]
    BY <2>1, <2>2 DEF IsPower
  <2>5. Power(base, n + 1) = P(n + 1)[n + 1] /\ Power(base, n) = P(n)[n]
    BY <1>2, <2>1
  <2> QED  BY <2>3, <2>4, <2>5
<1> QED  BY <1>3, <1>4

LEMMA PowerType ==
    ASSUME NEW base \in Nat \ {0}, NEW n \in Nat
    PROVE  Power(base, n) \in Nat \ {0}
<1> DEFINE S == {k \in Nat : Power(base, k) \in Nat \ {0}}
<1>1. 0 \in S
  BY PowerUnfolds
<1>2. ASSUME NEW k \in Nat, k \in S PROVE k + 1 \in S
  <2>1. Power(base, k + 1) = base * Power(base, k) /\ Power(base, k) \in Nat \ {0}
    BY <1>2, PowerUnfolds
  <2>2. \A x \in Nat \ {0} : base * x \in Nat \ {0}
    OBVIOUS
  <2> QED  BY <2>1, <2>2
<1> HIDE DEF S
<1>3. Nat \subseteq S
  BY <1>1, <1>2, EveryNumber
<1> QED  BY <1>3 DEF S

LEMMA PowerAdds ==
    ASSUME NEW base \in Nat \ {0}, NEW j \in Nat, NEW k \in Nat
    PROVE  Power(base, j + k) = Power(base, j) * Power(base, k)
<1> DEFINE S == {i \in Nat : Power(base, j + i) = Power(base, j) * Power(base, i)}
           pj == Power(base, j)
<1>0. pj \in Nat
  BY PowerType
<1>1. 0 \in S
  <2>1. j + 0 = j /\ Power(base, 0) = 1
    BY PowerUnfolds
  <2> QED  BY <2>1, <1>0
<1>2. ASSUME NEW i \in Nat, i \in S PROVE i + 1 \in S
  <2> DEFINE p == Power(base, i)
  <2>1. Power(base, j + i) = pj * p /\ p \in Nat
    BY <1>2, PowerType
  <2>2. j + (i + 1) = (j + i) + 1 /\ j + i \in Nat
    OBVIOUS
  <2>3. Power(base, j + (i + 1)) = base * Power(base, j + i) /\ Power(base, i + 1) = base * p
    BY <2>2, PowerUnfolds
  <2>4. \A a, b, c \in Nat : a * (b * c) = b * (a * c)
    OBVIOUS
  <2> HIDE DEF p, pj
  <2>5. base * (pj * p) = pj * (base * p)
    BY <2>1, <2>4, <1>0
  <2> QED  BY <2>1, <2>3, <2>5 DEF p, pj
<1> HIDE DEF S
<1>3. Nat \subseteq S
  BY <1>1, <1>2, EveryNumber
<1> QED  BY <1>3 DEF S

\* A product grows with its factors.
LEMMA Products ==
    ASSUME NEW a \in Nat, NEW b \in Nat, NEW c \in Nat
    PROVE  /\ a * c \in Nat /\ a * c = c * a
           /\ a <= b => a * c <= b * c
           /\ a < b /\ c # 0 => a * c < b * c
           /\ (b - a) * c = b * c - a * c
  OBVIOUS

LEMMA PowerOfMore ==
    ASSUME NEW q \in Nat \ {0}, NEW s \in Nat, q < s, NEW n \in Nat
    PROVE  /\ Power(q, n) <= Power(s, n)
           /\ n # 0 => Power(q, n) < Power(s, n)
<1> DEFINE S == {k \in Nat : /\ Power(q, k) <= Power(s, k)
                             /\ k # 0 => Power(q, k) < Power(s, k)}
<1>0. s \in Nat \ {0}
  OBVIOUS
<1>1. 0 \in S
  BY PowerUnfolds
<1>2. ASSUME NEW k \in Nat, k \in S PROVE k + 1 \in S
  <2> DEFINE x == Power(q, k)
             y == Power(s, k)
  <2>1. x \in Nat /\ y \in Nat /\ y # 0 /\ x <= y
    BY <1>0, <1>2, PowerType
  <2>2. Power(q, k + 1) = q * x /\ Power(s, k + 1) = s * y
    BY PowerUnfolds
  <2> HIDE DEF x, y
  <2>3. x * q <= y * q /\ y * q = q * y /\ q * x = x * q /\ q * y < s * y
        /\ q * x \in Nat /\ q * y \in Nat /\ s * y \in Nat
    BY <2>1, <1>0, Products
  <2>4. q * x < s * y
    BY <2>3
  <2> QED  BY <2>2, <2>4, <2>3
<1> HIDE DEF S
<1>3. Nat \subseteq S
  BY <1>1, <1>2, EveryNumber
<1> QED  BY <1>3 DEF S

-----------------------------------------------------------------------------
(***************************************************************************)
(* The annuity.                                                            *)
(***************************************************************************)
\* What is left is a share: nothing is owed beyond the principal.
LEMMA AnnuityIsShare ==
    ASSUME NEW q \in Nat \ {0}, NEW s \in Nat, q < s, NEW n \in Nat \ {0}, NEW k \in 0..n
    PROVE  /\ Annuity(q, s, n, k).num \in Nat /\ Annuity(q, s, n, k).den \in Nat \ {0}
           /\ Annuity(q, s, n, k).num <= Annuity(q, s, n, k).den
<1> DEFINE An == Power(s, n)
           qn == Power(q, n)
           Ak == Power(s, k)
           ql == Power(q, n - k)
           Al == Power(s, n - k)
           qk == Power(q, k)
<1>0. k \in Nat /\ n - k \in Nat /\ s \in Nat \ {0} /\ k + (n - k) = n
  OBVIOUS
<1>1. An \in Nat /\ qn \in Nat /\ Ak \in Nat /\ ql \in Nat
  BY <1>0, PowerType
<1>2. Al \in Nat /\ qk \in Nat
  BY <1>0, PowerType
<1>3. An = Ak * Al /\ qn = qk * ql
  <2>1. Power(s, k + (n - k)) = Ak * Al /\ Power(q, k + (n - k)) = qk * ql
    BY <1>0, PowerAdds
  <2> QED  BY <2>1, <1>0
<1>4. qn < An /\ qk <= Ak /\ ql <= Al
  BY <1>0, PowerOfMore
<1>9. Annuity(q, s, n, k).num = An - Ak * ql /\ Annuity(q, s, n, k).den = An - qn
  BY DEF Annuity
<1> HIDE DEF An, qn, Ak, ql, Al, qk
<1>5. qk * ql <= Ak * ql /\ Ak * ql \in Nat
  BY <1>1, <1>2, <1>4, Products
<1>6. ql * Ak <= Al * Ak /\ ql * Ak = Ak * ql /\ Al * Ak = Ak * Al
  BY <1>1, <1>2, <1>4, Products
<1>7. qn <= Ak * ql /\ Ak * ql <= An
  BY <1>3, <1>5, <1>6
<1>8. An - Ak * ql \in Nat /\ An - qn \in Nat \ {0} /\ An - Ak * ql <= An - qn
  BY <1>1, <1>4, <1>5, <1>7
<1> QED  BY <1>8, <1>9

\* A payment leaves less.
LEMMA AnnuityFalls ==
    ASSUME NEW q \in Nat \ {0}, NEW s \in Nat, q < s, NEW n \in Nat, NEW k \in 0..n, k < n
    PROVE  Annuity(q, s, n, k + 1).num < Annuity(q, s, n, k).num
<1> DEFINE An == Power(s, n)
           Ak == Power(s, k)
           ql == Power(q, n - (k + 1))
           x  == Ak * ql
<1>0. k + 1 \in 0..n /\ k \in Nat /\ n - (k + 1) \in Nat /\ n - k = n - (k + 1) + 1
  OBVIOUS
<1>1. /\ Annuity(q, s, n, k).num = An - Ak * Power(q, n - k)
      /\ Annuity(q, s, n, k + 1).num = An - Power(s, k + 1) * ql
      /\ An \in Nat /\ Ak \in Nat \ {0} /\ ql \in Nat \ {0} /\ s \in Nat
  <2>1. An \in Nat /\ Ak \in Nat \ {0} /\ ql \in Nat \ {0} /\ s \in Nat \ {0}
    BY <1>0, PowerType
  <2>2. /\ Annuity(q, s, n, k).num = An - Ak * Power(q, n - k)
        /\ Annuity(q, s, n, k + 1).num = An - Power(s, k + 1) * ql
    BY DEF Annuity
  <2> QED  BY <2>1, <2>2
<1>2. Power(q, n - k) = q * ql /\ Power(s, k + 1) = s * Ak
  BY <1>0, PowerUnfolds
<1> HIDE DEF An, Ak, ql
<1>3. x \in Nat \ {0}
  <2>1. \A a, b \in Nat \ {0} : a * b \in Nat \ {0}
    OBVIOUS
  <2> QED  BY <1>1, <2>1
<1>4. Ak * (q * ql) = q * x /\ s * Ak * ql = s * x
  <2>1. \A a, b, c \in Nat : a * (b * c) = b * (a * c) /\ b * a * c = b * (a * c)
    OBVIOUS
  <2> QED  BY <1>1, <2>1
<1> HIDE DEF x
<1>5. q * x < s * x /\ q * x \in Nat /\ s * x \in Nat
  BY <1>1, <1>3, Products
<1>6. An - s * x < An - q * x
  BY <1>1, <1>5
<1> QED  BY <1>1, <1>2, <1>4, <1>6

LEMMA AnnuityFallsOn ==
    ASSUME NEW q \in Nat \ {0}, NEW s \in Nat, q < s, NEW n \in Nat \ {0}, NEW j \in 0..n, NEW k \in j..n
    PROVE  Annuity(q, s, n, k).num <= Annuity(q, s, n, j).num
<1> DEFINE left(i) == Annuity(q, s, n, i).num
           S == {i \in Nat : j + i <= n => left(j + i) <= left(j)}
<1>0. \A i \in 0..n : left(i) \in Nat
  BY AnnuityIsShare
<1>1. 0 \in S
  <2>1. j + 0 = j /\ left(j) \in Nat
    BY <1>0
  <2> HIDE DEF left
  <2> QED  BY <2>1
<1>2. ASSUME NEW i \in Nat, i \in S PROVE i + 1 \in S
  <2> SUFFICES ASSUME j + (i + 1) <= n PROVE left(j + (i + 1)) <= left(j)
    OBVIOUS
  <2>1. j + i \in 0..n /\ j + i < n /\ j + (i + 1) = j + i + 1 /\ j + i + 1 \in 0..n
    OBVIOUS
  <2>2. left(j + i + 1) < left(j + i)
    BY <2>1, AnnuityFalls
  <2>3. left(j + i) <= left(j)
    BY <2>1, <1>2
  <2>4. left(j) \in Nat /\ left(j + i) \in Nat /\ left(j + i + 1) \in Nat
    BY <2>1, <1>0
  <2> HIDE DEF left
  <2> QED  BY <2>1, <2>2, <2>3, <2>4
<1> HIDE DEF S
<1>3. Nat \subseteq S
  BY <1>1, <1>2, EveryNumber
<1>4. k - j \in S /\ j + (k - j) = k /\ k <= n
  BY <1>3
<1>5. j + (k - j) <= n => left(j + (k - j)) <= left(j)
  BY <1>4 DEF S
<1> QED  BY <1>4, <1>5

-----------------------------------------------------------------------------
(***************************************************************************)
(* The balance.                                                            *)
(***************************************************************************)
Computable(l) == Null \notin {l.loan_amnt, l.int_rate, l.term_months}

\* The number of instalments counted after m months on book.
Instalments(l, m) == Least(FloorZero(m), l.term_months)

LEMMA LoanFigures ==
    ASSUME NEW l \in Master(RawLoans)
    PROVE  /\ l.term_months # Null => l.term_months \in Nat \ {0}
           /\ l.loan_amnt # Null => l.loan_amnt \in 1..MaxMoney
           /\ l.recoveries # Null => l.recoveries \in Nat
           /\ l.int_rate # Null => l.int_rate \in Nat
           /\ MaxMoney \in Nat
  BY ExtractAssumption

\* Interest adds to what is owed.
LEMMA InterestAdds ==
    ASSUME NEW rate \in Nat \ {0}
    PROVE  Monthly \in Nat \ {0} /\ Monthly + rate \in Nat /\ Monthly < Monthly + rate
  BY ExtractAssumption DEF Monthly

LEMMA InstalmentsIn ==
    ASSUME NEW l \in Master(RawLoans), l.term_months # Null, NEW m \in Int, NEW j \in Int, m <= j
    PROVE  /\ l.term_months \in Nat \ {0}
           /\ Instalments(l, m) \in 0..l.term_months /\ Instalments(l, j) \in 0..l.term_months
           /\ Instalments(l, j) \in Instalments(l, m)..l.term_months
<1>1. l.term_months \in Nat \ {0}
  BY LoanFigures
<1> QED  BY <1>1 DEF Instalments, Least, FloorZero

LEMMA ShareIs ==
    ASSUME NEW l \in Master(RawLoans), l.term_months # Null, l.int_rate # Null, NEW m \in Int
    PROVE  /\ l.int_rate = 0 => /\ PrincipalShare(l, m).num = l.term_months - Instalments(l, m)
                                /\ PrincipalShare(l, m).den = l.term_months
           /\ l.int_rate # 0 =>
                /\ Monthly \in Nat \ {0} /\ Monthly + l.int_rate \in Nat
                /\ Monthly < Monthly + l.int_rate
                /\ PrincipalShare(l, m) =
                     Annuity(Monthly, Monthly + l.int_rate, l.term_months, Instalments(l, m))
<1>1. CASE l.int_rate = 0
  BY <1>1 DEF PrincipalShare, Instalments
<1>2. CASE l.int_rate # 0
  <2>1. l.int_rate \in Nat \ {0}
    BY <1>2, LoanFigures
  <2>2. /\ Monthly \in Nat \ {0} /\ Monthly + l.int_rate \in Nat
        /\ Monthly < Monthly + l.int_rate
    BY <2>1, InterestAdds
  <2>3. PrincipalShare(l, m) =
          Annuity(Monthly, Monthly + l.int_rate, l.term_months, Instalments(l, m))
    BY <1>2 DEF PrincipalShare, Instalments
  <2> QED  BY <2>2, <2>3, <1>2
<1> QED  BY <1>1, <1>2

\* The share of the principal is a share, and it falls as months are paid.
LEMMA ShareFalls ==
    ASSUME NEW l \in Master(RawLoans), l.term_months # Null, l.int_rate # Null,
           NEW m \in Int, NEW j \in Int, m <= j
    PROVE  /\ PrincipalShare(l, m).num \in Nat /\ PrincipalShare(l, m).den \in Nat \ {0}
           /\ PrincipalShare(l, m).num <= PrincipalShare(l, m).den
           /\ PrincipalShare(l, j).den = PrincipalShare(l, m).den
           /\ PrincipalShare(l, j).num \in Nat
           /\ PrincipalShare(l, j).num <= PrincipalShare(l, m).num
<1> DEFINE n == l.term_months
           q == Monthly
           s == Monthly + l.int_rate
           k == Instalments(l, m)
           i == Instalments(l, j)
<1>1. n \in Nat \ {0} /\ k \in 0..n /\ i \in 0..n /\ i \in k..n
  BY InstalmentsIn
<1>2. CASE l.int_rate = 0
  <2>1. /\ PrincipalShare(l, m).num = n - k /\ PrincipalShare(l, m).den = n
        /\ PrincipalShare(l, j).num = n - i /\ PrincipalShare(l, j).den = n
    BY <1>2, ShareIs
  <2> HIDE DEF n, k, i
  <2> QED  BY <1>1, <2>1
<1>3. CASE l.int_rate # 0
  <2>1. /\ q \in Nat \ {0} /\ s \in Nat /\ q < s
        /\ PrincipalShare(l, m) = Annuity(q, s, n, k) /\ PrincipalShare(l, j) = Annuity(q, s, n, i)
    BY <1>3, ShareIs
  <2> HIDE DEF n, q, s, k, i
  <2>2. /\ Annuity(q, s, n, k).num \in Nat /\ Annuity(q, s, n, k).den \in Nat \ {0}
        /\ Annuity(q, s, n, k).num <= Annuity(q, s, n, k).den /\ Annuity(q, s, n, i).num \in Nat
    BY <1>1, <2>1, AnnuityIsShare
  <2>3. Annuity(q, s, n, i).num <= Annuity(q, s, n, k).num
    BY <1>1, <2>1, AnnuityFallsOn
  <2>4. Annuity(q, s, n, i).den = Annuity(q, s, n, k).den
    BY DEF Annuity
  <2> QED  BY <2>1, <2>2, <2>3, <2>4
<1> QED  BY <1>2, <1>3

LEMMA RoundedShare ==
    ASSUME NEW amount \in Nat, NEW num \in Nat, NEW den \in Nat \ {0}, num <= den
    PROVE  Rounded(amount * num, den) \in 0..amount
<1> DEFINE a == amount * num
           b == amount * den
<1>1. a \in Nat /\ b \in Nat /\ a <= b
  <2>1. num * amount <= den * amount
    BY Products
  <2> QED  BY <2>1, Products
<1>2. 2 * b + den < (amount + 1) * (2 * den) /\ 2 * den \in Nat \ {0}
  <2>1. (amount + 1) * (2 * den) = 2 * (amount * den) + 2 * den
    OBVIOUS
  <2> HIDE DEF b
  <2>2. (amount + 1) * (2 * den) = 2 * b + 2 * den
    BY <2>1 DEF b
  <2> QED  BY <2>2, <1>1
<1> HIDE DEF a, b
<1>3. 2 * a + den \in Nat /\ 2 * a + den < (amount + 1) * (2 * den)
  BY <1>1, <1>2
<1>4. \A x \in Nat, y \in Nat \ {0}, c \in Nat : x < c * y => x \div y < c /\ x \div y \in Nat
  OBVIOUS
<1>5. (2 * a + den) \div (2 * den) < amount + 1 /\ (2 * a + den) \div (2 * den) \in Nat
  BY <1>2, <1>3, <1>4
<1>6. Rounded(a, den) = (2 * a + den) \div (2 * den)
  BY DEF Rounded
<1> QED  BY <1>5, <1>6 DEF a

LEMMA RoundedGrows ==
    ASSUME NEW a \in Nat, NEW b \in Nat, NEW den \in Nat \ {0}, a <= b
    PROVE  Rounded(a, den) <= Rounded(b, den)
<1>1. \A x \in Nat, z \in Nat, y \in Nat \ {0} : x <= z => x \div y <= z \div y
  OBVIOUS
<1>2. 2 * a + den <= 2 * b + den /\ 2 * a + den \in Nat /\ 2 * b + den \in Nat /\ 2 * den \in Nat \ {0}
  OBVIOUS
<1> QED  BY <1>1, <1>2 DEF Rounded

\* A whole unit less is less after rounding.
LEMMA RoundedFalls ==
    ASSUME NEW a \in Nat, NEW b \in Nat, NEW den \in Nat \ {0}, b + den <= a
    PROVE  Rounded(b, den) < Rounded(a, den)
<1>1. \A x \in Nat, z \in Nat, y \in Nat \ {0} : x + y <= z => x \div y < z \div y
  OBVIOUS
<1>2. /\ 2 * b + den + 2 * den <= 2 * a + den
      /\ 2 * a + den \in Nat /\ 2 * b + den \in Nat /\ 2 * den \in Nat \ {0}
  OBVIOUS
<1> QED  BY <1>1, <1>2 DEF Rounded

\* A balance is at most the loan, and it falls as months are paid.
LEMMA BalanceFalls ==
    ASSUME NEW l \in Master(RawLoans), NEW m \in Int, NEW j \in Int, m <= j
    PROVE  /\ AmortisedBalance(l, m) \in Nat /\ AmortisedBalance(l, j) \in Nat
           /\ AmortisedBalance(l, j) <= AmortisedBalance(l, m)
           /\ l.loan_amnt # Null => AmortisedBalance(l, m) \in 0..l.loan_amnt
           /\ l.loan_amnt = Null => AmortisedBalance(l, m) = 0
<1>1. CASE ~Computable(l)
  <2>1. AmortisedBalance(l, m) = 0 /\ AmortisedBalance(l, j) = 0
    BY <1>1 DEF AmortisedBalance, Computable
  <2>2. l.loan_amnt # Null => l.loan_amnt \in Nat
    BY LoanFigures
  <2> QED  BY <2>1, <2>2
<1>2. CASE Computable(l)
  <2>1. /\ l.loan_amnt # Null /\ l.int_rate # Null /\ l.term_months # Null
        /\ l.loan_amnt \in Nat
    BY <1>2, LoanFigures DEF Computable
  <2> DEFINE amount == l.loan_amnt
             here   == PrincipalShare(l, m)
             later  == PrincipalShare(l, j)
  <2>2. /\ here.num \in Nat /\ here.den \in Nat \ {0} /\ here.num <= here.den
        /\ later.den = here.den /\ later.num \in Nat /\ later.num <= here.num
    BY <2>1, ShareFalls
  <2>3. /\ AmortisedBalance(l, m) = Rounded(amount * here.num, here.den)
        /\ AmortisedBalance(l, j) = Rounded(amount * later.num, later.den)
    BY <1>2 DEF AmortisedBalance, Computable
  <2> DEFINE hn == here.num
             hd == here.den
             ln == later.num
  <2>4. /\ AmortisedBalance(l, m) = Rounded(amount * hn, hd)
        /\ AmortisedBalance(l, j) = Rounded(amount * ln, hd)
    BY <2>2, <2>3
  <2>5. hn \in Nat /\ hd \in Nat \ {0} /\ ln \in Nat /\ hn <= hd /\ ln <= hn /\ ln <= hd
    BY <2>2
  <2> HIDE DEF hn, hd, ln, amount
  <2>6. amount \in Nat
    BY <2>1 DEF amount
  <2>7. Rounded(amount * hn, hd) \in 0..amount /\ Rounded(amount * ln, hd) \in 0..amount
    BY <2>5, <2>6, RoundedShare
  <2>8. ln * amount <= hn * amount /\ ln * amount = amount * ln /\ hn * amount = amount * hn
        /\ amount * ln \in Nat /\ amount * hn \in Nat
    BY <2>5, <2>6, Products
  <2>9. Rounded(amount * ln, hd) <= Rounded(amount * hn, hd)
    BY <2>5, <2>8, RoundedGrows
  <2>10. /\ AmortisedBalance(l, m) \in 0..amount /\ AmortisedBalance(l, j) \in 0..amount
         /\ AmortisedBalance(l, j) <= AmortisedBalance(l, m)
    BY <2>4, <2>7, <2>9
  <2> QED  BY <2>1, <2>6, <2>10 DEF amount
<1> QED  BY <1>1, <1>2

-----------------------------------------------------------------------------
(***************************************************************************)
(* Payments and balances over the days.                                    *)
(***************************************************************************)
PaidUntil(l, d) == Least(MonthsOnBook(l, d), StopAt(l, d))

LEMMA PaidUntilIs ==
    ASSUME NEW l \in Master(RawLoans), NEW d \in 1..LastDay
    PROVE  /\ PaidUntil(l, d) \in Int
           /\ l.outcome # "open" /\ Stopped(l, d) => PaidUntil(l, d) = MonthsPaid(l)
           /\ Outstanding(l, d) = IF Exited(l, d) THEN 0
                                  ELSE AmortisedBalance(l, PaidUntil(l, d))
<1>1. MonthsOnBook(l, d) \in Int /\ MonthsPaid(l) \in Int
  BY StoppedSince
<1>2. PaidUntil(l, d) \in Int
  BY <1>1 DEF PaidUntil, Least, StopAt
<1>3. l.outcome # "open" /\ Stopped(l, d) => PaidUntil(l, d) = MonthsPaid(l)
  BY <1>1 DEF PaidUntil, Least, StopAt, Stopped
<1>4. Outstanding(l, d) = IF Exited(l, d) THEN 0 ELSE AmortisedBalance(l, PaidUntil(l, d))
  BY DEF Outstanding, PaidUntil
<1> QED  BY <1>2, <1>3, <1>4

LEMMA OutstandingIs ==
    ASSUME NEW l \in Master(RawLoans), NEW d \in 1..LastDay
    PROVE  /\ Outstanding(l, d) \in Nat
           /\ l.loan_amnt # Null => Outstanding(l, d) \in 0..l.loan_amnt
           /\ l.loan_amnt = Null => Outstanding(l, d) = 0
<1>1. l.loan_amnt # Null => l.loan_amnt \in Nat
  BY LoanFigures
<1>2. CASE Exited(l, d)
  BY <1>1, <1>2, PaidUntilIs
<1>3. CASE ~Exited(l, d)
  <2>1. PaidUntil(l, d) \in Int /\ PaidUntil(l, d) <= PaidUntil(l, d)
        /\ Outstanding(l, d) = AmortisedBalance(l, PaidUntil(l, d))
    BY <1>3, PaidUntilIs
  <2> QED  BY <2>1, BalanceFalls
<1> QED  BY <1>2, <1>3

LEMMA PaidUntilGrows ==
    ASSUME NEW l \in Master(RawLoans), NEW d \in 1..LastDay, d < LastDay
    PROVE  PaidUntil(l, d) <= PaidUntil(l, d + 1)
<1>1. d + 1 \in 1..LastDay /\ MonthOf(d) <= MonthOf(d + 1)
  BY MonthsGoOn, DayFacts
<1>2. /\ MonthsOnBook(l, d) \in Int /\ MonthsOnBook(l, d + 1) \in Int /\ MonthsPaid(l) \in Int
      /\ MonthsOnBook(l, d) = MonthOf(d) - l.issue_d
      /\ MonthsOnBook(l, d + 1) = MonthOf(d + 1) - l.issue_d
  BY <1>1, StoppedSince
<1>3. MonthsOnBook(l, d) <= MonthsOnBook(l, d + 1)
  BY <1>1, <1>2, DayFacts, LoanFacts
<1> QED  BY <1>2, <1>3 DEF PaidUntil, Least, StopAt

LEMMA ExitedStays ==
    ASSUME NEW l \in Master(RawLoans), NEW d \in 1..LastDay, d < LastDay, Exited(l, d)
    PROVE  Exited(l, d + 1)
<1>1. d + 1 \in 1..LastDay
  BY MonthsGoOn
<1>2. CASE Closed(l, d)
  <2>1. Closed(l, d + 1)
    BY <1>2, StoppedStays DEF Closed
  <2> QED  BY <2>1 DEF Exited
<1>3. CASE WrittenOff(l, d)
  <2>1. DaysPastDue(l, d) \in Nat /\ DaysPastDue(l, d) >= 180
    BY <1>3, DaysPastDueIs DEF WrittenOff, WriteOffAt
  <2>2. Late(l, d)
    BY <2>1, DaysPastDueIs
  <2>3. DaysPastDue(l, d + 1) >= 180
    BY <2>1, <2>2, LateTomorrow
  <2> QED  BY <2>3 DEF Exited, WrittenOff, WriteOffAt
<1> QED  BY <1>2, <1>3 DEF Exited

\* The balance of the next day.
LEMMA NextBalance ==
    ASSUME NEW l \in Master(RawLoans), NEW d \in 1..LastDay, d < LastDay
    PROVE  /\ Outstanding(l, d + 1) <= Outstanding(l, d)
           /\ l.outcome = "defaulted" /\ Stopped(l, d) /\ Status(l, d + 1) # "written_off"
                => Outstanding(l, d + 1) = Outstanding(l, d)
<1>1. d + 1 \in 1..LastDay /\ Outstanding(l, d) \in Nat /\ Outstanding(l, d + 1) \in Nat
  BY MonthsGoOn, OutstandingIs
<1>2. Exited(l, d) => Exited(l, d + 1)
  BY ExitedStays
<1>3. Outstanding(l, d + 1) <= Outstanding(l, d)
  <2>1. CASE Exited(l, d + 1)
    <3>1. Outstanding(l, d + 1) = 0
      BY <2>1, <1>1, PaidUntilIs
    <3> QED  BY <3>1, <1>1
  <2>2. CASE ~Exited(l, d + 1)
    <3>1. /\ Outstanding(l, d) = AmortisedBalance(l, PaidUntil(l, d))
          /\ Outstanding(l, d + 1) = AmortisedBalance(l, PaidUntil(l, d + 1))
          /\ PaidUntil(l, d) \in Int /\ PaidUntil(l, d + 1) \in Int
      BY <2>2, <1>1, <1>2, PaidUntilIs
    <3>2. PaidUntil(l, d) <= PaidUntil(l, d + 1)
      BY PaidUntilGrows
    <3> QED  BY <3>1, <3>2, BalanceFalls
  <2> QED  BY <2>1, <2>2
<1>4. ASSUME l.outcome = "defaulted", Stopped(l, d), Status(l, d + 1) # "written_off"
      PROVE  Outstanding(l, d + 1) = Outstanding(l, d)
  <2>1. ~Exited(l, d + 1)
    BY <1>1, <1>4, StatusIs DEF Exited, Closed, WrittenOff, WriteOffAt
  <2>2. Stopped(l, d + 1)
    BY <1>4, StoppedStays
  <2>3. PaidUntil(l, d) = MonthsPaid(l) /\ PaidUntil(l, d + 1) = MonthsPaid(l)
    BY <1>1, <1>4, <2>2, PaidUntilIs
  <2> QED  BY <1>1, <1>2, <2>1, <2>3, PaidUntilIs
<1> QED  BY <1>3, <1>4

\* A loan that pays owes a month's principal less after the month.
Pays(l, d) == l.outcome = "open" \/ ~Stopped(l, d + 1)

LEMMA PaidMonth ==
    ASSUME NEW l \in Master(RawLoans), NEW d \in 1..LastDay, d < LastDay, Pays(l, d), MonthEnd(d)
    PROVE  /\ Outstanding(l, d) = AmortisedBalance(l, MonthsOnBook(l, d))
           /\ Outstanding(l, d + 1) = AmortisedBalance(l, MonthsOnBook(l, d) + 1)
           /\ MonthsOnBook(l, d) \in Int
<1>1. d + 1 \in 1..LastDay /\ MonthOf(d + 1) = MonthOf(d) + 1
  BY MonthsGoOn
<1>2. /\ MonthsOnBook(l, d) \in Int /\ MonthsOnBook(l, d + 1) \in Int /\ MonthsPaid(l) \in Int
      /\ MonthsOnBook(l, d) = MonthOf(d) - l.issue_d
      /\ MonthsOnBook(l, d + 1) = MonthOf(d + 1) - l.issue_d
  BY <1>1, StoppedSince
<1>3. MonthsOnBook(l, d + 1) = MonthsOnBook(l, d) + 1
  BY <1>1, <1>2, DayFacts, LoanFacts
<1>4. ~Exited(l, d + 1)
  <2>1. ~(l.outcome = "defaulted" /\ Stopped(l, d + 1)) /\ ~(l.outcome = "settled" /\ Stopped(l, d + 1))
    BY DEF Pays
  <2>2. DaysPastDue(l, d + 1) = 0
    BY <2>1 DEF DaysPastDue
  <2> QED  BY <2>1, <2>2 DEF Exited, Closed, WrittenOff, WriteOffAt
<1>5. ~Exited(l, d)
  BY <1>4, ExitedStays
<1>6. PaidUntil(l, d) = MonthsOnBook(l, d) /\ PaidUntil(l, d + 1) = MonthsOnBook(l, d + 1)
  BY <1>2, <1>3 DEF PaidUntil, Least, StopAt, Pays, Stopped
<1> QED  BY <1>1, <1>2, <1>3, <1>4, <1>5, <1>6, PaidUntilIs

LEMMA PaymentReduces ==
    ASSUME NEW l \in Master(RawLoans), NEW d \in 1..LastDay, d < LastDay, Pays(l, d), MonthEnd(d),
           RepaysAUnit(l, d)
    PROVE  Outstanding(l, d + 1) < Outstanding(l, d)
<1> DEFINE m == MonthsOnBook(l, d)
           amount == l.loan_amnt
           here   == PrincipalShare(l, m)
           later  == PrincipalShare(l, m + 1)
           hn == here.num
           hd == here.den
           ln == later.num
<1>1. /\ Outstanding(l, d) = AmortisedBalance(l, m)
      /\ Outstanding(l, d + 1) = AmortisedBalance(l, m + 1) /\ m \in Int
  BY PaidMonth
<1>2. /\ Computable(l) /\ l.loan_amnt # Null /\ l.int_rate # Null /\ l.term_months # Null
      /\ amount \in Nat /\ amount * (hn - ln) >= hd
  <2>1. Computable(l) /\ amount * (hn - ln) >= hd
    BY DEF RepaysAUnit, Computable
  <2>2. l.loan_amnt # Null /\ l.int_rate # Null /\ l.term_months # Null
    BY <2>1 DEF Computable
  <2> QED  BY <2>1, <2>2, LoanFigures
<1> HIDE DEF m
<1>3. m + 1 \in Int /\ m <= m + 1
  BY <1>1
<1>4. /\ here.num \in Nat /\ here.den \in Nat \ {0} /\ later.num \in Nat
      /\ later.den = here.den /\ later.num <= here.num
  BY <1>1, <1>2, <1>3, ShareFalls
<1>5. /\ AmortisedBalance(l, m) = Rounded(amount * hn, hd)
      /\ AmortisedBalance(l, m + 1) = Rounded(amount * ln, hd)
  BY <1>2, <1>4 DEF AmortisedBalance, Computable
<1> HIDE DEF amount, here, later, hn, hd, ln
<1>6. hn \in Nat /\ hd \in Nat \ {0} /\ ln \in Nat /\ ln <= hn
  BY <1>4 DEF hn, hd, ln
<1>7. /\ amount * ln \in Nat /\ amount * hn \in Nat
      /\ amount * (hn - ln) = amount * hn - amount * ln
  <2>1. \A x, y, z \in Int : x * (y - z) = x * y - x * z
    OBVIOUS
  <2>2. amount * (hn - ln) = amount * hn - amount * ln
    BY <1>2, <1>6, <2>1
  <2> QED  BY <1>2, <1>6, <2>2, Products
<1>8. amount * ln + hd <= amount * hn
  <2>1. \A x, y, z \in Int : x - y >= z => y + z <= x
    OBVIOUS
  <2>2. amount * hn - amount * ln >= hd
    BY <1>2, <1>7
  <2> QED  BY <1>6, <1>7, <2>1, <2>2
<1> QED  BY <1>1, <1>5, <1>6, <1>7, <1>8, RoundedFalls

\* Nobody owes more than the day before; a loan in default owes the same until it
\* is written off; and one that pays a unit or more of its principal with the
\* month owes less (stop_at and amortised_balance).
THEOREM BalancesOnlyFall == FeedSpec => BalanceFollowsPayments
<1> DEFINE Falls == (row # Absent /\ row' # Absent) =>
      /\ row'.outstanding_amount <= row.outstanding_amount
      /\ (loan.outcome = "defaulted" /\ Stopped(loan, today) /\ row'.status # "written_off")
            => row'.outstanding_amount = row.outstanding_amount
      /\ (/\ loan.outcome = "open" \/ ~Stopped(loan, today')
          /\ MonthEnd(today) /\ RepaysAUnit(loan, today))
            => row'.outstanding_amount < row.outstanding_amount
<1>1. ASSUME FeedState, NextSnapshot PROVE Falls
  <2> SUFFICES ASSUME row # Absent, row' # Absent PROVE Falls
    OBVIOUS
  <2>1. /\ loan \in Master(RawLoans) /\ today \in 1..LastDay /\ today < LastDay
        /\ row = ReportedRow(loan, today) /\ row' = ReportedRow(loan, today + 1)
    BY <1>1, TurnOf
  <2>2. /\ row.outstanding_amount = Outstanding(loan, today)
        /\ row'.outstanding_amount = Outstanding(loan, today + 1)
        /\ row'.status = Status(loan, today + 1)
    BY <2>1, RowFields
  <2>3. today' = today + 1
    BY <1>1 DEF NextSnapshot
  <2>4. ASSUME loan.outcome = "open" \/ ~Stopped(loan, today'), MonthEnd(today),
               RepaysAUnit(loan, today)
        PROVE  Outstanding(loan, today + 1) < Outstanding(loan, today)
    <3>1. Pays(loan, today)
      BY <2>3, <2>4 DEF Pays
    <3> QED  BY <2>1, <2>4, <3>1, PaymentReduces
  <2>5. /\ Outstanding(loan, today + 1) <= Outstanding(loan, today)
        /\ loan.outcome = "defaulted" /\ Stopped(loan, today)
              /\ Status(loan, today + 1) # "written_off"
                => Outstanding(loan, today + 1) = Outstanding(loan, today)
    BY <2>1, NextBalance
  <2> QED  BY <2>2, <2>4, <2>5
<1>2. ASSUME FeedState, [NextSnapshot]_feedVars PROVE [Falls]_feedVars
  BY <1>1, <1>2
<1> QED  BY <1>2, SnapshotsFollowTheLoan, PTL DEF FeedSpec, BalanceFollowsPayments

-----------------------------------------------------------------------------
(***************************************************************************)
(* Level instalments.                                                      *)
(***************************************************************************)
LEMMA LevelInstalment ==
    ASSUME NEW q \in Nat \ {0}, NEW s \in Nat, q < s, NEW n \in Nat \ {0}, NEW m \in 1..n
    PROVE  s * Annuity(q, s, n, m - 1).num - q * Annuity(q, s, n, m).num = (s - q) * Power(s, n)
<1> DEFINE An == Power(s, n)
           Am == Power(s, m - 1)
           ql == Power(q, n - m)
           x  == Am * ql
<1>0. m - 1 \in Nat /\ n - m \in Nat /\ m = m - 1 + 1 /\ n - (m - 1) = n - m + 1 /\ s \in Nat \ {0}
  OBVIOUS
<1>1. An \in Nat /\ Am \in Nat /\ ql \in Nat
  BY <1>0, PowerType
<1>2. Power(s, m) = s * Am /\ Power(q, n - (m - 1)) = q * ql
  <2>1. Power(s, m - 1 + 1) = s * Am /\ Power(q, n - m + 1) = q * ql
    BY <1>0, PowerUnfolds
  <2> QED  BY <2>1, <1>0
<1>3. /\ Annuity(q, s, n, m - 1).num = An - Am * Power(q, n - (m - 1))
      /\ Annuity(q, s, n, m).num = An - Power(s, m) * ql
  BY DEF Annuity
<1> HIDE DEF An, Am, ql
<1>4. x \in Nat
  BY <1>1, Products
<1>5. Am * (q * ql) = q * x /\ s * Am * ql = s * x
  <2>1. \A a, b, c \in Nat : a * (b * c) = b * (a * c) /\ b * a * c = b * (a * c)
    OBVIOUS
  <2> QED  BY <1>0, <1>1, <2>1
<1>6. /\ Annuity(q, s, n, m - 1).num = An - q * x
      /\ Annuity(q, s, n, m).num = An - s * x
  BY <1>2, <1>3, <1>5
<1> HIDE DEF x
<1>7. \A a, y \in Int : s * (a - q * y) - q * (a - s * y) = (s - q) * a
  OBVIOUS
<1>8. s * (An - q * x) - q * (An - s * x) = (s - q) * An
  BY <1>1, <1>4, <1>7
<1> QED  BY <1>6, <1>8 DEF An

\* An annuity is paid off in level instalments by the last month of its term,
\* and not before (amortised_balance).
THEOREM InstalmentsStayLevel == FeedSpec => []InstalmentsAreLevel
<1>1. ASSUME FeedState PROVE InstalmentsAreLevel
  <2> DEFINE n == loan.term_months
             q == Monthly
             s == Monthly + loan.int_rate
             Left(m) == PrincipalShare(loan, m)
             Instalment(m) == s * Left(m - 1).num - q * Left(m).num
  <2> SUFFICES ASSUME n # Null, loan.int_rate # Null, loan.int_rate # 0
               PROVE  /\ \A m \in 1..n : Instalment(m) = Instalment(1) /\ Instalment(m) > 0
                      /\ Left(n).num = 0 /\ Left(0).num = Left(0).den
    BY DEF InstalmentsAreLevel
  <2>1. loan \in Master(RawLoans)
    BY <1>1 DEF FeedState
  <2>2. n \in Nat \ {0} /\ q \in Nat \ {0} /\ s \in Nat \ {0} /\ q < s /\ n \in Nat
    <3>1. n \in Nat \ {0}
      BY <2>1, LoanFigures
    <3>2. loan.int_rate \in Nat \ {0}
      BY <2>1, LoanFigures
    <3>3. q \in Nat \ {0} /\ s \in Nat /\ q < s
      BY <3>2, InterestAdds
    <3> QED  BY <3>1, <3>3
  <2>3. ASSUME NEW m \in 0..n PROVE Left(m) = Annuity(q, s, n, m)
    <3>1. m \in Int /\ Instalments(loan, m) = m
      BY <2>2, <2>3 DEF Instalments, Least, FloorZero
    <3>2. PrincipalShare(loan, m) = Annuity(q, s, n, Instalments(loan, m))
      BY <2>1, <3>1, ShareIs
    <3> QED  BY <3>1, <3>2
  <2>4. ASSUME NEW m \in 1..n PROVE Instalment(m) = (s - q) * Power(s, n)
    <3>1. m \in 0..n /\ m - 1 \in 0..n
      BY <2>2
    <3>2. Left(m) = Annuity(q, s, n, m) /\ Left(m - 1) = Annuity(q, s, n, m - 1)
      BY <2>3, <3>1
    <3>3. s * Annuity(q, s, n, m - 1).num - q * Annuity(q, s, n, m).num = (s - q) * Power(s, n)
      <4> HIDE DEF n, q, s
      <4> QED  BY <2>2, LevelInstalment
    <3> HIDE DEF Left, n, q, s
    <3> QED  BY <3>2, <3>3
  <2>5. Power(s, n) \in Nat \ {0} /\ (s - q) * Power(s, n) > 0 /\ 1 \in 1..n
    <3>1. Power(s, n) \in Nat \ {0} /\ 1 \in 1..n
      BY <2>2, PowerType
    <3>2. s - q \in Nat \ {0}
      BY <2>2
    <3>3. \A a, b \in Nat \ {0} : a * b > 0
      OBVIOUS
    <3> QED  BY <3>1, <3>2, <3>3
  <2>6. Left(n).num = 0
    <3>1. n \in 0..n /\ n - n = 0
      BY <2>2
    <3>2. Annuity(q, s, n, n).num = Power(s, n) - Power(s, n) * Power(q, n - n)
      BY DEF Annuity
    <3>3. Power(q, n - n) = 1
      BY <3>1, PowerUnfolds
    <3>4. Left(n) = Annuity(q, s, n, n)
      BY <2>3, <3>1
    <3> HIDE DEF Left, n, q, s
    <3>5. \A a \in Nat : a - a * 1 = 0
      OBVIOUS
    <3> QED  BY <3>2, <3>3, <3>4, <3>5, <2>5
  <2>7. Left(0).num = Left(0).den
    <3>1. 0 \in 0..n /\ n - 0 = n
      BY <2>2
    <3>2. /\ Annuity(q, s, n, 0).num = Power(s, n) - Power(s, 0) * Power(q, n - 0)
          /\ Annuity(q, s, n, 0).den = Power(s, n) - Power(q, n)
      BY DEF Annuity
    <3>3. Power(s, 0) = 1 /\ Power(q, n) \in Nat
      <4> HIDE DEF n, q, s
      <4>1. Power(s, 0) = 1
        BY <2>2, PowerUnfolds
      <4>2. Power(q, n) \in Nat
        BY <2>2, PowerType
      <4> QED  BY <4>1, <4>2
    <3>4. Left(0) = Annuity(q, s, n, 0)
      BY <2>3, <3>1
    <3> HIDE DEF Left, n, q, s
    <3>5. \A a \in Nat : 1 * a = a
      OBVIOUS
    <3> QED  BY <3>1, <3>2, <3>3, <3>4, <3>5
  <2> HIDE DEF Instalment
  <2>8. \A m \in 1..n : Instalment(m) = Instalment(1) /\ Instalment(m) > 0
    BY <2>4, <2>5
  <2> QED  BY <2>6, <2>7, <2>8
<1> QED  BY <1>1, SnapshotsFollowTheLoan, PTL

-----------------------------------------------------------------------------
(***************************************************************************)
(* The rows under the platform's names, and the rules they are held to.    *)
(***************************************************************************)
Figures(s, l, d) ==
    /\ s.exposure_id # Null /\ s.customer_id # Null /\ s.attributes = TRUE
    /\ s.origination_date = l.issue_d /\ l.issue_d \in Int /\ s.term_months = l.term_months
    /\ s.original_amount = l.loan_amnt /\ s.interest_rate = l.int_rate
    /\ s.rating_grade \in Grades /\ s.rating_grade # Null
    /\ s.status = Status(l, d) /\ s.days_past_due = DaysPastDue(l, d)
    /\ s.default_flag = (Status(l, d) = "defaulted")
    /\ s.outstanding_amount = Outstanding(l, d)
    /\ s.provision_amount = Provision(l, d)
    /\ s.maturity_date = Known({l.issue_d, l.term_months}, l.issue_d + l.term_months)

LEMMA ProvisionIs ==
    ASSUME NEW l \in Master(RawLoans), NEW d \in 1..LastDay
    PROVE  /\ Provision(l, d) \in 0..Outstanding(l, d)
           /\ Status(l, d) # "defaulted" => Provision(l, d) = 0
<1>1. Outstanding(l, d) \in Nat
  BY OutstandingIs
<1>2. l.recoveries # Null => l.recoveries \in Nat
  BY LoanFigures
<1> QED  BY <1>1, <1>2 DEF Provision, FloorZero

LEMMA MoneyHolds ==
    ASSUME NEW x \in -MaxMoney..MaxMoney
    PROVE  Money(x) = x
  BY DEF Money

LEMMA ConformedFigures ==
    ASSUME NEW l \in Master(RawLoans), NEW d \in 1..LastDay
    PROVE  Figures(Conform(ReportedRow(l, d)), l, d)
<1> DEFINE r == ReportedRow(l, d)
           s == Conform(r)
<1>0. MaxMoney \in Nat
  BY LoanFigures
<1>1. Money(l.loan_amnt) = l.loan_amnt
  <2>1. CASE l.loan_amnt = Null
    BY <2>1 DEF Money
  <2>2. CASE l.loan_amnt # Null
    BY <2>2, <1>0, LoanFigures, MoneyHolds
  <2> QED  BY <2>1, <2>2
<1>2. Outstanding(l, d) \in 0..MaxMoney
  BY <1>0, OutstandingIs, LoanFigures
<1>3. Provision(l, d) \in 0..MaxMoney
  BY <1>0, <1>2, ProvisionIs
<1>4. Money(Outstanding(l, d)) = Outstanding(l, d) /\ Money(Provision(l, d)) = Provision(l, d)
  BY <1>0, <1>2, <1>3, MoneyHolds
<1>5. /\ r.exposure_id = ExposureId(l) /\ r.customer_id = CustomerId(l) /\ r.attributes = TRUE
      /\ r.issue_d = l.issue_d /\ r.term_months = l.term_months /\ r.loan_amnt = l.loan_amnt
      /\ r.int_rate = l.int_rate /\ r.grade = l.grade /\ r.status = Status(l, d)
      /\ r.days_past_due = DaysPastDue(l, d) /\ r.default_flag = (Status(l, d) = "defaulted")
      /\ r.outstanding_amount = Outstanding(l, d) /\ r.provision_amount = Provision(l, d)
  BY DEF ReportedRow
<1> HIDE DEF r
<1>6. /\ s.exposure_id = r.exposure_id /\ s.customer_id = r.customer_id
      /\ s.attributes = r.attributes /\ s.origination_date = r.issue_d
      /\ s.term_months = r.term_months /\ s.original_amount = Money(r.loan_amnt)
      /\ s.interest_rate = r.int_rate /\ s.rating_grade = r.grade /\ s.status = r.status
      /\ s.days_past_due = r.days_past_due /\ s.default_flag = r.default_flag
      /\ s.outstanding_amount = Money(r.outstanding_amount)
      /\ s.provision_amount = Money(r.provision_amount)
      /\ s.maturity_date = Known({r.issue_d, r.term_months}, r.issue_d + r.term_months)
  BY DEF Conform
<1> HIDE DEF s
<1>7. /\ ExposureId(l) # Null /\ CustomerId(l) # Null /\ l.grade # Null
      /\ l.grade \in Grades /\ l.issue_d \in Int
  BY ExtractAssumption
<1>8. Figures(s, l, d)
  BY <1>1, <1>4, <1>5, <1>6, <1>7 DEF Figures
<1> QED  BY <1>8 DEF s, r

\* The stage, the flag and the days past due agree.
LEMMA StageFigures ==
    ASSUME NEW l \in Master(RawLoans), NEW d \in 1..LastDay, NEW s, Figures(s, l, d)
    PROVE  /\ s.status # Null /\ s.default_flag \in BOOLEAN
           /\ s.default_flag = (s.status = "defaulted")
           /\ s.days_past_due \in Nat
           /\ s.status = "past_due" => s.days_past_due > 0
           /\ s.status = "defaulted" => s.days_past_due >= 90
           /\ s.status # "defaulted" => s.provision_amount = 0
           /\ s.outstanding_amount \in Nat /\ s.provision_amount \in 0..s.outstanding_amount
<1>1. /\ s.status = Status(l, d) /\ s.days_past_due = DaysPastDue(l, d)
      /\ s.outstanding_amount = Outstanding(l, d) /\ s.provision_amount = Provision(l, d)
      /\ s.default_flag = (Status(l, d) = "defaulted")
  BY DEF Figures
<1>2. /\ Status(l, d) \in {"closed", "written_off", "defaulted", "past_due", "performing"}
      /\ DaysPastDue(l, d) \in Nat
      /\ Status(l, d) = "defaulted" => DaysPastDue(l, d) \in 90..179
      /\ Status(l, d) = "past_due" => DaysPastDue(l, d) \in 1..89
  BY StatusIs, DaysPastDueIs
<1>3. s.status # Null
  BY <1>1, <1>2, NullAssumption
<1>4. s.default_flag \in BOOLEAN /\ s.default_flag = (s.status = "defaulted")
  BY <1>1
<1>5. Outstanding(l, d) \in Nat /\ Provision(l, d) \in 0..Outstanding(l, d)
      /\ (Status(l, d) # "defaulted" => Provision(l, d) = 0)
  BY OutstandingIs, ProvisionIs
<1>6. s.status = "past_due" => s.days_past_due > 0
  BY <1>1, <1>2
<1>7. s.status = "defaulted" => s.days_past_due >= 90
  BY <1>1, <1>2
<1> QED  BY <1>1, <1>2, <1>3, <1>4, <1>5, <1>6, <1>7

LEMMA AmountFigures ==
    ASSUME NEW l \in Master(RawLoans), NEW d \in 1..LastDay, NEW s, Figures(s, l, d)
    PROVE  /\ s.original_amount # Null => /\ s.original_amount \in Nat \ {0}
                                          /\ s.outstanding_amount <= s.original_amount
           /\ s.interest_rate # Null => s.interest_rate \in 0..HundredPercent
<1>1. l.int_rate # Null => l.int_rate \in 0..HundredPercent
  BY RatesAssumption
<1>2. s.interest_rate = l.int_rate /\ s.original_amount = l.loan_amnt
      /\ s.outstanding_amount = Outstanding(l, d)
  BY DEF Figures
<1>3. l.loan_amnt # Null => /\ l.loan_amnt \in Nat \ {0}
                            /\ Outstanding(l, d) <= l.loan_amnt
  BY OutstandingIs, LoanFigures
<1> QED  BY <1>1, <1>2, <1>3

LEMMA NotFalse ==
    ASSUME NEW x, x # Null => x \in Nat
    PROVE  /\ AtLeast(x, 0) # FALSE
           /\ x # 0 => Above(x, 0) # FALSE
<1>0. Null # TRUE /\ Null # FALSE /\ Null \notin Int
  BY NullAssumption
<1>1. CASE x = Null
  <2>1. AtLeast(x, 0) = Null /\ Above(x, 0) = Null
    BY <1>1 DEF AtLeast, Above, Known
  <2> QED  BY <2>1, <1>0
<1>2. CASE x # Null
  <2>1. x \in Nat /\ Null # 0
    BY <1>0, <1>2
  <2>2. AtLeast(x, 0) = (x >= 0) /\ Above(x, 0) = (x > 0)
    BY <2>1, <1>2 DEF AtLeast, Above, Known
  <2>3. (x >= 0) = TRUE
    BY <2>1
  <2>4. x # 0 => (x > 0) = TRUE
    BY <2>1
  <2> QED  BY <2>2, <2>3, <2>4
<1> QED  BY <1>1, <1>2

\* The rules that silver and the contract share.
LEMMA SharedRules ==
    ASSUME NEW l \in Master(RawLoans), NEW d \in 1..LastDay, NEW s, Figures(s, l, d)
    PROVE  /\ OutstandingWithinOriginal(s) # FALSE
           /\ DefaultFlagMatchesStatus(s) # FALSE
           /\ PastDueHasDays(s) # FALSE
           /\ ProvisionWithinOutstanding(s) # FALSE
<1>1. OutstandingWithinOriginal(s) # FALSE
  <2>1. CASE s.original_amount = Null
    <3>1. OutstandingWithinOriginal(s) = Null
      BY <2>1 DEF OutstandingWithinOriginal, Known
    <3> QED  BY <3>1, NullAssumption
  <2>2. CASE s.original_amount # Null
    <3>1. /\ s.original_amount \in Nat /\ s.outstanding_amount \in Nat
          /\ s.outstanding_amount <= s.original_amount
      BY <2>2, AmountFigures, StageFigures
    <3>2. 10 * s.outstanding_amount <= 11 * s.original_amount
      BY <3>1
    <3>3. Null \notin {s.outstanding_amount, s.original_amount}
      BY <3>1, NullAssumption
    <3> QED  BY <3>2, <3>3 DEF OutstandingWithinOriginal, Known
  <2> QED  BY <2>1, <2>2
<1>2. DefaultFlagMatchesStatus(s) # FALSE
  <2>1. s.status # Null /\ s.default_flag \in BOOLEAN
        /\ s.default_flag = (s.status = "defaulted")
    BY StageFigures
  <2>2. Null # "defaulted" /\ Null # TRUE /\ Null # FALSE
    BY NullAssumption
  <2>3. Equal(s.status, "defaulted") = s.default_flag
    BY <2>1, <2>2 DEF Equal, Known
  <2>4. Null \notin {s.default_flag}
    BY <2>1, <2>2
  <2> QED  BY <2>3, <2>4 DEF DefaultFlagMatchesStatus, Equal, Known
<1>3. PastDueHasDays(s) # FALSE
  <2>1. s.status # Null /\ s.days_past_due \in Nat /\ Null # "past_due"
        /\ Null # TRUE /\ Null # FALSE
    BY StageFigures, NullAssumption
  <2>2. CASE s.status = "past_due"
    <3>1. s.days_past_due > 0 /\ s.days_past_due # Null
      BY <2>2, StageFigures, NullAssumption
    <3>2. Above(s.days_past_due, 0) = TRUE
      BY <3>1, NullAssumption DEF Above, Known
    <3> QED  BY <3>2 DEF PastDueHasDays, Or
  <2>3. CASE s.status # "past_due"
    <3>1. Equal(s.status, "past_due") = FALSE
      BY <2>1, <2>3 DEF Equal, Known
    <3>2. Not(Equal(s.status, "past_due")) = TRUE
      BY <3>1, <2>1 DEF Not, Known
    <3> QED  BY <3>2 DEF PastDueHasDays, Or
  <2> QED  BY <2>2, <2>3
<1>4. ProvisionWithinOutstanding(s) # FALSE
  <2>1. s.outstanding_amount \in Nat /\ s.provision_amount \in 0..s.outstanding_amount
    BY StageFigures
  <2>2. Null \notin {s.provision_amount, s.outstanding_amount}
    BY <2>1, NullAssumption
  <2>3. s.provision_amount <= s.outstanding_amount
    BY <2>1
  <2> QED  BY <2>2, <2>3 DEF ProvisionWithinOutstanding, AtMost, Known
<1> QED  BY <1>1, <1>2, <1>3, <1>4

\* Silver takes every row of the feed.
LEMMA SilverTakes ==
    ASSUME NEW l \in Master(RawLoans), NEW d \in 1..LastDay, NEW s, Figures(s, l, d)
    PROVE  FailedSilverRules(s) = {}
<1>0. Null # TRUE /\ Null # FALSE /\ Null \notin Int
  BY NullAssumption
<1>1. IsNotNull(s.exposure_id) # FALSE /\ IsNotNull(s.customer_id) # FALSE
  BY DEF Figures, IsNotNull
<1>2. Above(s.original_amount, 0) # FALSE
  <2>1. s.original_amount # Null => s.original_amount \in Nat \ {0}
    BY AmountFigures
  <2>2. s.original_amount # 0
    BY <2>1, <1>0
  <2> QED  BY <2>1, <2>2, NotFalse
<1>3. AtLeast(s.outstanding_amount, 0) # FALSE /\ AtLeast(s.days_past_due, 0) # FALSE
  <2>1. s.outstanding_amount \in Nat /\ s.days_past_due \in Nat
    BY StageFigures
  <2> QED  BY <2>1, NotFalse
<1>4. IsIn(s.rating_grade, Grades) # FALSE
  BY <1>0 DEF Figures, IsIn, Known
<1>5. IsIn(s.interest_rate, 0..HundredPercent) # FALSE
  BY <1>0, AmountFigures DEF IsIn, Known
<1>6. /\ OutstandingWithinOriginal(s) # FALSE /\ DefaultFlagMatchesStatus(s) # FALSE
      /\ PastDueHasDays(s) # FALSE /\ ProvisionWithinOutstanding(s) # FALSE
  BY SharedRules
<1> DEFINE cond == SilverConditions(s)
<1>7. /\ cond.exposure_id_present # FALSE /\ cond.customer_id_present # FALSE
      /\ cond.original_amount_positive # FALSE
  BY <1>1, <1>2 DEF SilverConditions
<1>8. /\ cond.outstanding_not_negative # FALSE /\ cond.days_past_due_not_negative # FALSE
      /\ cond.rating_grade_known # FALSE /\ cond.interest_rate_plausible # FALSE
  BY <1>3, <1>4, <1>5 DEF SilverConditions
<1>9. /\ cond.outstanding_within_original # FALSE /\ cond.default_flag_matches_status # FALSE
      /\ cond.past_due_has_days_past_due # FALSE /\ cond.provision_within_outstanding # FALSE
  BY <1>6 DEF SilverConditions
<1>10. DOMAIN cond = { "exposure_id_present", "customer_id_present", "original_amount_positive",
                       "outstanding_not_negative", "outstanding_within_original",
                       "days_past_due_not_negative", "default_flag_matches_status",
                       "past_due_has_days_past_due", "provision_within_outstanding",
                       "rating_grade_known", "interest_rate_plausible" }
  BY DEF SilverConditions
<1> HIDE DEF cond
<1>11. \A name \in DOMAIN cond : cond[name] # FALSE
  BY <1>7, <1>8, <1>9, <1>10
<1> QED  BY <1>11 DEF FailedSilverRules, Violated, cond

\* What the engine is sent: the loan in scope, with its figures known.
Reportable(s, l, d) ==
    /\ Figures(s, l, d) /\ MonthEnd(d)
    /\ l.term_months \in {36, 60} /\ Null \notin {l.int_rate, l.loan_amnt}
    /\ s \in InScope({s})

LEMMA ReportableFigures ==
    ASSUME NEW l \in Master(RawLoans), NEW d \in 1..LastDay, NEW s, Reportable(s, l, d)
    PROVE  /\ s.original_amount \in Nat \ {0} /\ s.interest_rate \in 0..HundredPercent
           /\ s.term_months \in {36, 60} /\ s.origination_date \in Int
           /\ s.maturity_date = s.origination_date + s.term_months
           /\ s.status \in {"performing", "past_due", "defaulted"}
           /\ s.status # "defaulted" => s.outstanding_amount > 0
<1>1. Figures(s, l, d) /\ l.term_months \in {36, 60} /\ Null \notin {l.int_rate, l.loan_amnt}
  BY DEF Reportable
<1>2. /\ s.original_amount = l.loan_amnt /\ s.interest_rate = l.int_rate
      /\ s.term_months = l.term_months /\ s.origination_date = l.issue_d /\ l.issue_d \in Int
      /\ s.maturity_date = Known({l.issue_d, l.term_months}, l.issue_d + l.term_months)
      /\ s.status = Status(l, d) /\ s.outstanding_amount = Outstanding(l, d)
  BY <1>1 DEF Figures
<1>3. s.original_amount \in Nat \ {0} /\ s.interest_rate \in 0..HundredPercent
  BY <1>1, <1>2, AmountFigures
<1>4. s.maturity_date = s.origination_date + s.term_months
  BY <1>1, <1>2, NullAssumption DEF Known
<1>5. s.status # Null /\ s.outstanding_amount \in Nat
  BY <1>1, StageFigures
<1>6. s.status # "defaulted" => s.outstanding_amount > 0
  <2>1. Or(Above(s.outstanding_amount, 0), Equal(s.status, "defaulted")) = TRUE
    BY DEF Reportable, InScope, Kept
  <2>2. /\ Above(s.outstanding_amount, 0) = (s.outstanding_amount > 0)
        /\ Equal(s.status, "defaulted") = (s.status = "defaulted")
    BY <1>5, NullAssumption DEF Above, Equal, Known
  <2>3. Above(s.outstanding_amount, 0) = TRUE \/ Equal(s.status, "defaulted") = TRUE
    BY <2>1, NullAssumption DEF Or, Known
  <2> QED  BY <2>2, <2>3
<1>7. s.status \in {"performing", "past_due", "defaulted"}
  <2>1. CASE Exited(l, d)
    <3>1. s.outstanding_amount = 0
      BY <1>2, <2>1, PaidUntilIs
    <3> QED  BY <3>1, <1>5, <1>6
  <2>2. CASE ~Exited(l, d)
    <3>1. ~Closed(l, d) /\ ~(DaysPastDue(l, d) >= 180)
      BY <2>2 DEF Exited, WrittenOff, WriteOffAt
    <3> QED  BY <3>1, <1>2, StatusIs
  <2> QED  BY <2>1, <2>2
<1> QED  BY <1>1, <1>2, <1>3, <1>4, <1>6, <1>7

LEMMA FieldRulesHold ==
    ASSUME NEW l \in Master(RawLoans), NEW d \in 1..LastDay, NEW s, Reportable(s, l, d)
    PROVE  FailedFieldRules(s) = {}
<1>0. Null # TRUE /\ Null # FALSE /\ Null \notin Int /\ Figures(s, l, d)
      /\ Null \notin {"performing", "past_due", "defaulted", "written_off", "closed"}
  BY NullAssumption DEF Reportable
<1>1. /\ s.original_amount \in Nat \ {0} /\ s.interest_rate \in 0..HundredPercent
      /\ s.term_months \in {36, 60} /\ s.origination_date \in Int
      /\ s.maturity_date = s.origination_date + s.term_months
      /\ s.status \in {"performing", "past_due", "defaulted"}
  BY ReportableFigures
<1>2. /\ s.days_past_due \in Nat /\ s.outstanding_amount \in Nat
      /\ s.provision_amount \in Nat /\ s.default_flag \in BOOLEAN
  BY <1>0, StageFigures
<1>3. /\ s.exposure_id # Null /\ s.customer_id # Null /\ s.attributes = TRUE
      /\ s.rating_grade \in Grades /\ s.rating_grade # Null
  BY <1>0 DEF Figures
<1>4. ASSUME NEW g \in Required PROVE IsNotNull(s[g])
  <2>1. /\ s.original_amount # Null /\ s.interest_rate # Null /\ s.term_months # Null
        /\ s.origination_date # Null /\ s.maturity_date # Null /\ s.days_past_due # Null
        /\ s.outstanding_amount # Null /\ s.provision_amount # Null
    BY <1>0, <1>1, <1>2
  <2>2. s.status # Null
    BY <1>0, <1>1
  <2>3. s.default_flag # Null /\ s.attributes # Null
    BY <1>0, <1>2, <1>3
  <2> QED  BY <2>1, <2>2, <2>3, <1>3 DEF Required, IsNotNull
<1>5. ASSUME NEW g \in NonNegative PROVE ~Violated(AtLeast(s[g], 0))
  <2>1. s[g] \in Nat
    BY <1>1, <1>2 DEF NonNegative
  <2> QED  BY <2>1, NotFalse DEF Violated
<1>6. ASSUME NEW g \in DOMAIN Allowed PROVE ~Violated(IsIn(s[g], Allowed[g]))
  <2>1. s[g] \in Allowed[g] /\ s[g] # Null
    <3>1. g \in {"rating_grade", "term_months", "status"}
      BY DEF Allowed
    <3>2. /\ Allowed["rating_grade"] = Grades /\ Allowed["term_months"] = {36, 60}
          /\ Allowed["status"] = {"performing", "past_due", "defaulted"}
      BY DEF Allowed
    <3>3. g \in Required
      BY <3>1 DEF Required
    <3>4. s[g] \in Allowed[g]
      BY <3>1, <3>2, <1>1, <1>3
    <3> QED  BY <3>3, <3>4, <1>4 DEF IsNotNull
  <2>2. IsIn(s[g], Allowed[g]) = TRUE
    BY <2>1 DEF IsIn, Known
  <2> QED  BY <2>2 DEF Violated
<1> QED  BY <1>4, <1>5, <1>6 DEF FailedFieldRules

LEMMA RowRulesHold ==
    ASSUME NEW l \in Master(RawLoans), NEW d \in 1..LastDay, NEW s, Reportable(s, l, d)
    PROVE  FailedRowRules(s, d) = {}
<1>0. Null # TRUE /\ Null # FALSE /\ Null \notin Int /\ Figures(s, l, d) /\ Null # "defaulted"
  BY NullAssumption DEF Reportable
<1>1. /\ s.origination_date \in Int /\ s.term_months \in {36, 60}
      /\ s.maturity_date = s.origination_date + s.term_months
  BY ReportableFigures
<1>2. /\ s.status # Null /\ s.days_past_due \in Nat /\ s.provision_amount \in Nat
      /\ s.status = "defaulted" => s.days_past_due >= 90
      /\ s.status # "defaulted" => s.provision_amount = 0
  BY <1>0, StageFigures
<1>3. /\ s.days_past_due # Null /\ s.provision_amount # Null
  BY <1>0, <1>2
<1>4. /\ Equal(s.status, "defaulted") = (s.status = "defaulted")
      /\ s.status # "defaulted" => Not(Equal(s.status, "defaulted")) = TRUE
  <2>1. Equal(s.status, "defaulted") = (s.status = "defaulted")
    BY <1>0, <1>2 DEF Equal, Known
  <2>2. s.status # "defaulted" => Equal(s.status, "defaulted") = FALSE
    BY <2>1
  <2> QED  BY <2>1, <2>2, <1>0 DEF Not, Known
<1>5. d \in MonthEnds
  BY MonthEndsAssumption DEF Reportable
<1>6. Or(Not(Equal(s.status, "defaulted")), AtLeast(s.days_past_due, DefaultAtDpd)) # FALSE
  <2>1. CASE s.status = "defaulted"
    <3>1. s.days_past_due >= 90
      BY <1>2, <2>1
    <3>2. AtLeast(s.days_past_due, 90) = TRUE
      BY <3>1, <1>0, <1>3 DEF AtLeast, Known
    <3> QED  BY <3>2 DEF Or, DefaultAtDpd
  <2>2. CASE s.status # "defaulted"
    BY <1>4, <2>2 DEF Or
  <2> QED  BY <2>1, <2>2
<1>7. Or(Equal(s.status, "defaulted"), Equal(s.provision_amount, 0)) # FALSE
  <2>1. CASE s.status = "defaulted"
    BY <1>4, <2>1 DEF Or
  <2>2. CASE s.status # "defaulted"
    <3>1. Equal(s.provision_amount, 0) = TRUE
      BY <1>0, <1>2, <2>2 DEF Equal, Known
    <3> QED  BY <3>1 DEF Or
  <2> QED  BY <2>1, <2>2
<1>8. Or(Not(Equal(s.status, "defaulted")), IsNotNull(DefaultDate(s))) # FALSE
  <2>1. CASE s.status = "defaulted"
    <3>1. DefaultDate(s) = s.days_past_due - 90
      BY <1>3, <2>1 DEF DefaultDate, DefaultAtDpd
    <3>2. IsNotNull(DefaultDate(s)) = TRUE
      BY <3>1, <1>0, <1>2 DEF IsNotNull
    <3> QED  BY <3>2 DEF Or
  <2>2. CASE s.status # "defaulted"
    BY <1>4, <2>2 DEF Or
  <2> QED  BY <2>1, <2>2
<1>9. Above(s.maturity_date, s.origination_date) # FALSE
  <2>1. Null \notin {s.maturity_date, s.origination_date}
    BY <1>0, <1>1
  <2>2. s.maturity_date > s.origination_date
    BY <1>1
  <2> QED  BY <2>1, <2>2 DEF Above, Known
<1>10. /\ OutstandingWithinOriginal(s) # FALSE /\ DefaultFlagMatchesStatus(s) # FALSE
       /\ PastDueHasDays(s) # FALSE /\ ProvisionWithinOutstanding(s) # FALSE
  BY <1>0, SharedRules
<1> DEFINE cond == RowRuleConditions(s, d)
<1>11. /\ cond.reporting_date_is_month_end # FALSE /\ cond.defaulted_at_ninety_days # FALSE
       /\ cond.provision_only_when_defaulted # FALSE
       /\ cond.default_date_when_defaulted # FALSE /\ cond.maturity_after_origination # FALSE
  BY <1>5, <1>6, <1>7, <1>8, <1>9 DEF RowRuleConditions
<1>12. /\ cond.outstanding_within_original # FALSE /\ cond.defaulted_carries_flag # FALSE
       /\ cond.past_due_has_days # FALSE /\ cond.provision_within_outstanding # FALSE
  BY <1>10 DEF RowRuleConditions
<1>13. DOMAIN cond = { "reporting_date_is_month_end", "outstanding_within_original",
                       "defaulted_carries_flag", "past_due_has_days", "defaulted_at_ninety_days",
                       "provision_within_outstanding", "provision_only_when_defaulted",
                       "default_date_when_defaulted", "maturity_after_origination" }
  BY DEF RowRuleConditions
<1> HIDE DEF cond
<1>14. \A name \in DOMAIN cond : cond[name] # FALSE
  BY <1>11, <1>12, <1>13
<1> QED  BY <1>14 DEF FailedRowRules, Violated, cond

\* Silver quarantines no row of the feed, and the engine contract takes every
\* row in scope at a month end (build_snapshot against the chain's rules).
THEOREM FeedIsTaken == FeedSpec => []FeedIsAcceptable
<1>1. ASSUME FeedState PROVE FeedIsAcceptable
  <2> DEFINE silver == Conform(row)
  <2> SUFFICES ASSUME row # Absent
               PROVE  /\ FailedSilverRules(silver) = {}
                      /\ (/\ MonthEnd(today) /\ loan.term_months \in {36, 60}
                          /\ Null \notin {loan.int_rate, loan.loan_amnt})
                            => \A r \in InScope({silver}) : SatisfiesInputContract(r, today)
    BY DEF FeedIsAcceptable
  <2>1. loan \in Master(RawLoans) /\ today \in 1..LastDay /\ row = ReportedRow(loan, today)
    BY <1>1, RowIs DEF FeedState
  <2>2. Figures(silver, loan, today)
    BY <2>1, ConformedFigures
  <2> HIDE DEF silver
  <2>3. FailedSilverRules(silver) = {}
    BY <2>1, <2>2, SilverTakes
  <2>4. ASSUME MonthEnd(today), loan.term_months \in {36, 60},
               Null \notin {loan.int_rate, loan.loan_amnt}, NEW r \in InScope({silver})
        PROVE  SatisfiesInputContract(r, today)
    <3>1. r = silver
      BY DEF InScope
    <3>2. Reportable(r, loan, today)
      BY <2>2, <2>4, <3>1 DEF Reportable
    <3> QED  BY <2>1, <3>2, FieldRulesHold, RowRulesHold DEF SatisfiesInputContract
  <2> QED  BY <2>3, <2>4
<1> QED  BY <1>1, SnapshotsFollowTheLoan, PTL
=============================================================================
