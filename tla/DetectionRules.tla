--------------------------- MODULE DetectionRules ---------------------------
(***************************************************************************)
(* The detection rules that look at more than one transaction: structuring *)
(* and velocity, which count an account's in windows of event time.        *)
(*                                                                         *)
(* A rule reads a table, whose rows are in no order and of which repeats   *)
(* count: a function to rows from whatever tells two of them apart.  In a  *)
(* batch the watermark drops none.  An alert of a windowed rule is known   *)
(* by its window and account.  A window is numbered from the reference     *)
(* date, 2018-01-01, which F.window's grid need not meet: it starts at     *)
(* midnight of the epoch, and the date at that of the session.             *)
(***************************************************************************)
EXTENDS TxnRules, FiniteSetsExt

CONSTANTS
    Threshold,          \* structuring_rule: the report it tries to stay under,
    StructuringWindow,  \*   hours,
    MinCount,
    GridOffset,         \*   hours from the start of its window to the reference
    VelocityWindow,     \* velocity_rule: hours, sliding by one,
    CountThreshold,
    AmountThreshold

ASSUME RulesAssumption ==
    /\ {Threshold, StructuringWindow, VelocityWindow, CountThreshold, AmountThreshold}
          \subseteq Nat \ {0}
    /\ MinCount \in Nat \ {0, 1}    \* one transfer splits nothing
    /\ GridOffset \in 0..StructuringWindow - 1

Amounts(table, rows) == MapThenSumSet(LAMBDA i : table[i].amount, rows)
Keys(table, KeysOf(_)) == UNION {KeysOf(table[i]) : i \in DOMAIN table}

-----------------------------------------------------------------------------
\* Between BAND, four fifths, of the threshold and the threshold.
JustUnder(t) ==
    /\ Kept(IsIn(t.type, MonitoredTypes))
    /\ 5 * t.amount >= 4 * Threshold
    /\ t.amount < Threshold

TumblingWindow(t) == <<(t.step + GridOffset) \div StructuringWindow, t.name_orig>>

StructuringAlerts(table) ==
    {key \in Keys(table, LAMBDA t : {TumblingWindow(t)}) :
        LET rows == {i \in DOMAIN table : JustUnder(table[i]) /\ TumblingWindow(table[i]) = key}
        IN  Cardinality(rows) >= MinCount /\ Amounts(table, rows) >= Threshold}

-----------------------------------------------------------------------------
LatestWindow(t) == {<<t.step, t.name_orig>>}    \* a slip: windows do not overlap

\* The windows, known by their first hour, that an hour is in.
SlidingWindows(t) ==
    {<<first, t.name_orig>> : first \in t.step - VelocityWindow + 1..t.step}

VelocityRows(table, key) ==
    {i \in DOMAIN table : /\ Kept(IsIn(table[i].type, MonitoredTypes))
                          /\ key \in SlidingWindows(table[i])}

VelocityAlerts(table) ==
    {key \in Keys(table, SlidingWindows) :
        LET rows == VelocityRows(table, key)
        IN  \/ Cardinality(rows) >= CountThreshold
            \/ Amounts(table, rows) >= AmountThreshold}

-----------------------------------------------------------------------------
\* What the windowed rules are there to find, windows aside: an account's rows
\* in a stretch of hours from any one, those in the band, and too many of them.
Stretch(table, account, from, hours) ==
    {i \in DOMAIN table : table[i].name_orig = account /\ table[i].step \in from..from + hours - 1
                          /\ table[i].type \in MonitoredTypes}
Splits(table, account, from) ==
    {i \in Stretch(table, account, from, StructuringWindow) :
        table[i].amount < Threshold /\ 5 * table[i].amount >= 4 * Threshold}
Bursts(table, account, from) ==
    LET rows == Stretch(table, account, from, VelocityWindow)
    IN  \/ Cardinality(rows) >= CountThreshold
        \/ Amounts(table, rows) >= AmountThreshold

Flagged(account, alerts) == \E alert \in alerts : alert[2] = account
=============================================================================
