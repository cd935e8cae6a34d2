------------------------------- MODULE Drift --------------------------------
(***************************************************************************)
(* Period-over-period drift of the credit book: drift.py with the measures *)
(* and the faults exp05_drift_monitor.py and exp06_missing_partition.py    *)
(* put it to.  It reports and never halts; what it is for is the fault the *)
(* contract cannot see because it leaves a dataset consistent with itself. *)
(***************************************************************************)
EXTENDS RwaEngine, ContractAssertions

CONSTANTS
    MaxQuarantinePct,        \* max_quarantine_pct of credit_risk_exposure_input
    MaxOutputQuarantinePct   \* max_quarantine_pct of credit_risk_rwa_output

\* period(): the engine input built from the rows silver holds for a date.
Period(book) == InScope(book)

\* F.sum skips Null, and over no value at all it is Null: `or 0`.
Total(book, field) ==
    MapThenSumSet(LAMBDA r : r[field], {r \in book : r[field] # Null})

Measure(book) == [ exposure_count    |-> Cardinality(book),
                   total_outstanding |-> Total(book, "outstanding_amount"),
                   total_original    |-> Total(book, "original_amount") ]

\* abs(after / before - 1) > 0.25, and everything is a move from nothing.
Moved(before, after) ==
    before = 0 \/ 4 * (after - before) > before \/ 4 * (before - after) > before

CompareMoves(previous, current) ==    \* a slip: no movement at all is no breach
    {<<name, "drift">> : name \in {m \in DOMAIN previous :
        previous[m] # current[m] /\ Moved(previous[m], current[m])}}

Compare(previous, current) ==
    {<<name, "unchanged">> : name \in {m \in DOMAIN previous : previous[m] = current[m]}}
    \cup
    {<<name, "drift">> : name \in {m \in DOMAIN previous :
        previous[m] # current[m] /\ Moved(previous[m], current[m])}}

\* exp05: one factor on every amount of the engine input.
MoneyFields == {"original_amount", "outstanding_amount", "provision_amount"}
Scaled(book, factor) ==
    {[f \in DOMAIN r |-> IF f \in MoneyFields /\ r[f] # Null THEN factor * r[f] ELSE r[f]]
        : r \in book}

\* Contract.enforce on a built engine input.
Accepted(book, date) == {r \in book : SatisfiesInputContract(r, date)}

InputFits(book, date) ==
    LET passed == Accepted(book, date)
    IN  DatasetFit(passed, book \ passed, {r.exposure_id : r \in passed}, MaxQuarantinePct)

\* exp06: the chain over a book, stage by stage, and where it stops.
OutcomesOf(book, date) ==
    {LET passed == OutputPassed(out)
         rest   == OutputQuarantined(out)
     IN  IF ~InputFits(book, date) THEN "input contract"
         ELSE IF ~DatasetFit(passed, rest, OutputKeys(passed), MaxOutputQuarantinePct)
              THEN "output contract"
         ELSE IF ~Reconciles(Accepted(book, date), passed) THEN "reconciliation"
         ELSE "published"
        : out \in EngineReturns(Accepted(book, date), date)}
=============================================================================
