----------------------------- MODULE RwaEngine ------------------------------
(***************************************************************************)
(* The boundary with the vendor's RWA engine: what the mock engine         *)
(* computes for an engine input, what a misbehaving engine may return in   *)
(* its place, and the reconciliation rwa_output_job.py holds the return    *)
(* to.                                                                     *)
(*                                                                         *)
(* An output row keeps the columns the controls read.  `sound` stands for  *)
(* the rules of credit_risk_rwa_output.yaml over weight, RWA and capital.  *)
(***************************************************************************)
EXTENDS ExposureRules, FiniteSetsExt

CONSTANTS
    Dates,          \* the reporting dates
    EngineFaults    \* the ways in which the engine may misbehave, a subset of
                    \* AllEngineFaults; {} is the mock engine of the repository

AllEngineFaults == {"drop", "duplicate", "distort", "unsound", "shift", "redate"}

\* Exposure at default: the balance, net of provisions once defaulted.
Ead(r) ==
    IF r.status = "defaulted"
    THEN Max({r.outstanding_amount - r.provision_amount, 0})
    ELSE r.outstanding_amount

OutputRow(r, reporting_date) ==
    [ exposure_id    |-> r.exposure_id,
      copy           |-> r.copy,
      reporting_date |-> reporting_date,
      ead            |-> Ead(r),
      sound          |-> TRUE ]

RunEngine(input, reporting_date) == {OutputRow(r, reporting_date) : r \in input}

\* Replace row o of an output by row p.
Swap(out, o, p) == (out \ {o}) \cup {p}

(***************************************************************************)
(* What the engine may return in place of `out`, by fault.  The first four *)
(* are the ones the job's documentation names or its contract looks for:   *)
(* an exposure lost, an exposure returned twice, a figure distorted by     *)
(* more than the tolerance, a row whose RWA or capital does not follow     *)
(* from its EAD.  "shift" moves EAD from one exposure to another and       *)
(* "redate" returns an exposure under another reporting date.              *)
(***************************************************************************)
Misreturns(fault, out) ==
    CASE fault = "drop"      -> {out \ {o} : o \in out}
      [] fault = "duplicate" -> {out \cup {[o EXCEPT !.copy = @ + 1]} : o \in out}
      [] fault = "distort"   -> {Swap(out, o, [o EXCEPT !.ead = @ + 2]) : o \in out}
      [] fault = "unsound"   -> {Swap(out, o, [o EXCEPT !.sound = FALSE]) : o \in out}
      [] fault = "shift"     ->
            {Swap(Swap(out, pair[1], [pair[1] EXCEPT !.ead = @ - 2]),
                  pair[2], [pair[2] EXCEPT !.ead = @ + 2]) :
                pair \in {q \in out \X out : q[1] # q[2] /\ q[1].ead >= 2}}
      [] fault = "redate"    ->
            {Swap(out, od[1], [od[1] EXCEPT !.reporting_date = od[2]]) :
                od \in out \X Dates}

EngineReturns(input, reporting_date) ==
    LET out == RunEngine(input, reporting_date)
    IN  {out} \cup UNION {Misreturns(fault, out) : fault \in EngineFaults}

\* Contract.enforce for credit_risk_rwa_output.
SatisfiesOutputContract(o) == o.ead >= 0 /\ o.sound
OutputPassed(out)      == {o \in out : SatisfiesOutputContract(o)}
OutputQuarantined(out) == {o \in out : ~SatisfiesOutputContract(o)}
OutputKeys(out)        == {<<o.exposure_id, o.reporting_date>> : o \in out}

SentEad(input)   == MapThenSumSet(Ead, input)
ReturnedEad(out) == MapThenSumSet(LAMBDA o : o.ead, out)

ReconcilesTotalsOnly(input, out) ==    \* a slip: exposures are not counted
    SentEad(input) - ReturnedEad(out) \in -1..1

ReconcilesOneSided(input, out) ==      \* a slip: the difference keeps its sign
    /\ Cardinality(input) = Cardinality(out)
    /\ SentEad(input) - ReturnedEad(out) <= 1

\* The number of exposures must match and the totals may differ by at most 1.
Reconciles(input, out) ==
    /\ Cardinality(input) = Cardinality(out)
    /\ SentEad(input) - ReturnedEad(out) \in -1..1
=============================================================================
