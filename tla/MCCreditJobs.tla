---------------------------- MODULE MCCreditJobs ----------------------------
(***************************************************************************)
(* Model checking CreditJobs: two run slots and one reporting date, so     *)
(* that runs of any two jobs, or of one job with itself, interleave at     *)
(* every write.  The quarantine limit is raised from the contract's 1% to  *)
(* 50%, so that a set of two or three rows can be published with a         *)
(* quarantined row beside it as well as be stopped by one too many.  The   *)
(* provisioned exposure beside a good one has an EAD of zero: lost by the  *)
(* engine, only the count tells.                                           *)
(***************************************************************************)
EXTENDS CreditJobs, MCCreditData, TLC

MCDates     == {1}
MCMonthEnds == {1}
MCSourceRows == {Good, Twin, Impaired, Early, Unknown, Settled, Negative}
MCDeliveries == { {Good, Early, Unknown},
                  {Good, Impaired, Settled},
                  {Early, Negative},
                  {Good, Twin} }
SlotSymmetry == Permutations(Slots)
MCFaults     == {"drop", "duplicate", "distort", "unsound"}

\* No action and no property of this run reads a quarantine table, so states
\* that differ in these alone have the same futures.
MCView == <<bronze, silver, gold, rwa, published, run>>
=============================================================================
