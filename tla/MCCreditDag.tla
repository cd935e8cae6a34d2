----------------------------- MODULE MCCreditDag ----------------------------
(***************************************************************************)
(* Model checking CreditDag.  Two months, a redelivery, a crash and a      *)
(* rerun are enough for a date to be processed, fixed and processed again  *)
(* with the other month's run in between, and for the crash to fall        *)
(* between any two writes of either attempt.                               *)
(***************************************************************************)
EXTENDS CreditDag, MCCreditData

MCDates      == {1, 2}
MCMonthEnds  == {1, 2}
MCSourceRows == {Good, Twin, Impaired, Early, Unknown, Settled, Negative}
MCNoFaults   == {}
\* A publishable delivery with a row quarantined at each layer, one that is
\* halted by its grain with a row in quarantine beside it, a clean one.
MCDeliveries == { {Good, Early, Settled, Negative}, {Good, Twin, Early}, {Impaired} }
\* Only deliveries that process cleanly, and the empty one.
MCEmptyToo   == { {Good}, {} }
MCUnknown    == { {Good, Unknown} }
=============================================================================
