-------------------------- MODULE RegulatoryFigure --------------------------
(***************************************************************************)
(* What the credit-risk chain promises its readers, without the jobs, the  *)
(* silver layer, the quarantines or the crashes.                           *)
(*                                                                         *)
(*   figure     the engine input in force for each reporting date          *)
(*   published  every engine input that was ever in force for that date    *)
(*   report     the RWA output in force for each reporting date            *)
(*                                                                         *)
(* A figure changes only by being replaced, whole and for one date, by a   *)
(* non-empty publishable one; it is never withdrawn.  A report changes     *)
(* only to the engine's calculation for an engine input that has been in   *)
(* force for that same date: it may lag behind the figure, and it is never *)
(* a calculation of anything else ("stale rather than wrong",              *)
(* docs/runbooks/contract-failures.md).                                    *)
(***************************************************************************)
CONSTANTS
    Dates,
    Rows,               \* the rows a figure is made of
    Publishable(_, _),  \* may these rows be published for this date?
    Calculated(_, _)    \* the engine's output for these rows and this date

VARIABLES figure, published, report

vars == <<figure, published, report>>

Init ==
    /\ figure    = [d \in Dates |-> {}]
    /\ published = [d \in Dates |-> {}]
    /\ report    = [d \in Dates |-> {}]

Publish(d) ==
    \E rows \in SUBSET Rows :
        /\ figure'    = [figure EXCEPT ![d] = rows]
        /\ rows # {}
        /\ Publishable(rows, d)
        /\ published' = [published EXCEPT ![d] = @ \cup {rows}]
        /\ UNCHANGED report

Report(d) ==
    \E rows \in published[d] :
        /\ report' = [report EXCEPT ![d] = Calculated(rows, d)]
        /\ UNCHANGED <<figure, published>>

Next == \E d \in Dates : Publish(d) \/ Report(d)

Spec == Init /\ [][Next]_vars
=============================================================================
