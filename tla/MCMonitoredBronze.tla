-------------------------- MODULE MCMonitoredBronze -------------------------
(***************************************************************************)
(* Model checking MonitoredBronze over two month ends.  Deliveries tell    *)
(* apart the ways two extracts of a date may compare: the same names and   *)
(* sizes with other contents, another size, a file less.                   *)
(***************************************************************************)
EXTENDS MonitoredBronze, MCCreditData, TLC

File(size, rows) == [size |-> size, rows |-> rows]

Owing(id, amount) == [Performing(id, 0) EXCEPT !.outstanding_amount = amount]

Whole    == (1 :> File(2, {Good, Owing("e7", 4)})) @@ (2 :> File(3, {Impaired, Unknown}))
Restated == (1 :> File(2, {Good, Owing("e7", 6), Early}))
              @@ (2 :> File(3, {Impaired, Twin, Settled, Owing("e4", 5)}))
Single   == (1 :> File(4, {Good, Owing("e8", 1)}))

MCMonitored == {Whole, Restated, Single}
=============================================================================
