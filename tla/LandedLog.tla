------------------------------ MODULE LandedLog -----------------------------
(***************************************************************************)
(* What an exactly-once landing of a partitioned log promises: the table   *)
(* holds, of every partition, what was sent up to some offset - each       *)
(* message once, in order, none left out - and that offset only advances.  *)
(***************************************************************************)
EXTENDS Naturals, Sequences

CONSTANTS Partitions, Payloads

VARIABLES
    sent,      \* per partition, the messages sent
    landed     \* per partition, the messages the table holds, in its order

logVars == <<sent, landed>>

LogInit ==
    /\ sent   = [p \in Partitions |-> <<>>]
    /\ landed = [p \in Partitions |-> <<>>]

Send(p, m) ==
    /\ sent' = [sent EXCEPT ![p] = Append(@, m)]
    /\ UNCHANGED landed

\* Of every partition, some of what was sent and has not landed yet, lands.
Land ==
    /\ DOMAIN landed' = Partitions
    /\ \A p \in Partitions : \E n \in Len(landed[p])..Len(sent[p]) :
          landed'[p] = SubSeq(sent[p], 1, n)
    /\ UNCHANGED sent

LogNext == Land \/ \E p \in Partitions, m \in Payloads : Send(p, m)

LogSpec == LogInit /\ [][LogNext]_logVars
=============================================================================
