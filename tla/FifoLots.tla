------------------------------ MODULE FifoLots -------------------------------
(***************************************************************************)
(* What a position is to the rest of the program: a queue of parcels, each *)
(* carried at the cost it was bought at.  Purchases join at the end, sales *)
(* consume from the front, and a split re-denominates every parcel where   *)
(* it stands.  PositionBook keeps immutable rows and must amount to this.  *)
(***************************************************************************)
EXTENDS Integers, Sequences

CONSTANTS Quantities, Costs, Ratios   (* Ratios: pairs <<num, den>>         *)

VARIABLE queue   (* sequence of [quantity, cost]                             *)

Init == queue = << >>

Buy == \E q \in Quantities, c \in Costs :
         queue' = Append(queue, [quantity |-> q, cost |-> c])

\* A sale takes the front parcels whole and then part of the next one.
Sell ==
  \E whole \in 0..Len(queue) :
    LET rest == SubSeq(queue, whole + 1, Len(queue)) IN
    \/ whole > 0 /\ queue' = rest
    \/ /\ rest # << >>
       /\ \E left \in 1..(rest[1].quantity - 1) :
            queue' = [rest EXCEPT ![1].quantity = left]

Split ==
  \E r \in Ratios :
    queue' = [k \in DOMAIN queue |->
                [quantity |-> (queue[k].quantity * r[1]) \div r[2],
                 cost |-> (queue[k].cost * r[2]) \div r[1]]]

Next == Buy \/ Sell \/ Split

Spec == Init /\ [][Next]_queue
=============================================================================
