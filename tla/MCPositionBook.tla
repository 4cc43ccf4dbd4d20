--------------------------- MODULE MCPositionBook ---------------------------
(* Prices for the instances of PositionBook: one per instant, each divisible *)
(* by the splits an instance allows.                                         *)
EXTENDS PositionBook

Rising == [t \in 1..LAST |-> 4 * t]
Doubling == {<<2, 1>>}
=============================================================================
