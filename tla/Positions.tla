------------------------------ MODULE Positions ------------------------------
(***************************************************************************)
(* accounting/positions.py: a position is a table of immutable rows, and   *)
(* its open lots are what replaying the rows leaves behind.                *)
(*                                                                         *)
(* A table is the sequence its query returns, ORDER BY occurred_at,        *)
(* sequence; rows that tie stay in the order they were inserted.  A lot is *)
(* named by the references that made it: the order that opened it, then    *)
(* every split that re-denominated it.  Quantities are counted in the      *)
(* smallest unit of an instrument, and costs are whole; a split's ratio is *)
(* num/den and divides them exactly.                                       *)
(***************************************************************************)
EXTENDS Sifting

(* _SEQUENCE_RANK: the order of a cycle's steps within its instant.          *)
SPLIT_OUT == 1
SPLIT_IN == 2
UNRANKED == 0
CLOSE == 3
OPEN == 4

(***************************************************************************)
(* The sequence column is text, "<rank>-<reason>-<index>", and is compared *)
(* as text: 10 comes between 1 and 2.  Below 100, comparing two indices as *)
(* text is comparing these numbers.                                        *)
(***************************************************************************)
TextOrder(index) == IF index < 10 THEN 11 * index
                    ELSE 11 * (index \div 10) + 1 + (index % 10)

Key(row) == (row.at * 5 + row.rank) * 1000 + TextOrder(row.index)

Inserted(table, row) ==
  Append(Sift(table, LAMBDA other : Key(other) <= Key(row)), row)
    \o Sift(table, LAMBDA other : Key(other) > Key(row))

(* _append: a row that is already there is not added again.                  *)
Insert(table, row) == IF Contains(table, row) THEN table ELSE Inserted(table, row)
Added(table, new) == FoldLeft(Insert, table, new)

AsOf(table, instant) == Sift(table, LAMBDA row : row.at <= instant)

(* _fold: rows find their lot by its name; a lot takes its place and its     *)
(* cost from its first row, and one without a positive quantity is dropped.  *)
Replayed(lots, row) ==
  IF \E n \in DOMAIN lots : lots[n].lot = row.lot
  THEN LET n == CHOOSE n \in DOMAIN lots : lots[n].lot = row.lot
       IN  [lots EXCEPT ![n].quantity = @ + row.delta]
  ELSE Append(lots, [lot |-> row.lot, quantity |-> row.delta, cost |-> row.cost])

Lots(table) == FoldLeft(Replayed, << >>, table)

Fold(table) == Sift(Lots(table), LAMBDA lot : lot.quantity > 0)

open_lots(table, instant) == Fold(AsOf(table, instant))

Total(lots) == SumFunction([n \in DOMAIN lots |-> lots[n].quantity])
CostBasis(lots) == SumFunction([n \in DOMAIN lots |-> lots[n].quantity * lots[n].cost])

quantity_of(table, instant) == Total(open_lots(table, instant))

(* The lots a sale of quantity consumes, in the order given, each with the   *)
(* part it gives.                                                            *)
Take(acc, lot) ==
  LET part == IF lot.quantity <= acc.remaining THEN lot.quantity ELSE acc.remaining
  IN  IF acc.remaining <= 0 THEN acc
      ELSE [remaining |-> acc.remaining - part,
            taken |-> Append(acc.taken, [lot EXCEPT !.quantity = part])]
TakenFrom(lots, quantity) ==
  FoldLeft(Take, [remaining |-> quantity, taken |-> << >>], lots).taken

ConsumedNewestFirst(lots, quantity) == TakenFrom(Reverse(lots), quantity)
Consumed(lots, quantity) == TakenFrom(lots, quantity)

RowFor(lot, at, rank, index, ref) ==
  [lot |-> lot.lot, at |-> at, rank |-> rank, index |-> index,
   delta |-> lot.quantity, cost |-> lot.cost, ref |-> ref]

Negated(lot) == [lot EXCEPT !.quantity = -@]

open_lot(table, quantity, unit_cost, at, ref) ==
  Added(table, <<RowFor([lot |-> <<ref>>, quantity |-> quantity, cost |-> unit_cost],
                        at, OPEN, 0, ref)>>)

(* The caller checks that no more is closed than is open.                    *)
close_quantity(table, quantity, at, ref) ==
  LET taken == Consumed(open_lots(table, at), quantity)
  IN  Added(table, [n \in DOMAIN taken |->
                      RowFor(Negated(taken[n]), at, CLOSE, n - 1, ref)])

(* num/den as many units, at den/num of the cost.                            *)
SplitKeepingCost(lot, num, den, ref) ==
  [lot |-> Append(lot.lot, ref), quantity |-> (lot.quantity * num) \div den,
   cost |-> lot.cost]
SplitLot(lot, num, den, ref) ==
  [lot |-> Append(lot.lot, ref), quantity |-> (lot.quantity * num) \div den,
   cost |-> (lot.cost * den) \div num]

(* Every open lot is closed and reopened on its own.                         *)
apply_split(table, num, den, at, ref) ==
  LET lots == open_lots(table, at)
      Out == [n \in DOMAIN lots |-> RowFor(Negated(lots[n]), at, SPLIT_OUT, n - 1, ref)]
      In == [n \in DOMAIN lots |->
               RowFor(SplitLot(lots[n], num, den, ref), at, SPLIT_IN, n - 1, ref)]
  IN  Added(Added(table, Out), In)
=============================================================================
