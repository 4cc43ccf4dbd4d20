---------------------------- MODULE PositionBook -----------------------------
(***************************************************************************)
(* One position of one book under the calls a run makes of PositionBook:   *)
(* instants follow each other, a session's splits come before its fills,   *)
(* and a session sells at most what was held before its own purchases.     *)
(***************************************************************************)
EXTENDS Positions

CONSTANTS
  Quantities,     (* what one purchase may buy                               *)
  Costs,          (* unit costs, one per instant: prices move                *)
  Ratios,         (* split ratios <<num, den>>                               *)
  LAST,           (* bound: instants are 1..LAST                             *)
  MAX_BUYS,       (* bounds: calls of each kind                              *)
  MAX_SPLITS,
  MAX_SALES

ASSUME BoundsAssumption ==
  LAST \in Nat \ {0} /\ {MAX_BUYS, MAX_SPLITS, MAX_SALES} \subseteq Nat
ASSUME TradesAssumption ==
  /\ Quantities \subseteq Nat \ {0} /\ Costs \in [1..LAST -> Nat]
  /\ Ratios \subseteq (Nat \ {0}) \X (Nat \ {0})

VARIABLES
  rows,      (* position_events of this portfolio and instrument             *)
  held,      (* what open_lots answers now                                   *)
  now,       (* the session's cutoff                                         *)
  filling,   (* the session's corporate actions are behind it                *)
  calls      (* calls so far, by kind                                        *)

vars == <<rows, held, now, filling, calls>>

Init ==
  /\ rows = << >> /\ held = << >>
  /\ now = 1 /\ filling = FALSE
  /\ calls = [buys |-> 0, splits |-> 0, sales |-> 0]

Becomes(table, instant) == rows' = table /\ held' = open_lots(table, instant)

\* Every call carries a reference of its own.
NextRef == Len(rows)

\* Bound: a split that leaves parts of a unit or of a cost is not modelled.
Divides(r) ==
  \A n \in DOMAIN held :
    (held[n].quantity * r[1]) % r[2] = 0 /\ (held[n].cost * r[2]) % r[1] = 0

Split(r) ==
  /\ ~filling /\ held # << >> /\ Divides(r)
  /\ calls.splits < MAX_SPLITS /\ calls' = [calls EXCEPT !.splits = @ + 1]
  /\ Becomes(apply_split(rows, r[1], r[2], now, NextRef), now)
  /\ UNCHANGED <<now, filling>>

Buy(quantity) ==
  /\ calls.buys < MAX_BUYS /\ calls' = [calls EXCEPT !.buys = @ + 1]
  /\ Becomes(open_lot(rows, quantity, Costs[now], now, NextRef), now)
  /\ filling' = TRUE
  /\ UNCHANGED now

\* A purchase of the session is not the session's to sell: a sale was sized
\* when it was decided, on what was held then.
Sellable ==
  Total(Fold(Sift(rows, LAMBDA row : row.at < now \/ row.rank # OPEN)))

Sell(quantity) ==
  /\ calls.sales < MAX_SALES /\ calls' = [calls EXCEPT !.sales = @ + 1]
  /\ Becomes(close_quantity(rows, quantity, now, NextRef), now)
  /\ filling' = TRUE
  /\ UNCHANGED now

NextSession ==
  /\ now < LAST
  /\ now' = now + 1
  /\ filling' = FALSE
  /\ Becomes(rows, now + 1)
  /\ UNCHANGED calls

Next ==
  \/ \E r \in Ratios : Split(r)
  \/ \E q \in Quantities : Buy(q)
  \/ \E q \in 1..Sellable : Sell(q)
  \/ NextSession

Spec == Init /\ [][Next]_vars

-----------------------------------------------------------------------------
TypeOK ==
  /\ \A n \in DOMAIN rows : rows[n] \in
       [lot : Seq(Nat), at : 1..LAST, rank : 1..4,
        index : Nat, delta : Int, cost : Nat, ref : Nat]
  /\ now \in 1..LAST /\ filling \in BOOLEAN
  /\ calls \in [buys : 0..MAX_BUYS, splits : 0..MAX_SPLITS, sales : 0..MAX_SALES]

Queue == [n \in DOMAIN held |-> [quantity |-> held[n].quantity, cost |-> held[n].cost]]

Fifo == INSTANCE FifoLots WITH queue <- Queue, Costs <- {Costs[t] : t \in 1..LAST}

\* The rows implement a queue of parcels: what is sold first, and at what cost,
\* survives partial sales and splits (accounting/positions.py, apply_split:
\* merging lots "would preserve the total cost basis but destroy the FIFO
\* ordering").
ImplementsFifo == Fifo!Spec

\* A split changes how many units a holding is expressed in, never its cost.
SplitKeepsCostBasis ==
  [][calls'.splits # calls.splits => CostBasis(held') = CostBasis(held)]_vars
=============================================================================
