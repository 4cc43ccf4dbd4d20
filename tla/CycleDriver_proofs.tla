-------------------------- MODULE CycleDriver_proofs --------------------------
(***************************************************************************)
(* For any world, policy, calendar and decisions, and however often a run  *)
(* is interrupted and started again: the rows of a book stay what they     *)
(* are, and what the book owes and is owed is its unsettled fills.  And    *)
(* as long as a run is the first, what the ledger carries an instrument at *)
(* is what its open lots cost, and a dividend was paid to who held the     *)
(* instrument the session before.  Where settlement takes a session, the   *)
(* model answers and actions fall on what is held, a run that is started   *)
(* again repeats nothing, its books are those of a run that never was      *)
(* stopped, and a replay of them diverges nowhere.                         *)
(***************************************************************************)
EXTENDS Replay, Order_proofs

\* What is proved of tables of rows there is proved of any table, whatever the
\* parameters of the one position that is specified there.
Table == INSTANCE PositionBook_proofs WITH
  Quantities <- {}, Costs <- [t \in 1..1 |-> 0], Ratios <- {},
  LAST <- 1, MAX_BUYS <- 0, MAX_SPLITS <- 0, MAX_SALES <- 0,
  rows <- << >>, held <- << >>, now <- 1, filling <- FALSE,
  calls <- [buys |-> 0, splits |-> 0, sales |-> 0]

Side == {"BUY", "SELL"}
Id == Session \X Instrument \X Side

Row == [lot : Seq(Nat), at : Nat, rank : Nat, index : Nat, delta : Int, cost : Nat, ref : Nat]
OpenLot == [lot : Seq(Nat), quantity : Nat \ {0}, cost : Nat]

IsTable(table) == table \in Seq(Row)

-----------------------------------------------------------------------------
(* Tables of rows, and the lots they leave behind: the operators here are    *)
(* those that the facts there are about.                                     *)

LEMMA SameRows == Row = Table!Row /\ Seq(Row) = Table!Tables /\ OpenLot = Table!OpenLot
BY DEF Row, OpenLot, Table!Row, Table!OpenLot, Table!Tables

LEMMA SameChosen == \A s, kept : Chosen(s, kept) = Table!Chosen(s, kept)
<1>1. \A s : Cardinality(s) = Table!Cardinality(s)
  BY DEF Cardinality, IsFiniteSet, Table!Cardinality, Table!IsFiniteSet
<1>2. \A s, n : Nth(s, n) = Table!Nth(s, n)
  BY <1>1 DEF Nth, Table!Nth
<1> QED
  BY <1>1, <1>2 DEF Chosen, Table!Chosen

LEMMA SameMax == \A s : Max(s) = Table!Max(s)
BY DEF Max, Table!Max

LEMMA SameFold ==
  /\ \A table : Fold(table) = Table!Fold(table)
  /\ \A table, instant : open_lots(table, instant) = Table!open_lots(table, instant)
<1>1. \A lots, row : Replayed(lots, row) = Table!Replayed(lots, row)
  BY DEF Replayed, Table!Replayed
<1>2. \A table : Lots(table) = Table!Lots(table)
  BY <1>1, SameMax DEF Lots, FoldLeft, MapThenFoldSet,
                       Table!Lots, Table!FoldLeft, Table!MapThenFoldSet
<1>3. \A table : Fold(table) = Table!Fold(table)
  BY <1>2, SameChosen DEF Fold, Sift, Table!Fold, Table!Sift
<1>4. \A table, instant : AsOf(table, instant) = Table!AsOf(table, instant)
  BY SameChosen DEF AsOf, Sift, Table!AsOf, Table!Sift
<1> QED
  BY <1>3, <1>4 DEF open_lots, Table!open_lots

LEMMA SameBasis == \A lots : CostBasis(lots) = Table!CostBasis(lots)
BY DEF CostBasis, SumFunction, SumFunctionOnSet, FoldFunctionOnSet, MapThenFoldSet,
       Table!CostBasis, Table!SumFunction, Table!SumFunctionOnSet,
       Table!FoldFunctionOnSet, Table!MapThenFoldSet

LEMMA SameConsumed == \A lots, quantity : Consumed(lots, quantity) = Table!Consumed(lots, quantity)
<1>1. \A acc, lot : Take(acc, lot) = Table!Take(acc, lot)
  BY DEF Take, Table!Take
<1> QED
  BY <1>1, SameMax DEF Consumed, TakenFrom, FoldLeft, MapThenFoldSet,
                       Table!Consumed, Table!TakenFrom, Table!FoldLeft, Table!MapThenFoldSet

LEMMA SameAdded == \A table, new : Added(table, new) = Table!Added(table, new)
<1>1. \A table, row : Insert(table, row) = Table!Insert(table, row)
  BY SameChosen DEF Insert, Inserted, Contains, Sift, Key, TextOrder,
       Table!Insert, Table!Inserted, Table!Contains, Table!Sift, Table!Key, Table!TextOrder
<1> QED
  BY <1>1, SameMax DEF Added, FoldLeft, MapThenFoldSet,
                       Table!Added, Table!FoldLeft, Table!MapThenFoldSet

LEMMA SameOperations ==
  /\ \A table, quantity, cost, at, ref :
       open_lot(table, quantity, cost, at, ref) = Table!open_lot(table, quantity, cost, at, ref)
  /\ \A table, quantity, at, ref :
       close_quantity(table, quantity, at, ref) = Table!close_quantity(table, quantity, at, ref)
  /\ \A table, num, den, at, ref :
       apply_split(table, num, den, at, ref) = Table!apply_split(table, num, den, at, ref)
<1>1. \A lot, at, rank, index, ref : RowFor(lot, at, rank, index, ref) = Table!RowFor(lot, at, rank, index, ref)
  BY DEF RowFor, Table!RowFor
<1>2. \A lot : Negated(lot) = Table!Negated(lot)
  BY DEF Negated, Table!Negated
<1>3. \A lot, num, den, ref : SplitLot(lot, num, den, ref) = Table!SplitLot(lot, num, den, ref)
  BY DEF SplitLot, Table!SplitLot
<1>4. /\ OPEN = Table!OPEN /\ CLOSE = Table!CLOSE
      /\ SPLIT_OUT = Table!SPLIT_OUT /\ SPLIT_IN = Table!SPLIT_IN
  BY DEF OPEN, CLOSE, SPLIT_OUT, SPLIT_IN, Table!OPEN, Table!CLOSE, Table!SPLIT_OUT, Table!SPLIT_IN
<1>5. \A table, quantity, cost, at, ref :
        open_lot(table, quantity, cost, at, ref) = Table!open_lot(table, quantity, cost, at, ref)
  BY <1>1, <1>4, SameAdded DEF open_lot, Table!open_lot
<1>6. \A table, quantity, at, ref :
        close_quantity(table, quantity, at, ref) = Table!close_quantity(table, quantity, at, ref)
  BY <1>1, <1>2, <1>4, SameAdded, SameFold, SameConsumed DEF close_quantity, Table!close_quantity
<1>7. \A table, num, den, at, ref :
        apply_split(table, num, den, at, ref) = Table!apply_split(table, num, den, at, ref)
  BY <1>1, <1>2, <1>3, <1>4, SameAdded, SameFold DEF apply_split, Table!apply_split
<1> QED
  BY <1>5, <1>6, <1>7

LEMMA AddedFits ==
  ASSUME NEW table, IsTable(table), NEW new \in Seq(Row)
  PROVE  IsTable(Added(table, new))
<1>1. table \in Table!Tables /\ new \in Seq(Table!Row)
  BY SameRows DEF IsTable
<1>2. Table!Added(table, new) \in Table!Tables
  BY <1>1, Table!AddedIs
<1> QED
  BY <1>2, SameRows, SameAdded DEF IsTable

\* Only lots with units left are open.
LEMMA OpenLotsAre ==
  ASSUME NEW table, IsTable(table), NEW instant
  PROVE  open_lots(table, instant) \in Seq(OpenLot)
<1> DEFINE Known == {k \in DOMAIN table : table[k].at <= instant}
           known == Chosen(table, Known)
<1>1. known \in Seq(Row) /\ AsOf(table, instant) = known
  <2>1. table \in Seq(Row) /\ Known \in SUBSET DOMAIN table
    BY DEF IsTable
  <2>2. AsOf(table, instant) = known
    BY DEF AsOf, Sift
  <2> HIDE DEF Known
  <2> QED
    BY <2>1, <2>2, ChosenIs
<1> HIDE DEF known
<1>2. known \in Table!Tables /\ Table!Fold(known) = Fold(known)
  BY <1>1, SameRows, SameFold
<1>3. Table!Fold(known) \in Seq(Table!OpenLot)
  BY <1>2, Table!OpenFacts
<1> QED
  BY <1>1, <1>2, <1>3, SameRows DEF open_lots

\* A holding is a number of units.
LEMMA QuantityIs ==
  ASSUME NEW table, IsTable(table), NEW instant
  PROVE  quantity_of(table, instant) \in Nat
<1> DEFINE lots == open_lots(table, instant)
           f == [n \in DOMAIN lots |-> lots[n].quantity]
<1>1. PICK N \in Nat : DOMAIN lots = 1..N /\ \A n \in 1..N : lots[n] \in OpenLot
  <2>1. lots \in Seq(OpenLot)
    BY OpenLotsAre
  <2> HIDE DEF lots
  <2>2. Len(lots) \in Nat /\ DOMAIN lots = 1..Len(lots)
        /\ \A n \in 1..Len(lots) : lots[n] \in OpenLot
    BY <2>1
  <2> QED
    BY <2>2
<1>2. quantity_of(table, instant) = SumFunction(f)
  BY DEF quantity_of, Total
<1> HIDE DEF lots
<1>3. IsFiniteSet(DOMAIN f) /\ \A n \in DOMAIN f : f[n] \in Nat
  BY <1>1, FS_Interval DEF OpenLot
<1> HIDE DEF f
<1> QED
  BY <1>2, <1>3, SumsNat

\* What a sale takes of the lots are parts of them.
LEMMA ConsumedIs ==
  ASSUME NEW lots \in Seq(OpenLot), NEW quantity \in Nat
  PROVE  Consumed(lots, quantity) \in Seq(OpenLot)
<1>1. Table!Consumed(lots, quantity) \in Seq(Table!OpenLot)
  BY SameRows, Table!TakenIs
<1> QED
  BY <1>1, SameRows, SameConsumed

\* The rows of lots make a list of rows.
LEMMA RowsAre ==
  ASSUME NEW lots, NEW n \in Nat, DOMAIN lots = 1..n, NEW f,
         f = [k \in DOMAIN lots |-> f[k]], \A k \in DOMAIN lots : f[k] \in Row
  PROVE  f \in Seq(Row)
OBVIOUS

\* Every operation of a position adds rows of its own instant to the table.
AddsRows(next, table, at) ==
  \E new \in Seq(Row) : next = Added(table, new) /\ \A n \in DOMAIN new : new[n].at = at

LEMMA AddsFit ==
  ASSUME NEW table, IsTable(table), NEW at, NEW next, AddsRows(next, table, at)
  PROVE  IsTable(next)
BY AddedFits DEF AddsRows

LEMMA OpenAdds ==
  ASSUME NEW table, NEW quantity, quantity \in Int,
         NEW unit_cost, unit_cost \in Nat, NEW at, at \in Nat, NEW ref, ref \in Nat
  PROVE  AddsRows(open_lot(table, quantity, unit_cost, at, ref), table, at)
<1> DEFINE row == RowFor([lot |-> <<ref>>, quantity |-> quantity, cost |-> unit_cost], at, OPEN, 0, ref)
<1>1. row \in Row /\ row.at = at
  BY DEF RowFor, Row, OPEN
<1> HIDE DEF row
<1>2. <<row>> \in Seq(Row) /\ \A n \in DOMAIN <<row>> : <<row>>[n].at = at
  BY <1>1
<1>3. open_lot(table, quantity, unit_cost, at, ref) = Added(table, <<row>>)
  BY DEF open_lot, row
<1> QED
  BY <1>2, <1>3 DEF AddsRows

Lot == [lot : Seq(Nat), quantity : Int, cost : Nat]

LEMMA NegatedIs == ASSUME NEW lot \in OpenLot PROVE Negated(lot) \in Lot
BY DEF Negated, OpenLot, Lot

LEMMA CloseAdds ==
  ASSUME NEW table, IsTable(table), NEW quantity \in Nat,
         NEW at, at \in Nat, NEW ref, ref \in Nat
  PROVE  AddsRows(close_quantity(table, quantity, at, ref), table, at)
<1> DEFINE taken == Consumed(open_lots(table, at), quantity)
           f == [n \in DOMAIN taken |-> RowFor(Negated(taken[n]), at, CLOSE, n - 1, ref)]
<1>1. taken \in Seq(OpenLot)
  <2>1. open_lots(table, at) \in Seq(OpenLot)
    BY OpenLotsAre
  <2> QED
    BY <2>1, ConsumedIs
<1>2. close_quantity(table, quantity, at, ref) = Added(table, f)
  BY DEF close_quantity
<1> HIDE DEF taken
<1>3. PICK n \in Nat : DOMAIN taken = 1..n
  <2>1. Len(taken) \in Nat /\ DOMAIN taken = 1..Len(taken)
    BY <1>1
  <2> QED
    BY <2>1
<1>4. ASSUME NEW k \in DOMAIN taken PROVE f[k] \in Row /\ f[k].at = at
  <2>1. taken[k] \in OpenLot /\ k - 1 \in Nat
    BY <1>1, <1>3
  <2>2. Negated(taken[k]) \in Lot
    BY <2>1, NegatedIs
  <2> QED
    BY <2>1, <2>2 DEF RowFor, Row, Lot, CLOSE
<1>5. f = [k \in DOMAIN taken |-> f[k]] /\ DOMAIN f = DOMAIN taken
  OBVIOUS
<1> HIDE DEF f
<1>6. f \in Seq(Row)
  BY <1>3, <1>4, <1>5, RowsAre
<1> QED
  BY <1>2, <1>4, <1>5, <1>6 DEF AddsRows

LEMMA SplitAdds ==
  ASSUME NEW table, IsTable(table), NEW num \in Nat \ {0}, NEW den \in Nat \ {0},
         NEW at \in Nat, NEW ref \in Nat
  PROVE  \E mid : /\ AddsRows(mid, table, at)
                  /\ AddsRows(apply_split(table, num, den, at, ref), mid, at)
<1> DEFINE lots == open_lots(table, at)
           out == [n \in DOMAIN lots |-> RowFor(Negated(lots[n]), at, SPLIT_OUT, n - 1, ref)]
           in == [n \in DOMAIN lots |->
                    RowFor(SplitLot(lots[n], num, den, ref), at, SPLIT_IN, n - 1, ref)]
<1>1. lots \in Seq(OpenLot)
  BY OpenLotsAre
<1>2. apply_split(table, num, den, at, ref) = Added(Added(table, out), in)
  BY DEF apply_split
<1> HIDE DEF lots
<1>3. PICK n \in Nat : DOMAIN lots = 1..n
  <2>1. Len(lots) \in Nat /\ DOMAIN lots = 1..Len(lots)
    BY <1>1
  <2> QED
    BY <2>1
<1>4. ASSUME NEW k \in DOMAIN lots
      PROVE  out[k] \in Row /\ in[k] \in Row /\ out[k].at = at /\ in[k].at = at
  <2>1. lots[k] \in OpenLot /\ k - 1 \in Nat
    BY <1>1, <1>3
  <2>2. Negated(lots[k]) \in Lot
    BY <2>1, NegatedIs
  <2>3. SplitLot(lots[k], num, den, ref) \in Lot
    <3> DEFINE l == lots[k]
    <3>1. l.lot \in Seq(Nat) /\ l.quantity \in Nat /\ l.cost \in Nat
      BY <2>1 DEF OpenLot
    <3> HIDE DEF l
    <3>2. l.quantity * num \in Int /\ l.cost * den \in Nat
      BY <3>1
    <3>3. (l.quantity * num) \div den \in Int
      BY <3>2
    <3>4. (l.cost * den) \div num \in Nat
      BY <3>2
    <3>5. Append(l.lot, ref) \in Seq(Nat)
      BY <3>1
    <3> QED
      BY <3>3, <3>4, <3>5 DEF SplitLot, Lot, l
  <2> QED
    BY <2>1, <2>2, <2>3 DEF RowFor, Row, Lot, SPLIT_OUT, SPLIT_IN
<1>5. /\ out = [k \in DOMAIN lots |-> out[k]] /\ in = [k \in DOMAIN lots |-> in[k]]
      /\ DOMAIN out = DOMAIN lots /\ DOMAIN in = DOMAIN lots
  OBVIOUS
<1> HIDE DEF out, in
<1>6. out \in Seq(Row) /\ in \in Seq(Row)
  BY <1>3, <1>4, <1>5, RowsAre
<1>7. AddsRows(Added(table, out), table, at) /\ AddsRows(Added(Added(table, out), in), Added(table, out), at)
  BY <1>4, <1>5, <1>6 DEF AddsRows
<1> QED
  BY <1>2, <1>7

-----------------------------------------------------------------------------
(* The ledger, and what its transactions say of the accounts that matter. *)

Counted == {Cash, Payable, Receivable}
IsWhole(t) == \A account \in Counted : Amount(t, account) \in Int

LEMMA AccountsDiffer ==
  /\ Cash # Payable /\ Cash # Receivable /\ Payable # Receivable
  /\ \A account \in Counted : /\ account # Fees /\ account # OpeningEquity
                              /\ account # DividendIncome /\ account # RealizedPnl
                              /\ \A i : account # Position(i)
BY DEF Counted, Cash, Payable, Receivable, Fees, OpeningEquity, DividendIncome, RealizedPnl, Position

\* The amount of an account is that of its posting, if it has one.
LEMMA AmountIs ==
  ASSUME NEW t, NEW account
  PROVE  /\ (\A leg \in t.postings : leg.account # account) => Amount(t, account) = 0
         /\ \A leg \in t.postings :
              leg.account = account /\ (\A l \in t.postings : l.account = account => l = leg)
                => Amount(t, account) = leg.amount
<1> DEFINE legs == {posting \in t.postings : posting.account = account}
<1>1. Amount(t, account) = IF legs = {} THEN 0 ELSE (CHOOSE leg \in legs : TRUE).amount
  BY DEF Amount
<1>2. (\A leg \in t.postings : leg.account # account) => legs = {}
  OBVIOUS
<1>3. ASSUME NEW leg \in t.postings, leg.account = account,
             \A l \in t.postings : l.account = account => l = leg
      PROVE  Amount(t, account) = leg.amount
  <2>1. legs # {} /\ \A l \in legs : l = leg
    BY <1>3
  <2>2. (CHOOSE l \in legs : TRUE) \in legs
    BY <2>1
  <2> HIDE DEF legs
  <2> QED
    BY <1>1, <2>1, <2>2
<1> HIDE DEF legs
<1> QED
  BY <1>1, <1>2, <1>3

LEMMA PostingIs ==
  ASSUME NEW account, NEW amount
  PROVE  Posting(account, amount).account = account /\ Posting(account, amount).amount = amount
BY DEF Posting

\* A transaction says of an account what its one posting to it says.
LEMMA PostingSays ==
  ASSUME NEW t, NEW account, NEW amount, Posting(account, amount) \in t.postings,
         \A l \in t.postings : l = Posting(account, amount) \/ l.account # account
  PROVE  Amount(t, account) = amount
BY PostingIs, AmountIs

LEMMA OneCounts ==
  ASSUME NEW t, NEW account \in Counted, NEW leg \in t.postings, leg.account = account,
         \A l \in t.postings : l = leg \/ l.account \notin Counted
  PROVE  /\ Amount(t, account) = leg.amount
         /\ \A other \in Counted : other # account => Amount(t, other) = 0
         /\ leg.amount \in Int => IsWhole(t)
<1>1. Amount(t, account) = leg.amount
  <2>1. \A l \in t.postings : l.account = account => l = leg
    OBVIOUS
  <2> QED
    BY <2>1, AmountIs
<1>2. ASSUME NEW other \in Counted, other # account PROVE Amount(t, other) = 0
  <2>1. \A l \in t.postings : l.account # other
    BY <1>2
  <2> QED
    BY <2>1, AmountIs
<1> QED
  BY <1>1, <1>2 DEF IsWhole

\* The same of a transaction that has two of them.
LEMMA TwoCount ==
  ASSUME NEW t, NEW account \in Counted, NEW leg \in t.postings, leg.account = account,
         account # Cash, NEW cash \in t.postings, cash.account = Cash,
         leg.amount \in Int, cash.amount \in Int,
         \A l \in t.postings : l = leg \/ l = cash
  PROVE  /\ IsWhole(t) /\ Amount(t, account) = leg.amount
         /\ \A other \in Counted : other # account /\ other # Cash => Amount(t, other) = 0
<1>1. Amount(t, account) = leg.amount
  <2>1. \A l \in t.postings : l.account = account => l = leg
    OBVIOUS
  <2> QED
    BY <2>1, AmountIs
<1>2. Amount(t, Cash) = cash.amount
  <2>1. \A l \in t.postings : l.account = Cash => l = cash
    OBVIOUS
  <2> QED
    BY <2>1, AmountIs
<1>3. ASSUME NEW other \in Counted, other # account, other # Cash PROVE Amount(t, other) = 0
  <2>1. \A l \in t.postings : l.account # other
    BY <1>3
  <2> QED
    BY <2>1, AmountIs
<1> QED
  BY <1>1, <1>2, <1>3 DEF IsWhole

\* A balance is a sum, and grows by what a new transaction says.
LEMMA BalanceIs ==
  ASSUME NEW b, IsFiniteSet(b.ledger), NEW account, \A t \in b.ledger : Amount(t, account) \in Int,
         NEW asOf
  PROVE  Balance(b, account, asOf) \in Int
<1> DEFINE known == {t \in b.ledger : t.at <= asOf}
           f == [t \in known |-> Amount(t, account)]
<1>1. IsFiniteSet(known)
  BY FS_Subset
<1>2. Balance(b, account, asOf) = SumFunction(f)
  BY DEF Balance
<1> HIDE DEF known
<1>3. DOMAIN f = known
  OBVIOUS
<1>4. \A t \in known : f[t] \in Int
  BY DEF known
<1> HIDE DEF f
<1> QED
  BY <1>1, <1>2, <1>3, <1>4, Sums

LEMMA BalanceGrows ==
  ASSUME NEW b, IsFiniteSet(b.ledger), NEW account, \A t \in b.ledger : Amount(t, account) \in Int,
         NEW asOf, NEW new, new \notin b.ledger, new.at <= asOf, Amount(new, account) \in Int,
         NEW c, c.ledger = b.ledger \cup {new}
  PROVE  Balance(c, account, asOf) = Amount(new, account) + Balance(b, account, asOf)
<1> DEFINE known == {t \in b.ledger : t.at <= asOf}
           knownLater == {t \in c.ledger : t.at <= asOf}
           f == [t \in knownLater |-> Amount(t, account)]
           g == [t \in known |-> Amount(t, account)]
<1>1. IsFiniteSet(known) /\ knownLater = known \cup {new} /\ new \notin known
  BY FS_Subset
<1>2. Balance(b, account, asOf) = SumFunction(g) /\ Balance(c, account, asOf) = SumFunction(f)
  BY DEF Balance
<1>3. \A t \in known \cup {new} : Amount(t, account) \in Int
  OBVIOUS
<1> HIDE DEF known, knownLater
<1>4. /\ DOMAIN f = known \cup {new} /\ f[new] = Amount(new, account)
      /\ \A t \in known \cup {new} : f[t] \in Int
      /\ g = [t \in DOMAIN f \ {new} |-> f[t]]
  BY <1>1, <1>3
<1> HIDE DEF f, g
<1>5. IsFiniteSet(DOMAIN f) /\ (\A t \in DOMAIN f : f[t] \in Int) /\ new \in DOMAIN f
  BY <1>1, <1>4, FS_AddElement
<1>6. SumFunction(f) = f[new] + SumFunction([t \in DOMAIN f \ {new} |-> f[t]])
  BY <1>5, Sums
<1> QED
  BY <1>2, <1>4, <1>6

-----------------------------------------------------------------------------
(* Books. *)

Order == [decided : Session, instrument : Instrument, side : Side, quantity : Nat, due : Nat]
FilledRow == [order : Id, side : Side, gross : Nat, fee : Nat, at : Session, settles : Nat]

IsBook(b) ==
  b = [orders |-> b.orders, fills |-> b.fills, settled |-> b.settled,
       rejections |-> b.rejections, ledger |-> b.ledger, claims |-> b.claims, lots |-> b.lots]

Unsettled(b, side) == {fill \in b.fills : fill.side = side /\ fill.order \notin b.settled}
Owes(b) == SumFunction([fill \in Unsettled(b, "BUY") |-> fill.gross + fill.fee])
IsOwed(b) == SumFunction([fill \in Unsettled(b, "SELL") |-> fill.gross - fill.fee])

OrdersFit(b) == \A order \in b.orders : order \in Order /\ order.due > order.decided
FillsFit(b) ==
  /\ IsFiniteSet(b.fills) /\ b.fills \in SUBSET FilledRow
  /\ \A fill, other \in b.fills : fill.order = other.order => fill = other
  /\ \A id \in b.settled : Filled(b, id)

FillTypes == {"BUY_FILL", "SELL_FILL"}
SettlementTypes == {"BUY_SETTLEMENT", "SELL_SETTLEMENT"}

\* What makes a fill and its settlement new when they are posted: the ledger has
\* none of an order that is not filled, or not settled.
LedgerFits(b) ==
  /\ IsFiniteSet(b.ledger)
  /\ \A t \in b.ledger : /\ IsWhole(t) /\ t.at <= LAST
                         /\ t.type \in FillTypes => Filled(b, t.ref)
                         /\ t.type \in SettlementTypes => t.ref \in b.settled

LotsFit(b) == b.lots \in [Instrument -> Seq(Row)]

LegsFit(b) == /\ Balance(b, Payable, LAST) = -Owes(b)
              /\ Balance(b, Receivable, LAST) = IsOwed(b)

Sound(b) ==
  IsBook(b) /\ OrdersFit(b) /\ FillsFit(b) /\ LedgerFits(b) /\ LotsFit(b) /\ LegsFit(b)

\* What is unsettled is finite, and comes to a whole amount.
LEMMA OwedIs ==
  ASSUME NEW b, FillsFit(b)
  PROVE  /\ Owes(b) \in Int /\ IsOwed(b) \in Int
         /\ \A side : IsFiniteSet(Unsettled(b, side)) /\ Unsettled(b, side) \in SUBSET FilledRow
<1>1. \A side : IsFiniteSet(Unsettled(b, side)) /\ Unsettled(b, side) \in SUBSET FilledRow
  <2>1. \A side : Unsettled(b, side) \in SUBSET b.fills
    BY DEF Unsettled
  <2> QED
    BY <2>1, FS_Subset DEF FillsFit
<1> DEFINE f == [fill \in Unsettled(b, "BUY") |-> fill.gross + fill.fee]
           g == [fill \in Unsettled(b, "SELL") |-> fill.gross - fill.fee]
<1>2. IsFiniteSet(DOMAIN f) /\ IsFiniteSet(DOMAIN g)
  BY <1>1
<1>3. (\A x \in DOMAIN f : f[x] \in Int) /\ (\A x \in DOMAIN g : g[x] \in Int)
  BY <1>1 DEF FilledRow
<1>4. Owes(b) = SumFunction(f) /\ IsOwed(b) = SumFunction(g)
  BY DEF Owes, IsOwed
<1> HIDE DEF f, g
<1> QED
  BY <1>1, <1>2, <1>3, <1>4, Sums

\* Nothing that leaves fills, settlements and ledger alone disturbs the legs.
LEMMA SameLegs ==
  ASSUME NEW b, Sound(b), NEW c, IsBook(c), OrdersFit(c), LotsFit(c),
         c.fills = b.fills, c.settled = b.settled, c.ledger = b.ledger
  PROVE  Sound(c)
<1>1. \A side : Unsettled(c, side) = Unsettled(b, side)
  BY DEF Unsettled
<1>2. Owes(c) = Owes(b) /\ IsOwed(c) = IsOwed(b)
  BY <1>1 DEF Owes, IsOwed
<1>3. \A account : Balance(c, account, LAST) = Balance(b, account, LAST)
  BY DEF Balance
<1>4. \A id : Filled(c, id) <=> Filled(b, id)
  BY DEF Filled
<1>5. FillsFit(c)
  BY <1>4 DEF Sound, FillsFit
<1>6. LedgerFits(c)
  BY <1>4 DEF Sound, LedgerFits
<1>7. LegsFit(c)
  BY <1>2, <1>3 DEF Sound, LegsFit
<1> QED
  BY <1>5, <1>6, <1>7 DEF Sound

\* Nor does a transaction that is about something else.
LEMMA OtherPost ==
  ASSUME NEW b, Sound(b), NEW c, IsBook(c), OrdersFit(c), LotsFit(c),
         c.fills = b.fills, c.settled = b.settled,
         NEW t, c.ledger = b.ledger \cup {t}, IsWhole(t), t.at <= LAST,
         Amount(t, Payable) = 0, Amount(t, Receivable) = 0,
         t.type \notin FillTypes, t.type \notin SettlementTypes
  PROVE  Sound(c)
<1>1. CASE t \in b.ledger
  <2>1. c.ledger = b.ledger
    BY <1>1
  <2> QED
    BY <2>1, SameLegs
<1>2. CASE t \notin b.ledger
  <2>1. \A side : Unsettled(c, side) = Unsettled(b, side)
    BY DEF Unsettled
  <2>2. Owes(c) = Owes(b) /\ IsOwed(c) = IsOwed(b) /\ Owes(b) \in Int /\ IsOwed(b) \in Int
    BY <2>1, OwedIs DEF Owes, IsOwed, Sound
  <2>3. /\ Payable \in Counted /\ Receivable \in Counted /\ IsFiniteSet(b.ledger)
        /\ \A x \in b.ledger : IsWhole(x)
    BY DEF Counted, Sound, LedgerFits
  <2>4. \A account \in {Payable, Receivable} :
          Balance(c, account, LAST) = Amount(t, account) + Balance(b, account, LAST)
    <3> TAKE account \in {Payable, Receivable}
    <3>1. (\A x \in b.ledger : Amount(x, account) \in Int) /\ Amount(t, account) \in Int
      BY <2>3 DEF IsWhole
    <3> QED
      BY <1>2, <2>3, <3>1, BalanceGrows
  <2>5. \A id : Filled(c, id) <=> Filled(b, id)
    BY DEF Filled
  <2>6. FillsFit(c)
    BY <2>5 DEF Sound, FillsFit
  <2>7. LedgerFits(c)
    <3>1. IsFiniteSet(c.ledger)
      BY <2>3, FS_AddElement
    <3> QED
      BY <2>5, <3>1 DEF Sound, LedgerFits
  <2>8. LegsFit(c)
    BY <2>2, <2>4 DEF Sound, LegsFit
  <2> QED
    BY <2>6, <2>7, <2>8 DEF Sound
<1> QED
  BY <1>1, <1>2

\* One more unsettled fill is that much more owed.
LEMMA OwedGrows ==
  ASSUME NEW b, FillsFit(b), NEW c, FillsFit(c), NEW fill \in FilledRow,
         fill \notin Unsettled(b, fill.side),
         Unsettled(c, fill.side) = Unsettled(b, fill.side) \cup {fill},
         \A side \in Side : side # fill.side => Unsettled(c, side) = Unsettled(b, side)
  PROVE  /\ fill.side = "BUY" => /\ Owes(c) = Owes(b) + fill.gross + fill.fee
                                 /\ IsOwed(c) = IsOwed(b)
         /\ fill.side = "SELL" => /\ IsOwed(c) = IsOwed(b) + fill.gross - fill.fee
                                  /\ Owes(c) = Owes(b)
<1>0. /\ fill.gross \in Nat /\ fill.fee \in Nat /\ Owes(b) \in Int /\ IsOwed(b) \in Int
      /\ \A side : IsFiniteSet(Unsettled(c, side)) /\ Unsettled(c, side) \in SUBSET FilledRow
  BY OwedIs DEF FilledRow
<1>1. CASE fill.side = "BUY"
  <2> DEFINE f == [x \in Unsettled(c, "BUY") |-> x.gross + x.fee]
             g == [x \in Unsettled(b, "BUY") |-> x.gross + x.fee]
  <2>1. IsFiniteSet(DOMAIN f) /\ fill \in DOMAIN f /\ f[fill] = fill.gross + fill.fee
    BY <1>0, <1>1
  <2>2. \A x \in DOMAIN f : f[x] \in Int
    BY <1>0 DEF FilledRow
  <2>3. g = [x \in DOMAIN f \ {fill} |-> f[x]]
    BY <1>1
  <2>4. Owes(c) = SumFunction(f) /\ Owes(b) = SumFunction(g) /\ IsOwed(c) = IsOwed(b)
    BY <1>1 DEF Owes, IsOwed, Side
  <2> HIDE DEF f, g
  <2>5. SumFunction(f) = f[fill] + SumFunction([x \in DOMAIN f \ {fill} |-> f[x]])
    BY <2>1, <2>2, Sums
  <2> QED
    BY <1>0, <1>1, <2>1, <2>3, <2>4, <2>5
<1>2. CASE fill.side = "SELL"
  <2> DEFINE f == [x \in Unsettled(c, "SELL") |-> x.gross - x.fee]
             g == [x \in Unsettled(b, "SELL") |-> x.gross - x.fee]
  <2>1. IsFiniteSet(DOMAIN f) /\ fill \in DOMAIN f /\ f[fill] = fill.gross - fill.fee
    BY <1>0, <1>2
  <2>2. \A x \in DOMAIN f : f[x] \in Int
    BY <1>0 DEF FilledRow
  <2>3. g = [x \in DOMAIN f \ {fill} |-> f[x]]
    BY <1>2
  <2>4. IsOwed(c) = SumFunction(f) /\ IsOwed(b) = SumFunction(g) /\ Owes(c) = Owes(b)
    BY <1>2 DEF Owes, IsOwed, Side
  <2> HIDE DEF f, g
  <2>5. SumFunction(f) = f[fill] + SumFunction([x \in DOMAIN f \ {fill} |-> f[x]])
    BY <2>1, <2>2, Sums
  <2> QED
    BY <1>0, <1>2, <2>1, <2>3, <2>4, <2>5
<1> QED
  BY <1>1, <1>2 DEF FilledRow, Side

\* A transaction that the ledger does not have moves balances by what it says.
LEMMA NewPost ==
  ASSUME NEW b, LedgerFits(b), NEW c, NEW t, t \notin b.ledger, c.ledger = b.ledger \cup {t},
         IsWhole(t), t.at <= LAST
  PROVE  /\ IsFiniteSet(c.ledger)
         /\ \A account \in {Payable, Receivable} :
              /\ Balance(b, account, LAST) \in Int /\ Amount(t, account) \in Int
              /\ Balance(c, account, LAST) = Amount(t, account) + Balance(b, account, LAST)
<1>1. /\ IsFiniteSet(b.ledger) /\ IsFiniteSet(c.ledger)
      /\ \A x \in b.ledger : IsWhole(x)
  BY FS_AddElement DEF LedgerFits
<1>2. ASSUME NEW account \in {Payable, Receivable}
      PROVE  /\ Balance(b, account, LAST) \in Int /\ Amount(t, account) \in Int
             /\ Balance(c, account, LAST) = Amount(t, account) + Balance(b, account, LAST)
  <2>1. account \in Counted
    BY DEF Counted
  <2>2. (\A x \in b.ledger : Amount(x, account) \in Int) /\ Amount(t, account) \in Int
    BY <1>1, <2>1 DEF IsWhole
  <2>3. Balance(b, account, LAST) \in Int
    BY <1>1, <2>2, BalanceIs
  <2> QED
    BY <1>1, <2>2, <2>3, BalanceGrows
<1> QED
  BY <1>1, <1>2

\* A fill is booked with what it makes the book owe, or be owed.
LEMMA FillPost ==
  ASSUME NEW b, Sound(b), NEW c, IsBook(c), OrdersFit(c), LotsFit(c),
         NEW fill \in FilledRow, ~Filled(b, fill.order),
         c.fills = b.fills \cup {fill}, c.settled = b.settled,
         NEW t, c.ledger = b.ledger \cup {t}, IsWhole(t), t.at <= LAST, t.ref = fill.order,
         \/ /\ fill.side = "BUY" /\ t.type = "BUY_FILL"
            /\ Amount(t, Payable) = -(fill.gross + fill.fee) /\ Amount(t, Receivable) = 0
         \/ /\ fill.side = "SELL" /\ t.type = "SELL_FILL"
            /\ Amount(t, Receivable) = fill.gross - fill.fee /\ Amount(t, Payable) = 0
  PROVE  Sound(c)
<1>1. /\ FillsFit(b) /\ LedgerFits(b) /\ LegsFit(b)
      /\ \A id \in b.settled : Filled(b, id)
      /\ fill.order \notin b.settled /\ fill \notin b.fills
  BY DEF Sound, FillsFit, Filled
<1>2. t \notin b.ledger
  BY <1>1 DEF LedgerFits, FillTypes
<1>3. \A id : Filled(c, id) <=> Filled(b, id) \/ id = fill.order
  BY DEF Filled
<1>4. FillsFit(c)
  <2>1. IsFiniteSet(c.fills) /\ c.fills \in SUBSET FilledRow
    BY <1>1, FS_AddElement DEF FillsFit
  <2>2. \A x, y \in c.fills : x.order = y.order => x = y
    BY <1>1 DEF FillsFit, Filled
  <2> QED
    BY <1>1, <1>3, <2>1, <2>2 DEF FillsFit
<1>5. /\ fill \notin Unsettled(b, fill.side)
      /\ Unsettled(c, fill.side) = Unsettled(b, fill.side) \cup {fill}
      /\ \A side \in Side : side # fill.side => Unsettled(c, side) = Unsettled(b, side)
  BY <1>1 DEF Unsettled
<1>6. /\ fill.side = "BUY" => /\ Owes(c) = Owes(b) + fill.gross + fill.fee
                              /\ IsOwed(c) = IsOwed(b)
      /\ fill.side = "SELL" => /\ IsOwed(c) = IsOwed(b) + fill.gross - fill.fee
                               /\ Owes(c) = Owes(b)
  BY <1>1, <1>4, <1>5, OwedGrows
<1>7. /\ IsFiniteSet(c.ledger)
      /\ \A account \in {Payable, Receivable} :
           /\ Balance(b, account, LAST) \in Int /\ Amount(t, account) \in Int
           /\ Balance(c, account, LAST) = Amount(t, account) + Balance(b, account, LAST)
  BY <1>1, <1>2, NewPost
<1>8. LedgerFits(c)
  BY <1>1, <1>3, <1>7 DEF LedgerFits, FillTypes, SettlementTypes
<1>9. LegsFit(c)
  <2>1. fill.gross \in Nat /\ fill.fee \in Nat /\ Owes(b) \in Int /\ IsOwed(b) \in Int
    BY <1>1, OwedIs DEF FilledRow
  <2>2. Balance(b, Payable, LAST) = -Owes(b) /\ Balance(b, Receivable, LAST) = IsOwed(b)
    BY <1>1 DEF LegsFit
  <2> QED
    BY <1>6, <1>7, <2>1, <2>2 DEF LegsFit
<1> QED
  BY <1>4, <1>8, <1>9 DEF Sound

\* A settlement undoes it, once.
LEMMA SettlementPost ==
  ASSUME NEW b, Sound(b), NEW c, IsBook(c), OrdersFit(c), LotsFit(c),
         NEW fill \in b.fills, fill.order \notin b.settled,
         c.fills = b.fills, c.settled = b.settled \cup {fill.order},
         NEW t, c.ledger = b.ledger \cup {t}, IsWhole(t), t.at <= LAST, t.ref = fill.order,
         \/ /\ fill.side = "BUY" /\ t.type = "BUY_SETTLEMENT"
            /\ Amount(t, Payable) = fill.gross + fill.fee /\ Amount(t, Receivable) = 0
         \/ /\ fill.side = "SELL" /\ t.type = "SELL_SETTLEMENT"
            /\ Amount(t, Receivable) = fill.fee - fill.gross /\ Amount(t, Payable) = 0
  PROVE  Sound(c)
<1>1. /\ FillsFit(b) /\ LedgerFits(b) /\ LegsFit(b) /\ fill \in FilledRow
      /\ \A other \in b.fills : other.order = fill.order => other = fill
  BY DEF Sound, FillsFit
<1>2. t \notin b.ledger
  BY <1>1 DEF LedgerFits, SettlementTypes
<1>3. \A id : Filled(c, id) <=> Filled(b, id)
  BY DEF Filled
<1>4. FillsFit(c)
  <2>1. Filled(b, fill.order)
    BY DEF Filled
  <2> QED
    BY <1>1, <1>3, <2>1 DEF FillsFit
<1>5. /\ fill \notin Unsettled(c, fill.side)
      /\ Unsettled(b, fill.side) = Unsettled(c, fill.side) \cup {fill}
      /\ \A side \in Side : side # fill.side => Unsettled(b, side) = Unsettled(c, side)
  BY <1>1 DEF Unsettled
<1>6. /\ fill.side = "BUY" => /\ Owes(b) = Owes(c) + fill.gross + fill.fee
                              /\ IsOwed(b) = IsOwed(c)
      /\ fill.side = "SELL" => /\ IsOwed(b) = IsOwed(c) + fill.gross - fill.fee
                               /\ Owes(b) = Owes(c)
  BY <1>1, <1>4, <1>5, OwedGrows
<1>7. /\ IsFiniteSet(c.ledger)
      /\ \A account \in {Payable, Receivable} :
           /\ Balance(b, account, LAST) \in Int /\ Amount(t, account) \in Int
           /\ Balance(c, account, LAST) = Amount(t, account) + Balance(b, account, LAST)
  BY <1>1, <1>2, NewPost
<1>8. LedgerFits(c)
  BY <1>1, <1>3, <1>7 DEF LedgerFits, FillTypes, SettlementTypes
<1>9. LegsFit(c)
  <2>1. fill.gross \in Nat /\ fill.fee \in Nat /\ Owes(c) \in Int /\ IsOwed(c) \in Int
    BY <1>1, <1>4, OwedIs DEF FilledRow
  <2>2. Balance(b, Payable, LAST) = -Owes(b) /\ Balance(b, Receivable, LAST) = IsOwed(b)
    BY <1>1 DEF LegsFit
  <2> QED
    BY <1>6, <1>7, <2>1, <2>2 DEF LegsFit
<1> QED
  BY <1>4, <1>8, <1>9 DEF Sound

-----------------------------------------------------------------------------
(* What the operations do to a book. *)

LEMMA QuoteIs ==
  ASSUME world \in Worlds, NEW i \in Instrument, NEW s \in Session
  PROVE  /\ Quote(i, s).bid \in Nat /\ Quote(i, s).ask \in Nat /\ Quote(i, s).cap \in Nat
         /\ Mid(i, s) \in Nat
<1>1. Quote(i, s) \in [bid : Nat, ask : Nat, cap : Nat, tradable : BOOLEAN]
  BY WorldsAssumption DEF Quote
<1> DEFINE q == Quote(i, s)
<1>2. q.bid \in Nat /\ q.ask \in Nat /\ q.cap \in Nat
  BY <1>1
<1>3. Mid(i, s) = (q.bid + q.ask) \div 2
  BY DEF Mid
<1> HIDE DEF q
<1>4. (q.bid + q.ask) \div 2 \in Nat
  BY <1>2
<1> QED
  BY <1>2, <1>3, <1>4 DEF q

LEMMA FeeIs ==
  ASSUME NEW notional \in Nat
  PROVE  FeeFor(notional) \in Nat
<1>1. FEE_MIN \in Nat /\ FEE_BPS \in Nat
  BY PolicyAssumption
<1>2. notional * FEE_BPS \in Nat
  BY <1>1
<1>3. (notional * FEE_BPS) \div 10000 \in Nat
  BY <1>2
<1> QED
  BY <1>1, <1>3 DEF FeeFor, Most

LEMMA IdIs ==
  ASSUME NEW order \in Order
  PROVE  /\ OrderId(order) \in Id /\ OrderId(order)[1] = order.decided
         /\ order.decided \in Session /\ order.instrument \in Instrument /\ order.side \in Side
         /\ order.quantity \in Nat /\ order.due \in Nat /\ order.decided \in Nat
BY RunAssumption DEF Order, OrderId, Id, Session

LEMMA RowOfFill ==
  ASSUME NEW order \in Order, NEW quantity \in Nat, NEW price \in Nat, NEW s \in Session
  PROVE  /\ FillRow(order, quantity, price, s) \in FilledRow
         /\ FillRow(order, quantity, price, s).order = OrderId(order)
         /\ FillRow(order, quantity, price, s).side = order.side
<1>1. quantity * price \in Nat /\ OrderId(order) \in Id /\ order.side \in Side
      /\ order.instrument \in Instrument
  BY IdIs
<1>2. FeeFor(quantity * price) \in Nat
  BY <1>1, FeeIs
<1>3. s + SettleAfter[order.instrument] \in Nat
  BY <1>1, PolicyAssumption, RunAssumption DEF Session
<1> QED
  BY <1>1, <1>2, <1>3 DEF FillRow, FilledRow

\* An order is never for less than nothing.
LEMMA SizeIs ==
  ASSUME world \in Worlds, NEW b, Sound(b), NEW i \in Instrument, NEW side, NEW s \in Session
  PROVE  Size(b, i, side, s) \in Nat
<1>1. IsFiniteSet(b.ledger) /\ (\A t \in b.ledger : IsWhole(t)) /\ b.lots \in [Instrument -> Seq(Row)]
  BY DEF Sound, LedgerFits, LotsFit
<1>2. \A j \in Instrument : quantity_of(b.lots[j], s) \in Nat
  <2> TAKE j \in Instrument
  <2>1. IsTable(b.lots[j])
    BY <1>1 DEF IsTable
  <2> QED
    BY <2>1, QuantityIs
<1>3. \A account \in Counted : Balance(b, account, s) \in Int
  <2> TAKE account \in Counted
  <2>1. \A t \in b.ledger : Amount(t, account) \in Int
    BY <1>1 DEF IsWhole
  <2> QED
    BY <1>1, <2>1, BalanceIs
<1> DEFINE cash == Balance(b, Cash, s)
           receivable == Balance(b, Receivable, s)
           payable == Balance(b, Payable, s)
           held == [j \in Instrument |-> quantity_of(b.lots[j], s) * Mid(j, s)]
           ask == Quote(i, s).ask
<1>4. cash \in Int /\ receivable \in Int /\ payable \in Int /\ ask \in Nat
  BY <1>3, QuoteIs DEF Counted
<1>5. SumFunction(held) \in Int
  <2>1. \A j \in Instrument : quantity_of(b.lots[j], s) * Mid(j, s) \in Int
    <3> TAKE j \in Instrument
    <3>1. quantity_of(b.lots[j], s) \in Nat /\ Mid(j, s) \in Nat
      BY <1>2, QuoteIs
    <3> QED
      BY <3>1
  <2>2. IsFiniteSet(DOMAIN held) /\ \A j \in DOMAIN held : held[j] \in Int
    BY <2>1, PolicyAssumption
  <2> HIDE DEF held
  <2> QED
    BY <2>2, Sums
<1>6. /\ Equity(b, s) = cash + receivable + payable + SumFunction(held)
      /\ Available(b, s) = cash + payable
  BY DEF Equity, Available
<1> HIDE DEF cash, receivable, payable, held, ask
<1> DEFINE whole == Equity(b, s)
           spare == Available(b, s)
           notional == Least((whole * WEIGHT) \div 100, Affordable(spare))
<1>7. whole \in Int /\ spare \in Int
  BY <1>4, <1>5, <1>6
<1>8. /\ WEIGHT \in Nat /\ MIN_NOTIONAL \in Nat /\ FEE_MIN \in Nat /\ FEE_BPS \in Nat
  BY PolicyAssumption
<1>9. BuyQuantity(b, i, s) = IF ask = 0 \/ notional < MIN_NOTIONAL THEN 0 ELSE notional \div ask
  BY DEF BuyQuantity, ask
<1> HIDE DEF whole, spare
<1>10. notional \in Int
  <2>1. whole * WEIGHT \in Int /\ (spare - FEE_MIN) * 10000 \in Int /\ 10000 + FEE_BPS \in Nat \ {0}
    BY <1>7, <1>8
  <2>2. (whole * WEIGHT) \div 100 \in Int
    BY <2>1
  <2>3. ((spare - FEE_MIN) * 10000) \div (10000 + FEE_BPS) \in Int
    BY <2>1
  <2>4. Affordable(spare) \in Int
    BY <2>3 DEF Affordable
  <2> QED
    BY <2>2, <2>4 DEF Least
<1> HIDE DEF notional
<1>11. ask # 0 /\ ~(notional < MIN_NOTIONAL) => notional \div ask \in Nat
  <2> SUFFICES ASSUME ask # 0, ~(notional < MIN_NOTIONAL) PROVE notional \div ask \in Nat
    OBVIOUS
  <2>1. notional \in Nat /\ ask \in Nat \ {0}
    BY <1>4, <1>8, <1>10
  <2> QED
    BY <2>1
<1>12. BuyQuantity(b, i, s) \in Nat
  BY <1>9, <1>11
<1> QED
  BY <1>2, <1>12 DEF Size

\* Funding a book again posts what is there already.
LEMMA FundSound ==
  ASSUME NEW b, Sound(b)
  PROVE  Sound(Fund(b))
<1> DEFINE t == Transaction("OPENING_BALANCE", 0, "initial virtual funding",
                  {Posting(Cash, CAPITAL), Posting(OpeningEquity, -CAPITAL)})
<1>1. Fund(b) = [b EXCEPT !.ledger = b.ledger \cup {t}]
  BY DEF Fund, Post
<1> DEFINE cash == Posting(Cash, CAPITAL)
           opening == Posting(OpeningEquity, -CAPITAL)
<1>2. t.postings = {cash, opening} /\ t.at = 0 /\ t.type = "OPENING_BALANCE"
  BY DEF Transaction
<1>3. cash.account = Cash /\ cash.amount \in Int /\ opening.account = OpeningEquity
  BY PostingIs, PolicyAssumption
<1> HIDE DEF t, cash, opening
<1>4. cash \in t.postings /\ \A l \in t.postings : l = cash \/ l.account \notin Counted
  BY <1>2, <1>3, AccountsDiffer, Zenon
<1>5. IsWhole(t) /\ Amount(t, Payable) = 0 /\ Amount(t, Receivable) = 0
  <2>1. /\ Cash \in Counted /\ Payable \in Counted /\ Receivable \in Counted
        /\ Cash # Payable /\ Cash # Receivable
    BY AccountsDiffer DEF Counted
  <2> QED
    BY <1>3, <1>4, <2>1, OneCounts
<1>6. /\ IsBook(Fund(b)) /\ Fund(b).ledger = b.ledger \cup {t} /\ Fund(b).orders = b.orders
      /\ Fund(b).fills = b.fills /\ Fund(b).settled = b.settled /\ Fund(b).lots = b.lots
  BY <1>1 DEF Sound, IsBook
<1>7. t.at <= LAST /\ t.type \notin FillTypes /\ t.type \notin SettlementTypes
  BY <1>2, RunAssumption DEF FillTypes, SettlementTypes
<1>8. OrdersFit(Fund(b)) /\ LotsFit(Fund(b))
  BY <1>6 DEF Sound, OrdersFit, LotsFit
<1> QED
  BY <1>5, <1>6, <1>7, <1>8, OtherPost

\* Neither placing an order nor rejecting one touches money.
LEMMA RejectSound ==
  ASSUME NEW b, Sound(b), NEW id, NEW reason
  PROVE  /\ Sound(Reject(b, id, reason))
         /\ Reject(b, id, reason).orders = b.orders /\ Reject(b, id, reason).fills = b.fills
         /\ IF Rejected(b, id) THEN Reject(b, id, reason).rejections = b.rejections
            ELSE \E row : /\ row.order = id
                          /\ Reject(b, id, reason).rejections = b.rejections \cup {row}
<1> DEFINE c == Reject(b, id, reason)
           row == [order |-> id, reason |-> reason]
<1>1. /\ IsBook(c) /\ c.orders = b.orders /\ c.fills = b.fills /\ c.settled = b.settled
      /\ c.ledger = b.ledger /\ c.lots = b.lots
      /\ c.rejections = IF Rejected(b, id) THEN b.rejections ELSE b.rejections \cup {row}
  BY DEF Reject, Sound, IsBook
<1>2. row.order = id
  OBVIOUS
<1> HIDE DEF c, row
<1>3. OrdersFit(c) /\ LotsFit(c)
  BY <1>1 DEF Sound, OrdersFit, LotsFit
<1>4. Sound(c)
  BY <1>1, <1>3, SameLegs
<1> QED
  BY <1>1, <1>2, <1>4 DEF c

LEMMA RecordOrderSound ==
  ASSUME NEW b, Sound(b), NEW order \in Order, order.due > order.decided
  PROVE  /\ Sound(RecordOrder(b, order))
         /\ RecordOrder(b, order).fills = b.fills
         /\ RecordOrder(b, order).rejections = b.rejections
         /\ RecordOrder(b, order).orders =
              IF \E placed \in b.orders : OrderId(placed) = OrderId(order) THEN b.orders
              ELSE b.orders \cup {order}
<1> DEFINE c == RecordOrder(b, order)
<1>1. /\ IsBook(c) /\ c.fills = b.fills /\ c.settled = b.settled
      /\ c.ledger = b.ledger /\ c.lots = b.lots /\ c.rejections = b.rejections
      /\ c.orders = IF \E placed \in b.orders : OrderId(placed) = OrderId(order) THEN b.orders
                    ELSE b.orders \cup {order}
  BY DEF RecordOrder, Sound, IsBook
<1> HIDE DEF c
<1>2. OrdersFit(c) /\ LotsFit(c)
  BY <1>1 DEF Sound, OrdersFit, LotsFit
<1>3. Sound(c)
  BY <1>1, <1>2, SameLegs
<1> QED
  BY <1>1, <1>3 DEF c

\* A fill that is carried out books the order it is of, once.
LEMMA BuySound ==
  ASSUME world \in Worlds, NEW b, Sound(b), NEW order \in b.orders, NEW s \in Session,
         order.side = "BUY", ~Filled(b, OrderId(order))
  PROVE  /\ Sound(BookBuy(b, order, s))
         /\ BookBuy(b, order, s).orders = b.orders
         /\ BookBuy(b, order, s).rejections = b.rejections
         /\ \E row : row.order = OrderId(order) /\ BookBuy(b, order, s).fills = b.fills \cup {row}
<1> DEFINE c == BookBuy(b, order, s)
           i == order.instrument
           quantity == FillQuantity(order, s)
           price == Quote(i, s).ask
           fill == FillRow(order, quantity, price, s)
           owed == fill.gross + fill.fee
           own == Posting(Position(i), fill.gross)
           fee == Posting(Fees, fill.fee)
           leg == Posting(Payable, -owed)
           t == Transaction("BUY_FILL", s, OrderId(order), {own, fee, leg})
           lot == open_lot(b.lots[i], quantity, price, s, order.decided)
<1>1. c = [[b EXCEPT !.ledger = b.ledger \cup {t}]
             EXCEPT !.fills = b.fills \cup {fill}, !.lots[i] = lot]
  BY DEF BookBuy, Post, Sound, IsBook
<1>2. t.postings = {own, fee, leg} /\ t.at = s /\ t.type = "BUY_FILL" /\ t.ref = OrderId(order)
  BY DEF Transaction
<1>3. /\ own.account = Position(i) /\ fee.account = Fees
      /\ leg.account = Payable /\ leg.amount = -owed
  BY PostingIs
<1> HIDE DEF own, fee, leg, t, lot
<1>4. /\ order \in Order /\ i \in Instrument /\ order.decided \in Nat /\ order.quantity \in Nat
      /\ price \in Nat /\ Quote(i, s).cap \in Nat /\ s \in Nat /\ s <= LAST
  <2>1. order \in Order
    BY DEF Sound, OrdersFit
  <2>2. i \in Instrument /\ order.decided \in Nat /\ order.quantity \in Nat
    BY <2>1, IdIs
  <2>3. s \in Nat /\ s <= LAST
    BY RunAssumption DEF Session
  <2> QED
    BY <2>1, <2>2, <2>3, QuoteIs
<1>5. quantity \in Nat
  BY <1>4 DEF FillQuantity, Least
<1> HIDE DEF i, quantity, price
<1>6. /\ fill \in FilledRow /\ fill.order = OrderId(order) /\ fill.side = "BUY"
      /\ fill.gross \in Nat /\ fill.fee \in Nat
  <2>1. fill \in FilledRow /\ fill.order = OrderId(order) /\ fill.side = order.side
    BY <1>4, <1>5, RowOfFill
  <2> QED
    BY <2>1 DEF FilledRow
<1> HIDE DEF fill, c
<1>7. owed = fill.gross + fill.fee /\ -owed \in Int
  BY <1>6
<1> HIDE DEF owed
<1>8. IsWhole(t) /\ Amount(t, Payable) = -owed /\ Amount(t, Receivable) = 0
  <2>1. /\ Payable \in Counted /\ Receivable \in Counted /\ Payable # Receivable
        /\ \A account \in Counted : account # Position(i) /\ account # Fees
    BY AccountsDiffer DEF Counted
  <2>2. leg \in t.postings /\ \A l \in t.postings : l = leg \/ l.account \notin Counted
    BY <1>2, <1>3, <2>1, Zenon
  <2>3. leg.amount \in Int
    BY <1>3, <1>7
  <2> QED
    BY <1>3, <2>1, <2>2, <2>3, OneCounts
<1>9. IsTable(b.lots[i]) /\ IsTable(lot) /\ b.lots \in [Instrument -> Seq(Row)]
  <2>1. IsTable(b.lots[i]) /\ b.lots \in [Instrument -> Seq(Row)]
    BY <1>4 DEF Sound, LotsFit, IsTable
  <2>2. IsTable(lot)
    <3>1. quantity \in Int
      BY <1>5
    <3> QED
      BY <1>4, <2>1, <3>1, OpenAdds, AddsFit DEF lot
  <2> QED
    BY <2>1, <2>2
<1>10. /\ IsBook(c) /\ c.ledger = b.ledger \cup {t} /\ c.fills = b.fills \cup {fill}
       /\ c.orders = b.orders /\ c.settled = b.settled /\ c.rejections = b.rejections
       /\ c.lots = [b.lots EXCEPT ![i] = lot]
  BY <1>1 DEF Sound, IsBook
<1>11. OrdersFit(c) /\ LotsFit(c)
  BY <1>4, <1>9, <1>10 DEF Sound, OrdersFit, LotsFit, IsTable
<1>12. Sound(c)
  BY <1>2, <1>4, <1>6, <1>7, <1>8, <1>10, <1>11, FillPost
<1> QED
  BY <1>6, <1>10, <1>12 DEF c

LEMMA SellSound ==
  ASSUME world \in Worlds, NEW b, Sound(b), NEW order \in b.orders, NEW s \in Session,
         order.side = "SELL", ~Filled(b, OrderId(order))
  PROVE  /\ Sound(BookSell(b, order, s))
         /\ BookSell(b, order, s).orders = b.orders
         /\ BookSell(b, order, s).rejections = b.rejections
         /\ \E row : row.order = OrderId(order) /\ BookSell(b, order, s).fills = b.fills \cup {row}
<1> DEFINE c == BookSell(b, order, s)
           i == order.instrument
           quantity == FillQuantity(order, s)
           price == Quote(i, s).bid
           fill == FillRow(order, quantity, price, s)
           cost == CostBasis(Consumed(open_lots(b.lots[i], s), quantity))
           owed == fill.gross - fill.fee
           leg == Posting(Receivable, owed)
           fee == Posting(Fees, fill.fee)
           own == Posting(Position(i), -cost)
           gain == Posting(RealizedPnl, cost - fill.gross)
           t == Transaction("SELL_FILL", s, OrderId(order), {leg, fee, own, gain})
           lot == close_quantity(b.lots[i], quantity, s, order.decided)
<1>1. c = [[b EXCEPT !.ledger = b.ledger \cup {t}]
             EXCEPT !.fills = b.fills \cup {fill}, !.lots[i] = lot]
  BY DEF BookSell, Post, Sound, IsBook
<1>2. t.postings = {leg, fee, own, gain} /\ t.at = s /\ t.type = "SELL_FILL"
      /\ t.ref = OrderId(order)
  BY DEF Transaction
<1>3. /\ own.account = Position(i) /\ fee.account = Fees /\ gain.account = RealizedPnl
      /\ leg.account = Receivable /\ leg.amount = owed
  BY PostingIs
<1> HIDE DEF own, fee, leg, gain, t, lot, cost
<1>4. /\ order \in Order /\ i \in Instrument /\ order.decided \in Nat /\ order.quantity \in Nat
      /\ price \in Nat /\ Quote(i, s).cap \in Nat /\ s \in Nat /\ s <= LAST
  <2>1. order \in Order
    BY DEF Sound, OrdersFit
  <2>2. i \in Instrument /\ order.decided \in Nat /\ order.quantity \in Nat
    BY <2>1, IdIs
  <2>3. s \in Nat /\ s <= LAST
    BY RunAssumption DEF Session
  <2> QED
    BY <2>1, <2>2, <2>3, QuoteIs
<1>5. quantity \in Nat
  BY <1>4 DEF FillQuantity, Least
<1> HIDE DEF i, quantity, price
<1>6. /\ fill \in FilledRow /\ fill.order = OrderId(order) /\ fill.side = "SELL"
      /\ fill.gross \in Nat /\ fill.fee \in Nat
  <2>1. fill \in FilledRow /\ fill.order = OrderId(order) /\ fill.side = order.side
    BY <1>4, <1>5, RowOfFill
  <2> QED
    BY <2>1 DEF FilledRow
<1> HIDE DEF fill, c
<1>7. owed = fill.gross - fill.fee /\ owed \in Int
  BY <1>6
<1> HIDE DEF owed
<1>8. IsWhole(t) /\ Amount(t, Receivable) = owed /\ Amount(t, Payable) = 0
  <2>1. /\ Payable \in Counted /\ Receivable \in Counted /\ Payable # Receivable
        /\ \A account \in Counted :
             account # Position(i) /\ account # Fees /\ account # RealizedPnl
    BY AccountsDiffer DEF Counted
  <2>2. leg \in t.postings /\ \A l \in t.postings : l = leg \/ l.account \notin Counted
    BY <1>2, <1>3, <2>1, Zenon
  <2>3. leg.amount \in Int
    BY <1>3, <1>7
  <2> QED
    BY <1>3, <2>1, <2>2, <2>3, OneCounts
<1>9. IsTable(b.lots[i]) /\ IsTable(lot) /\ b.lots \in [Instrument -> Seq(Row)]
  <2>1. IsTable(b.lots[i]) /\ b.lots \in [Instrument -> Seq(Row)]
    BY <1>4 DEF Sound, LotsFit, IsTable
  <2>2. IsTable(lot)
    BY <1>4, <1>5, <2>1, CloseAdds, AddsFit DEF lot
  <2> QED
    BY <2>1, <2>2
<1>10. /\ IsBook(c) /\ c.ledger = b.ledger \cup {t} /\ c.fills = b.fills \cup {fill}
       /\ c.orders = b.orders /\ c.settled = b.settled /\ c.rejections = b.rejections
       /\ c.lots = [b.lots EXCEPT ![i] = lot]
  BY <1>1 DEF Sound, IsBook
<1>11. OrdersFit(c) /\ LotsFit(c)
  BY <1>4, <1>9, <1>10 DEF Sound, OrdersFit, LotsFit, IsTable
<1>12. Sound(c)
  BY <1>2, <1>4, <1>6, <1>7, <1>8, <1>10, <1>11, FillPost
<1> QED
  BY <1>6, <1>10, <1>12 DEF c

\* An order that is due gets its one outcome, a fill or a rejection.
LEMMA ExecuteSound ==
  ASSUME world \in Worlds, NEW b, Sound(b), NEW order \in b.orders, NEW s \in Session,
         ~Filled(b, OrderId(order)), ~Rejected(b, OrderId(order))
  PROVE  /\ Sound(Execute(b, order, s))
         /\ Execute(b, order, s).orders = b.orders
         /\ \/ /\ Execute(b, order, s).rejections = b.rejections
               /\ \E row : /\ row.order = OrderId(order)
                           /\ Execute(b, order, s).fills = b.fills \cup {row}
            \/ /\ Execute(b, order, s).fills = b.fills
               /\ \E row : /\ row.order = OrderId(order)
                           /\ Execute(b, order, s).rejections = b.rejections \cup {row}
<1>1. CASE Refusal(order, s) # "none"
  <2>1. Execute(b, order, s) = Reject(b, OrderId(order), Refusal(order, s))
    BY <1>1 DEF Execute
  <2> QED
    BY <2>1, RejectSound
<1>2. CASE Refusal(order, s) = "none" /\ order.side = "BUY"
  BY <1>2, BuySound DEF Execute
<1>3. CASE Refusal(order, s) = "none" /\ order.side # "BUY"
  <2>1. order.side = "SELL"
    BY <1>3, IdIs DEF Sound, OrdersFit, Side
  <2> QED
    BY <1>3, <2>1, SellSound DEF Execute
<1> QED
  BY <1>1, <1>2, <1>3

\* Settling a fill that is due takes its leg out of what is owed.
LEMMA SettleSound ==
  ASSUME NEW b, Sound(b), NEW s \in Session, NEW fill \in DueFills(b, s)
  PROVE  /\ Sound(Settle(b, fill))
         /\ Settle(b, fill).orders = b.orders /\ Settle(b, fill).fills = b.fills
         /\ Settle(b, fill).rejections = b.rejections
<1> DEFINE c == Settle(b, fill)
<1>1. /\ fill \in b.fills /\ fill.order \notin b.settled /\ fill.settles <= LAST
      /\ fill.gross \in Nat /\ fill.fee \in Nat /\ fill.side \in Side
  <2>1. fill \in b.fills /\ fill.order \notin b.settled /\ fill.settles <= s
    BY DEF DueFills
  <2>2. fill \in FilledRow
    BY <2>1 DEF Sound, FillsFit
  <2>3. fill.settles \in Nat /\ s <= LAST /\ s \in Nat /\ LAST \in Nat
    BY <2>2, RunAssumption DEF FilledRow, Session
  <2> QED
    BY <2>1, <2>2, <2>3 DEF FilledRow
<1>2. Cash \in Counted /\ Payable \in Counted /\ Receivable \in Counted
      /\ Cash # Payable /\ Cash # Receivable /\ Payable # Receivable
  BY AccountsDiffer DEF Counted
<1>3. CASE fill.side = "BUY"
  <2> DEFINE whole == fill.gross + fill.fee
             leg == Posting(Payable, whole)
             cash == Posting(Cash, -whole)
             t == Transaction("BUY_SETTLEMENT", fill.settles, fill.order, {leg, cash})
  <2>1. c = [[b EXCEPT !.ledger = b.ledger \cup {t}] EXCEPT !.settled = b.settled \cup {fill.order}]
    BY <1>3 DEF Settle, Post, Sound, IsBook
  <2>2. /\ t.postings = {leg, cash} /\ t.at = fill.settles
        /\ t.type = "BUY_SETTLEMENT" /\ t.ref = fill.order
    BY DEF Transaction
  <2>3. /\ leg.account = Payable /\ leg.amount = whole
        /\ cash.account = Cash /\ cash.amount = -whole
    BY PostingIs
  <2>4. whole \in Int /\ -whole \in Int /\ whole = fill.gross + fill.fee
    BY <1>1
  <2> HIDE DEF leg, cash, t, whole, c
  <2>5. /\ leg \in t.postings /\ cash \in t.postings
        /\ \A l \in t.postings : l = leg \/ l = cash
    BY <2>2
  <2>6. IsWhole(t) /\ Amount(t, Payable) = whole /\ Amount(t, Receivable) = 0
    <3>1. leg.amount \in Int /\ cash.amount \in Int
      BY <2>3, <2>4
    <3>2. /\ IsWhole(t) /\ Amount(t, Payable) = leg.amount
          /\ \A other \in Counted : other # Payable /\ other # Cash => Amount(t, other) = 0
      BY <1>2, <2>3, <2>5, <3>1, TwoCount
    <3> QED
      BY <1>2, <2>3, <3>2
  <2>7. /\ IsBook(c) /\ c.ledger = b.ledger \cup {t} /\ c.fills = b.fills
        /\ c.orders = b.orders /\ c.settled = b.settled \cup {fill.order}
        /\ c.rejections = b.rejections /\ c.lots = b.lots
    BY <2>1 DEF Sound, IsBook
  <2>8. OrdersFit(c) /\ LotsFit(c)
    BY <2>7 DEF Sound, OrdersFit, LotsFit
  <2>9. Sound(c)
    BY <1>1, <1>3, <2>2, <2>4, <2>6, <2>7, <2>8, SettlementPost
  <2> QED
    BY <2>7, <2>9 DEF c
<1>4. CASE fill.side = "SELL"
  <2> DEFINE whole == fill.gross - fill.fee
             back == fill.fee - fill.gross
             leg == Posting(Receivable, back)
             cash == Posting(Cash, whole)
             t == Transaction("SELL_SETTLEMENT", fill.settles, fill.order, {cash, leg})
  <2>1. c = [[b EXCEPT !.ledger = b.ledger \cup {t}] EXCEPT !.settled = b.settled \cup {fill.order}]
    BY <1>4 DEF Settle, Post, Sound, IsBook
  <2>2. /\ t.postings = {cash, leg} /\ t.at = fill.settles
        /\ t.type = "SELL_SETTLEMENT" /\ t.ref = fill.order
    BY DEF Transaction
  <2>3. /\ leg.account = Receivable /\ leg.amount = back
        /\ cash.account = Cash /\ cash.amount = whole
    BY PostingIs
  <2>4. whole \in Int /\ back \in Int /\ back = fill.fee - fill.gross
    BY <1>1
  <2> HIDE DEF leg, cash, t, whole, back, c
  <2>5. /\ leg \in t.postings /\ cash \in t.postings
        /\ \A l \in t.postings : l = leg \/ l = cash
    BY <2>2
  <2>6. IsWhole(t) /\ Amount(t, Receivable) = back /\ Amount(t, Payable) = 0
    <3>1. leg.amount \in Int /\ cash.amount \in Int
      BY <2>3, <2>4
    <3>2. /\ IsWhole(t) /\ Amount(t, Receivable) = leg.amount
          /\ \A other \in Counted : other # Receivable /\ other # Cash => Amount(t, other) = 0
      BY <1>2, <2>3, <2>5, <3>1, TwoCount
    <3> QED
      BY <1>2, <2>3, <3>2
  <2>7. /\ IsBook(c) /\ c.ledger = b.ledger \cup {t} /\ c.fills = b.fills
        /\ c.orders = b.orders /\ c.settled = b.settled \cup {fill.order}
        /\ c.rejections = b.rejections /\ c.lots = b.lots
    BY <2>1 DEF Sound, IsBook
  <2>8. OrdersFit(c) /\ LotsFit(c)
    BY <2>7 DEF Sound, OrdersFit, LotsFit
  <2>9. Sound(c)
    BY <1>1, <1>4, <2>2, <2>4, <2>6, <2>7, <2>8, SettlementPost
  <2> QED
    BY <2>7, <2>9 DEF c
<1> QED
  BY <1>1, <1>3, <1>4 DEF Side

\* A corporate action moves cash and lots, and no leg.
SameOrders(b, c) == c.orders = b.orders /\ c.fills = b.fills /\ c.rejections = b.rejections

LEMMA DividendSound ==
  ASSUME NEW b, Sound(b), NEW action \in Action, action.at <= LAST, NEW held, held \in Nat
  PROVE  Sound(PayDividend(b, action, held)) /\ SameOrders(b, PayDividend(b, action, held))
<1>1. CASE action.amount * held = 0
  BY <1>1 DEF PayDividend, SameOrders
<1>2. CASE action.amount * held # 0
  <2> DEFINE c == PayDividend(b, action, held)
             paid == action.amount * held
             cash == Posting(Cash, paid)
             income == Posting(DividendIncome, -paid)
             t == Transaction("CASH_DIVIDEND", action.at, <<action.ref, action.instrument>>,
                              {cash, income})
  <2>1. c = [[b EXCEPT !.ledger = b.ledger \cup {t}] EXCEPT !.claims = b.claims \cup {action.ref}]
    BY <1>2 DEF PayDividend, Post, Sound, IsBook
  <2>2. t.postings = {cash, income} /\ t.at = action.at /\ t.type = "CASH_DIVIDEND"
    BY DEF Transaction
  <2>3. cash.account = Cash /\ cash.amount = paid /\ income.account = DividendIncome
    BY PostingIs
  <2>4. paid \in Int
    <3>1. action.amount \in Nat
      BY DEF Action
    <3> QED
      BY <3>1
  <2> HIDE DEF cash, income, t, paid, c
  <2>5. /\ Cash \in Counted /\ Payable \in Counted /\ Receivable \in Counted
        /\ Cash # Payable /\ Cash # Receivable
        /\ \A account \in Counted : account # DividendIncome
    BY AccountsDiffer DEF Counted
  <2>6. cash \in t.postings /\ \A l \in t.postings : l = cash \/ l.account \notin Counted
    BY <2>2, <2>3, <2>5, Zenon
  <2>7. IsWhole(t) /\ Amount(t, Payable) = 0 /\ Amount(t, Receivable) = 0
    <3>1. cash.amount \in Int
      BY <2>3, <2>4
    <3> QED
      BY <2>3, <2>5, <2>6, <3>1, OneCounts
  <2>8. /\ IsBook(c) /\ c.ledger = b.ledger \cup {t} /\ c.fills = b.fills
        /\ c.orders = b.orders /\ c.settled = b.settled
        /\ c.rejections = b.rejections /\ c.lots = b.lots
    BY <2>1 DEF Sound, IsBook
  <2>9. OrdersFit(c) /\ LotsFit(c)
    BY <2>8 DEF Sound, OrdersFit, LotsFit
  <2>10. t.at <= LAST /\ t.type \notin FillTypes /\ t.type \notin SettlementTypes
    BY <2>2 DEF FillTypes, SettlementTypes
  <2>11. Sound(c)
    BY <2>7, <2>8, <2>9, <2>10, OtherPost
  <2> QED
    BY <2>8, <2>11 DEF c, SameOrders
<1> QED
  BY <1>1, <1>2

LEMMA SplitSound ==
  ASSUME NEW b, Sound(b), NEW action \in Action
  PROVE  Sound(SplitPosition(b, action)) /\ SameOrders(b, SplitPosition(b, action))
<1> DEFINE c == SplitPosition(b, action)
           i == action.instrument
           lot == apply_split(b.lots[i], action.num, action.den, action.at, action.ref)
<1>1. c = [b EXCEPT !.claims = b.claims \cup {action.ref}, !.lots[i] = lot]
  BY DEF SplitPosition, Sound, IsBook
<1>2. IsTable(lot) /\ i \in Instrument /\ b.lots \in [Instrument -> Seq(Row)]
  <2>1. /\ action.num \in Nat \ {0} /\ action.den \in Nat \ {0}
        /\ action.at \in Nat /\ action.ref \in Nat /\ i \in Instrument
    BY DEF Action
  <2>2. IsTable(b.lots[i]) /\ b.lots \in [Instrument -> Seq(Row)]
    BY <2>1 DEF Sound, LotsFit, IsTable
  <2> QED
    BY <2>1, <2>2, SplitAdds, AddsFit
<1> HIDE DEF c, i, lot
<1>3. /\ IsBook(c) /\ c.ledger = b.ledger /\ c.fills = b.fills /\ c.orders = b.orders
      /\ c.settled = b.settled /\ c.rejections = b.rejections
      /\ c.lots = [b.lots EXCEPT ![i] = lot]
  BY <1>1 DEF Sound, IsBook
<1>4. OrdersFit(c) /\ LotsFit(c)
  BY <1>2, <1>3 DEF Sound, OrdersFit, LotsFit, IsTable
<1>5. Sound(c)
  BY <1>3, <1>4, SameLegs
<1> QED
  BY <1>3, <1>5 DEF c, SameOrders

LEMMA ActionSound ==
  ASSUME NEW b, Sound(b), NEW action \in Action, action.at <= LAST
  PROVE  Sound(ApplyAction(b, action)) /\ SameOrders(b, ApplyAction(b, action))
<1> DEFINE held == quantity_of(b.lots[action.instrument], action.at)
<1>1. held \in Nat
  <2>1. action.instrument \in Instrument
    BY DEF Action
  <2>2. IsTable(b.lots[action.instrument])
    BY <2>1 DEF Sound, LotsFit, IsTable
  <2> QED
    BY <2>2, QuantityIs
<1>2. SameOrders(b, b)
  BY DEF SameOrders
<1>3. \/ ApplyAction(b, action) = b
      \/ ApplyAction(b, action) = PayDividend(b, action, held)
      \/ ApplyAction(b, action) = SplitPosition(b, action)
  BY DEF ApplyAction, ApplyUnclaimed
<1> HIDE DEF held
<1> QED
  BY <1>1, <1>2, <1>3, DividendSound, SplitSound

\* The actions of a session are applied one after another.  (The recursion of
\* FoldLeft goes over sets of positions, taking the last one off; it has a solution,
\* and from the whole list takes its positions off one by one.)
AppliedInTurn(g, b, s) ==
  /\ g[0] = b
  /\ \A n \in 1..Len(s) : g[n] = ApplyAction(g[n - 1], s[n])

LEMMA Applications ==
  ASSUME NEW S, NEW s \in Seq(S), NEW base
  PROVE  \E g : AppliedInTurn(g, base, s) /\ FoldLeft(ApplyAction, base, s) = g[Len(s)]
<1>1. PICK N \in Nat : N = Len(s) /\ DOMAIN s = 1..N
  <2>1. Len(s) \in Nat /\ DOMAIN s = 1..Len(s)
    OBVIOUS
  <2> QED
    BY <2>1
<1> DEFINE Result(h, t) == IF t = {} THEN base ELSE ApplyAction(h[t \ {Max(t)}], s[Max(t)])
           Solved == {m \in 0..N : \E h : h = [t \in SUBSET (1..m) |-> Result(h, t)]}
<1>2. ASSUME NEW m \in 0..N, NEW t \in SUBSET (1..m), t # {}
      PROVE  /\ Max(t) \in t /\ t \ {Max(t)} \in SUBSET (1..m)
             /\ m \in t => Max(t) = m
  <2>1. m \in Nat
    OBVIOUS
  <2>2. /\ Max(t) \in t /\ \A k \in t : k <= Max(t)
        /\ \A k \in t : (\A j \in t : j <= k) => k = Max(t)
    BY <1>2, <2>1, Greatest
  <2>3. \A j \in t : j <= m
    OBVIOUS
  <2> QED
    BY <2>2, <2>3
<1>3. 0 \in Solved
  <2> DEFINE h == [t \in SUBSET (1..0) |-> base]
  <2>1. \A t \in SUBSET (1..0) : t = {}
    OBVIOUS
  <2>2. h = [t \in SUBSET (1..0) |-> Result(h, t)]
    BY <2>1
  <2> QED
    BY <2>2
<1>4. ASSUME NEW m \in 0..(N - 1), m \in Solved PROVE m + 1 \in Solved
  <2>1. PICK h : h = [t \in SUBSET (1..m) |-> Result(h, t)]
    BY <1>4
  <2> DEFINE k == [t \in SUBSET (1..(m + 1)) |->
                     IF m + 1 \in t THEN ApplyAction(h[t \ {m + 1}], s[m + 1]) ELSE h[t]]
  <2>2. ASSUME NEW t \in SUBSET (1..(m + 1)) PROVE k[t] = Result(k, t)
    <3>0. m + 1 \in 0..N /\ m \in 0..N
      OBVIOUS
    <3>1. CASE m + 1 \in t
      <4>1. t # {} /\ Max(t) = m + 1
        BY <1>2, <3>0, <3>1
      <4>2. t \ {m + 1} \in SUBSET (1..(m + 1)) /\ m + 1 \notin t \ {m + 1}
        OBVIOUS
      <4>3. k[t \ {m + 1}] = h[t \ {m + 1}]
        BY <4>2
      <4> QED
        BY <3>1, <4>1, <4>3
    <3>2. CASE m + 1 \notin t
      <4>1. t \in SUBSET (1..m) /\ k[t] = h[t]
        BY <3>2
      <4>2. h[t] = Result(h, t)
        BY <2>1, <4>1
      <4>3. ASSUME t # {} PROVE k[t \ {Max(t)}] = h[t \ {Max(t)}]
        <5>1. t \ {Max(t)} \in SUBSET (1..(m + 1)) /\ m + 1 \notin t \ {Max(t)}
          BY <3>2
        <5> QED
          BY <5>1
      <4> QED
        BY <4>1, <4>2, <4>3
    <3> QED
      BY <3>1, <3>2
  <2>3. k = [t \in SUBSET (1..(m + 1)) |-> Result(k, t)]
    <3> HIDE DEF Result
    <3> QED
      BY <2>2
  <2>4. m + 1 \in 0..N
    OBVIOUS
  <2> HIDE DEF Result, k
  <2> QED
    BY <2>3, <2>4
<1>5. N \in Solved
  <2> HIDE DEF Solved
  <2>1. \A i \in 0..N : i \in Solved
    BY <1>3, <1>4, Induct
  <2> QED
    BY <2>1
<1>6. \E iter : iter = [t \in SUBSET DOMAIN s |->
                          IF t = {} THEN base ELSE ApplyAction(iter[t \ {Max(t)}], s[Max(t)])]
  BY <1>1, <1>5
<1> DEFINE iter == CHOOSE iter : iter = [t \in SUBSET DOMAIN s |->
                          IF t = {} THEN base ELSE ApplyAction(iter[t \ {Max(t)}], s[Max(t)])]
<1>7. iter = [t \in SUBSET DOMAIN s |->
                IF t = {} THEN base ELSE ApplyAction(iter[t \ {Max(t)}], s[Max(t)])]
  BY <1>6, Zenon
<1>8. FoldLeft(ApplyAction, base, s) = iter[DOMAIN s]
  BY DEF FoldLeft, MapThenFoldSet
<1> HIDE DEF iter
<1> DEFINE g == [n \in 0..N |-> iter[1..n]]
<1>9. g[0] = base /\ g[N] = FoldLeft(ApplyAction, base, s)
  <2>1. 1..0 = {} /\ 0 \in 0..N /\ N \in 0..N /\ {} \in SUBSET DOMAIN s
    OBVIOUS
  <2> QED
    BY <1>1, <1>7, <1>8, <2>1
<1>10. ASSUME NEW n \in 1..N PROVE g[n] = ApplyAction(g[n - 1], s[n])
  <2> HIDE DEF g, Result, Solved
  <2>1. n \in 0..N /\ n - 1 \in 0..N /\ n \in 1..n
    BY <1>1
  <2>2. 1..n \in SUBSET (1..n) /\ 1..n # {}
    BY <2>1
  <2>3. (1..n) \ {n} = 1..(n - 1)
    OBVIOUS
  <2>4. 1..n \in SUBSET DOMAIN s
    BY <1>1
  <2>5. Max(1..n) = n
    BY <1>2, <2>1, <2>2
  <2>6. iter[1..n] = ApplyAction(iter[1..(n - 1)], s[n])
    BY <1>7, <2>2, <2>3, <2>4, <2>5
  <2> QED
    BY <2>1, <2>6 DEF g
<1> HIDE DEF g
<1> QED
  BY <1>1, <1>9, <1>10 DEF AppliedInTurn

Applied(b, actions) == FoldLeft(ApplyAction, b, actions)

LEMMA NoAction == ASSUME NEW b PROVE Applied(b, << >>) = b
<1>1. << >> \in Seq({}) /\ Len(<< >>) = 0
  OBVIOUS
<1>2. PICK g : /\ AppliedInTurn(g, b, << >>)
               /\ FoldLeft(ApplyAction, b, << >>) = g[Len(<< >>)]
  BY <1>1, Applications
<1> QED
  BY <1>1, <1>2 DEF AppliedInTurn, Applied

LEMMA OneMoreAction ==
  ASSUME NEW S, NEW b, NEW s \in Seq(S), NEW action \in S
  PROVE  Applied(b, Append(s, action)) = ApplyAction(Applied(b, s), action)
<1> DEFINE more == Append(s, action)
<1>1. PICK N \in Nat : N = Len(s)
  OBVIOUS
<1>2. more \in Seq(S) /\ Len(more) = N + 1 /\ more[N + 1] = action /\ \A n \in 1..N : more[n] = s[n]
  BY <1>1
<1> HIDE DEF more
<1>3. PICK g : AppliedInTurn(g, b, s) /\ FoldLeft(ApplyAction, b, s) = g[N]
  BY <1>1, Applications
<1>4. PICK h : AppliedInTurn(h, b, more) /\ FoldLeft(ApplyAction, b, more) = h[N + 1]
  BY <1>2, Applications
<1>5. /\ g[0] = b /\ \A n \in 1..N : g[n] = ApplyAction(g[n - 1], s[n])
      /\ h[0] = b /\ \A n \in 1..(N + 1) : h[n] = ApplyAction(h[n - 1], more[n])
  BY <1>1, <1>2, <1>3, <1>4 DEF AppliedInTurn
<1> DEFINE Same == {n \in 0..N : g[n] = h[n]}
<1>6. 0 \in Same
  BY <1>5
<1>7. ASSUME NEW n \in 0..(N - 1), n \in Same PROVE n + 1 \in Same
  <2>1. n + 1 \in 1..N /\ n + 1 \in 1..(N + 1) /\ (n + 1) - 1 = n /\ n + 1 \in 0..N
    OBVIOUS
  <2>2. g[n + 1] = ApplyAction(g[n], s[n + 1]) /\ h[n + 1] = ApplyAction(h[n], more[n + 1])
    BY <1>5, <2>1
  <2>3. g[n] = h[n] /\ more[n + 1] = s[n + 1]
    BY <1>2, <1>7, <2>1
  <2> QED
    BY <2>1, <2>2, <2>3
<1>8. g[N] = h[N]
  <2> HIDE DEF Same
  <2>1. \A n \in 0..N : n \in Same
    BY <1>6, <1>7, Induct
  <2> QED
    BY <2>1 DEF Same
<1>9. h[N + 1] = ApplyAction(h[N], action)
  <2>1. N + 1 \in 1..(N + 1) /\ (N + 1) - 1 = N
    OBVIOUS
  <2> QED
    BY <1>2, <1>5, <2>1
<1> QED
  BY <1>3, <1>4, <1>8, <1>9 DEF more, Applied

\* The actions of a session are some of the world's, all of that session.
Today(s) == {action \in Action : action.at = s}

LEMMA DueIs ==
  ASSUME world \in Worlds, NEW s \in Session
  PROVE  /\ Sift(world.actions, LAMBDA action : action.at = s) \in Seq(Today(s))
         /\ \A b : ApplyActions(b, s) = Applied(b, Sift(world.actions, LAMBDA action : action.at = s))
<1> DEFINE actions == world.actions
           Now == {k \in DOMAIN actions : actions[k].at = s}
           list == Chosen(actions, Now)
<1>1. Sift(world.actions, LAMBDA action : action.at = s) = list
  BY DEF Sift
<1>2. \A b : ApplyActions(b, s) = Applied(b, Sift(world.actions, LAMBDA action : action.at = s))
  BY DEF ApplyActions, Applied
<1>3. actions \in Seq(Action)
  BY WorldsAssumption
<1>4. Now \in SUBSET DOMAIN actions /\ \A k \in Now : actions[k].at = s
  OBVIOUS
<1>5. list \in Seq(Today(s))
  <2> HIDE DEF actions, Now
  <2>1. /\ list \in Seq(Action) /\ DOMAIN list = 1..Cardinality(Now)
        /\ Cardinality(Now) \in Nat
        /\ \A n \in 1..Cardinality(Now) : Nth(Now, n) \in Now /\ list[n] = actions[Nth(Now, n)]
    BY <1>3, <1>4, ChosenIs
  <2> HIDE DEF list
  <2>2. \A n \in DOMAIN list : list[n] \in Action
    BY <2>1
  <2>3. \A n \in DOMAIN list : list[n] \in Today(s)
    BY <1>4, <2>1, <2>2 DEF Today
  <2> QED
    BY <2>1, <2>3
<1> QED
  BY <1>1, <1>2, <1>5

\* Nor does a session's list of them.
LEMMA ActionsSound ==
  ASSUME world \in Worlds, NEW b, Sound(b), NEW s \in Session
  PROVE  Sound(ApplyActions(b, s)) /\ SameOrders(b, ApplyActions(b, s))
<1> DEFINE Fits(list) == /\ Sound(Applied(b, list))
                         /\ SameOrders(b, Applied(b, list))
           P == {list \in Seq(Today(s)) : Fits(list)}
<1>1. << >> \in P
  <2>1. SameOrders(b, b) /\ << >> \in Seq(Today(s))
    BY DEF SameOrders
  <2> QED
    BY <2>1, NoAction
<1>2. ASSUME NEW list \in Seq(Today(s)), NEW action \in Today(s), list \in P
      PROVE  Append(list, action) \in P
  <2>1. action \in Action /\ action.at <= LAST
    BY RunAssumption DEF Today, Session
  <2> DEFINE c == Applied(b, list)
  <2>2. Sound(c) /\ SameOrders(b, c)
    BY <1>2
  <2>3. Applied(b, Append(list, action)) = ApplyAction(c, action)
    <3> HIDE DEF P, Fits
    <3> QED
      BY OneMoreAction
  <2> HIDE DEF c
  <2>4. Sound(ApplyAction(c, action)) /\ SameOrders(c, ApplyAction(c, action))
    BY <2>1, <2>2, ActionSound
  <2>5. SameOrders(b, ApplyAction(c, action))
    BY <2>2, <2>4 DEF SameOrders
  <2>6. Append(list, action) \in Seq(Today(s))
    OBVIOUS
  <2> QED
    BY <2>3, <2>4, <2>5, <2>6
<1> HIDE DEF P
<1>3. \A list \in Seq(Today(s)) : list \in P
  BY <1>1, <1>2, ListInduct
<1> QED
  BY <1>3, DueIs DEF P

LEMMA EmptySound == Sound(EmptyBook)
<1> DEFINE b == EmptyBook
           none == [x \in {} |-> 0]
<1>1. /\ IsBook(b) /\ b.orders = {} /\ b.fills = {} /\ b.settled = {} /\ b.ledger = {}
      /\ b.rejections = {} /\ b.lots = [i \in Instrument |-> << >>]
  BY DEF EmptyBook, IsBook
<1> HIDE DEF b
<1>2. SumFunction(none) = 0
  <2>1. DOMAIN none = {}
    OBVIOUS
  <2> HIDE DEF none
  <2> QED
    BY <2>1, FS_EmptySet, Sums
<1>3. Owes(b) = 0 /\ IsOwed(b) = 0
  <2>1. \A side : Unsettled(b, side) = {}
    BY <1>1 DEF Unsettled
  <2>2. /\ [x \in Unsettled(b, "BUY") |-> x.gross + x.fee] = none
        /\ [x \in Unsettled(b, "SELL") |-> x.gross - x.fee] = none
    BY <2>1
  <2> QED
    BY <1>2, <2>2 DEF Owes, IsOwed
<1>4. \A account : Balance(b, account, LAST) = 0
  <2> TAKE account
  <2>1. {t \in b.ledger : t.at <= LAST} = {}
    BY <1>1
  <2>2. [t \in {x \in b.ledger : x.at <= LAST} |-> Amount(t, account)] = none
    BY <2>1
  <2> QED
    BY <1>2, <2>2 DEF Balance
<1>5. LegsFit(b)
  BY <1>3, <1>4 DEF LegsFit
<1>6. OrdersFit(b) /\ FillsFit(b) /\ LedgerFits(b) /\ LotsFit(b)
  BY <1>1, FS_EmptySet DEF OrdersFit, FillsFit, LedgerFits, LotsFit
<1> QED
  BY <1>1, <1>5, <1>6 DEF b, Sound

-----------------------------------------------------------------------------
(* The run. *)

\* What holds of every state: the rows, and where the process is.
Shape ==
  /\ world \in Worlds /\ Sound(book)
  /\ bundles \in [Session -> Decisions \cup {NotSealed}]
  /\ session \in Session /\ phase \in Phase /\ reached \in session..LAST
  /\ todo \subseteq Instrument \X {"BUY", "SELL"} /\ runs \in 0..MAX_RUNS

LEMMA ShapeInit == Init => Shape
<1> SUFFICES ASSUME Init PROVE Shape
  OBVIOUS
<1>1. LAST \in Nat /\ MAX_RUNS \in Nat
  BY RunAssumption
<1>2. Sound(book)
  BY EmptySound DEF Init
<1>3. 0 \in Session /\ "fund" \in Phase
  BY <1>1 DEF Session, Phase
<1> QED
  BY <1>1, <1>2, <1>3 DEF Init, Shape

\* The order that a running session places.
LEMMA PlacedIs ==
  ASSUME Shape, NEW intent \in todo
  PROVE  /\ NewOrder(book, intent, session) \in Order
         /\ NewOrder(book, intent, session).due > session
         /\ NewOrder(book, intent, session).decided = session
<1>1. intent[1] \in Instrument /\ intent[2] \in Side /\ session \in Session
  BY DEF Shape, Side
<1>2. Size(book, intent[1], intent[2], session) \in Nat
  BY <1>1, SizeIs DEF Shape
<1>3. Window[intent[1]][session] \in Nat /\ Window[intent[1]][session] > session
  BY <1>1, RunAssumption
<1> QED
  BY <1>1, <1>2, <1>3 DEF NewOrder, Order

\* The order that a running session fills.
LEMMA NextOrderIs ==
  ASSUME Shape, DueOrders(book, session) # {}
  PROVE  /\ NextOrder \in book.orders /\ NextOrder.due <= session
         /\ ~Filled(book, OrderId(NextOrder)) /\ ~Rejected(book, OrderId(NextOrder))
<1> DEFINE orders == DueOrders(book, session)
           Times == {order.decided : order \in orders}
<1>1. \A order \in orders : order \in Order /\ order.decided \in Nat
  <2>1. \A order \in orders : order \in Order
    BY DEF DueOrders, Shape, Sound, OrdersFit
  <2> QED
    BY <2>1, IdIs
<1>2. Times \in SUBSET Nat /\ Times # {}
  BY <1>1
<1>3. PICK n \in Times : \A m \in Times : n <= m
  BY <1>2, LeastOf
<1>4. \E order \in orders : \A other \in orders : order.decided <= other.decided
  BY <1>3
<1>5. NextOrder \in orders
  BY <1>4 DEF NextOrder, FirstDue
<1> QED
  BY <1>5 DEF DueOrders

LEMMA ShapeNext == Shape /\ [Next]_vars => Shape'
<1> SUFFICES ASSUME Shape, [Next]_vars PROVE Shape'
  OBVIOUS
<1> USE DEF Shape
<1>1. CASE FundBook
  <2>1. Sound(book)'
    BY <1>1, FundSound DEF FundBook
  <2> QED
    BY <1>1, <2>1 DEF FundBook, After, Phase
<1>2. CASE SettleOne
  <2>1. NextFill(book, session) \in DueFills(book, session)
    BY <1>2 DEF SettleOne, NextFill
  <2>2. Sound(book)'
    BY <1>2, <2>1, SettleSound DEF SettleOne
  <2> QED
    BY <1>2, <2>2 DEF SettleOne, process
<1>3. CASE SettledAll
  BY <1>3 DEF SettledAll, After, Phase
<1>4. CASE ApplyCorporateActions
  <2>1. Sound(book)'
    BY <1>4, ActionsSound DEF ApplyCorporateActions
  <2> QED
    BY <1>4, <2>1 DEF ApplyCorporateActions, After, Phase
<1>5. CASE FillOne
  <2>1. /\ NextOrder \in book.orders
        /\ ~Filled(book, OrderId(NextOrder)) /\ ~Rejected(book, OrderId(NextOrder))
    BY <1>5, NextOrderIs DEF FillOne
  <2>2. book' = Execute(book, NextOrder, session)
    BY <1>5 DEF FillOne
  <2>3. Sound(book)'
    BY <2>1, <2>2, ExecuteSound
  <2> QED
    BY <1>5, <2>3 DEF FillOne, process
<1>6. CASE RaiseOverClose
  BY <1>6 DEF RaiseOverClose, Phase
<1>7. CASE FilledAll
  BY <1>7 DEF FilledAll, After, Phase
<1>8. CASE Decide
  <2>1. PICK intents \in Decisions :
          bundles' = [bundles EXCEPT ![session] = intents] /\ todo' = intents
    BY <1>8 DEF Decide
  <2>2. intents \subseteq Instrument \X {"BUY", "SELL"}
    BY RunAssumption
  <2> QED
    BY <1>8, <2>1, <2>2 DEF Decide, After, Phase
<1>9. CASE LoadSealed
  <2>1. bundles[session] \in Decisions
    BY <1>9 DEF LoadSealed
  <2>2. bundles[session] \subseteq Instrument \X {"BUY", "SELL"}
    BY <2>1, RunAssumption
  <2> QED
    BY <1>9, <2>2 DEF LoadSealed, After, Phase
<1>10. CASE DecideMissing
  BY <1>10 DEF DecideMissing, After, Phase
<1>11. CASE PlaceOne
  <2>1. PICK intent \in todo : /\ book' = RecordOrder(book, NewOrder(book, intent, session))
                               /\ todo' = todo \ {intent}
    BY <1>11 DEF PlaceOne
  <2> DEFINE order == NewOrder(book, intent, session)
  <2>2. order \in Order /\ order.due > order.decided
    BY PlacedIs
  <2> HIDE DEF order
  <2>3. Sound(book)'
    BY <2>1, <2>2, RecordOrderSound DEF order
  <2> QED
    BY <1>11, <2>1, <2>3 DEF PlaceOne
<1>12. CASE RejectShort
  <2>1. Sound(book)'
    BY <1>12, RejectSound DEF RejectShort
  <2> QED
    BY <1>12, <2>1 DEF RejectShort
<1>13. CASE PlacedAll
  BY <1>13 DEF PlacedAll, After, Phase
<1>14. CASE NextSession
  BY <1>14, RunAssumption DEF NextSession, Phase, Session, Most
<1>15. CASE Finish
  BY <1>15 DEF Finish, Phase
<1>16. CASE RunAgain
  <2>1. reached \in 0..LAST /\ 0 \in Session /\ runs + 1 \in 0..MAX_RUNS
    BY <1>16, RunAssumption DEF RunAgain, Session
  <2> QED
    BY <1>16, <2>1 DEF RunAgain, Phase
<1>17. CASE UNCHANGED vars
  BY <1>17 DEF vars
<1> QED
  BY <1>1, <1>2, <1>3, <1>4, <1>5, <1>6, <1>7, <1>8, <1>9, <1>10, <1>11, <1>12, <1>13,
     <1>14, <1>15, <1>16, <1>17 DEF Next, Step

LEMMA ShapeAlways == Spec => []Shape
BY ShapeInit, ShapeNext, PTL DEF Spec

\* Types, for any world and calendar.  The rows that a settlement or an outcome
\* refers to are there, and an order is never for less than nothing.
THEOREM ShapesHold == Spec => []TypeOK
<1>1. Shape => TypeOK
  <2> SUFFICES ASSUME Shape PROVE TypeOK
    OBVIOUS
  <2>1. OrdersFit(book) /\ FillsFit(book)
    BY DEF Shape, Sound
  <2>2. \A order \in book.orders : order.quantity \in Nat /\ order.due > order.decided
    BY <2>1 DEF OrdersFit, Order
  <2>3. \A fill \in book.fills : fill.gross \in Nat /\ fill.at \in Session
    BY <2>1 DEF FillsFit, FilledRow
  <2> QED
    BY <2>1, <2>2, <2>3 DEF Shape, TypeOK, FillsFit
<1> QED
  BY <1>1, ShapeAlways, PTL

\* However often the run is interrupted and started again, what the ledger owes and
\* is owed is the fills that no settlement names: no leg is settled twice, lost, or
\* settled for another amount than was booked.
THEOREM LegsAlwaysUnsettledFills == Spec => []LegsAreUnsettledFills
<1>1. Shape => LegsAreUnsettledFills
  BY DEF Shape, Sound, LegsFit, Owes, IsOwed, Unsettled, LegsAreUnsettledFills
<1> QED
  BY <1>1, ShapeAlways, PTL

-----------------------------------------------------------------------------
(* The outcomes of orders. *)

\* Rows of outcomes are one per order, and past the filling of a session every order
\* that was due has one.
Outcomes ==
  /\ \A r, other \in book.rejections : r.order = other.order => r = other
  /\ phase \in {"decide", "place", "done"} =>
       \A order \in book.orders :
         order.due <= session => Filled(book, OrderId(order)) \/ Rejected(book, OrderId(order))
  /\ short # NoShortfall => phase = "place"

\* What the first run adds: it fills orders of earlier sessions and turns down those
\* of its own.  A later run comes to a session whose orders were filled already.
FirstRun ==
  runs = 0 =>
    /\ \A fill \in book.fills : fill.order[1] < session
    /\ \A id : ~(Filled(book, id) /\ Rejected(book, id))
    /\ short # NoShortfall => short[1][1] = session

Answers == Outcomes /\ FirstRun

LEMMA AnswersInit == Init => Answers
BY DEF Init, Answers, Outcomes, FirstRun, EmptyBook, Filled, Rejected, NoShortfall

\* Nothing changes for a book with the same orders and outcomes.
LEMMA SameAnswers ==
  ASSUME Answers, SameOrders(book, book'), short' = short, session' = session, runs' = runs,
         \/ phase' = phase
         \/ phase # "place" /\ phase' \notin {"decide", "place", "done"}
         \/ phase \in {"decide", "place", "done"} /\ short = NoShortfall
  PROVE  Answers'
<1>1. /\ book'.orders = book.orders /\ book'.fills = book.fills
      /\ book'.rejections = book.rejections
  BY DEF SameOrders
<1>2. \A id : (Filled(book, id)' <=> Filled(book, id)) /\ (Rejected(book, id)' <=> Rejected(book, id))
  BY <1>1 DEF Filled, Rejected
<1>3. Outcomes'
  BY <1>1, <1>2 DEF Answers, Outcomes
<1>4. FirstRun'
  BY <1>1, <1>2 DEF Answers, FirstRun
<1> QED
  BY <1>3, <1>4 DEF Answers

LEMMA AnswersFill == Shape /\ Answers /\ FillOne => Answers'
<1> SUFFICES ASSUME Shape, Answers, FillOne PROVE Answers'
  OBVIOUS
<1> DEFINE order == NextOrder
           id == OrderId(order)
<1>1. /\ phase = "fill" /\ phase' = "fill" /\ session' = session /\ runs' = runs
      /\ short = NoShortfall /\ short' = short /\ book' = Execute(book, order, session)
  BY DEF FillOne, process, Answers, Outcomes
<1>2. order \in book.orders /\ order.due <= session /\ ~Filled(book, id) /\ ~Rejected(book, id)
  BY NextOrderIs DEF FillOne
<1>3. order \in Order /\ order.due > order.decided
  BY <1>2 DEF Shape, Sound, OrdersFit
<1> HIDE DEF order
<1>4. id[1] < session
  <2>1. id[1] = order.decided /\ order.decided \in Nat /\ order.due \in Nat
    BY <1>3, IdIs
  <2>2. session \in Nat
    BY RunAssumption DEF Shape, Session
  <2> QED
    BY <1>2, <1>3, <2>1, <2>2
<1> HIDE DEF id
<1>5. \/ /\ book'.rejections = book.rejections
         /\ \E row : row.order = id /\ book'.fills = book.fills \cup {row}
      \/ /\ book'.fills = book.fills
         /\ \E row : row.order = id /\ book'.rejections = book.rejections \cup {row}
  BY <1>1, <1>2, ExecuteSound DEF Shape, id
<1>6. CASE /\ book'.rejections = book.rejections
           /\ \E row : row.order = id /\ book'.fills = book.fills \cup {row}
  <2>1. PICK row : row.order = id /\ book'.fills = book.fills \cup {row}
    BY <1>6
  <2>2. \A x : /\ Filled(book, x)' <=> Filled(book, x) \/ x = id
               /\ Rejected(book, x)' <=> Rejected(book, x)
    BY <1>6, <2>1 DEF Filled, Rejected
  <2>3. Outcomes'
    BY <1>1, <1>6 DEF Answers, Outcomes
  <2>4. FirstRun'
    BY <1>1, <1>2, <1>4, <1>6, <2>1, <2>2 DEF Answers, FirstRun
  <2> QED
    BY <2>3, <2>4 DEF Answers
<1>7. CASE /\ book'.fills = book.fills
           /\ \E row : row.order = id /\ book'.rejections = book.rejections \cup {row}
  <2>1. PICK row : row.order = id /\ book'.rejections = book.rejections \cup {row}
    BY <1>7
  <2>2. \A x : /\ Filled(book, x)' <=> Filled(book, x)
               /\ Rejected(book, x)' <=> Rejected(book, x) \/ x = id
    BY <1>7, <2>1 DEF Filled, Rejected
  <2>3. Outcomes'
    BY <1>1, <1>2, <2>1 DEF Answers, Outcomes, Rejected
  <2>4. FirstRun'
    BY <1>1, <1>2, <1>7, <2>2 DEF Answers, FirstRun
  <2> QED
    BY <2>3, <2>4 DEF Answers
<1> QED
  BY <1>5, <1>6, <1>7

LEMMA AnswersPlace == Shape /\ Answers /\ PlaceOne => Answers'
<1> SUFFICES ASSUME Shape, Answers, PlaceOne PROVE Answers'
  OBVIOUS
<1>1. PICK intent \in todo :
        \E order \in {NewOrder(book, intent, session)} :
          /\ book' = RecordOrder(book, order)
          /\ short' = IF order.quantity > 0 THEN NoShortfall
                      ELSE <<OrderId(order), Shortfall(book, intent[2], session)>>
  BY DEF PlaceOne
<1> DEFINE order == NewOrder(book, intent, session)
           id == OrderId(order)
<1>2. /\ phase = "place" /\ phase' = "place" /\ session' = session /\ runs' = runs
  BY DEF PlaceOne
<1>3. /\ book' = RecordOrder(book, order)
      /\ short' # NoShortfall => short' = <<id, Shortfall(book, intent[2], session)>>
  BY <1>1
<1>4. order \in Order /\ order.due > session /\ order.decided = session
  BY PlacedIs
<1> HIDE DEF order
<1>5. id[1] = session
  BY <1>4, IdIs
<1>6. /\ book'.fills = book.fills /\ book'.rejections = book.rejections
      /\ book'.orders \subseteq book.orders \cup {order}
  <2>1. order.due > order.decided
    BY <1>4
  <2>2. Sound(book)
    BY DEF Shape
  <2>3. /\ RecordOrder(book, order).fills = book.fills
        /\ RecordOrder(book, order).rejections = book.rejections
        /\ RecordOrder(book, order).orders =
             IF \E placed \in book.orders : OrderId(placed) = OrderId(order) THEN book.orders
             ELSE book.orders \cup {order}
    BY <1>4, <2>1, <2>2, RecordOrderSound
  <2> QED
    BY <1>3, <2>3
<1> HIDE DEF id
<1>7. \A x : (Filled(book, x)' <=> Filled(book, x)) /\ (Rejected(book, x)' <=> Rejected(book, x))
  BY <1>6 DEF Filled, Rejected
<1>8. ~(order.due <= session)
  <2>1. order.due \in Nat /\ session \in Nat
    BY <1>4, RunAssumption DEF Order, Shape, Session
  <2> QED
    BY <1>4, <2>1
<1>9. Outcomes'
  BY <1>2, <1>6, <1>7, <1>8 DEF Answers, Outcomes
<1>10. short' # NoShortfall => short'[1][1] = session
  BY <1>3, <1>5
<1>11. FirstRun'
  BY <1>2, <1>6, <1>7, <1>10 DEF Answers, FirstRun
<1> QED
  BY <1>9, <1>11 DEF Answers

LEMMA AnswersReject == Shape /\ Answers /\ RejectShort => Answers'
<1> SUFFICES ASSUME Shape, Answers, RejectShort PROVE Answers'
  OBVIOUS
<1> DEFINE id == short[1]
<1>1. /\ short # NoShortfall /\ short' = NoShortfall /\ phase = "place" /\ phase' = phase
      /\ session' = session /\ runs' = runs /\ book' = Reject(book, id, short[2])
  BY DEF RejectShort, Answers, Outcomes
<1>2. runs = 0 => id[1] = session
  BY <1>1 DEF Answers, FirstRun
<1>3. /\ book'.orders = book.orders /\ book'.fills = book.fills
      /\ \/ Rejected(book, id) /\ book'.rejections = book.rejections
         \/ /\ ~Rejected(book, id)
            /\ \E row : row.order = id /\ book'.rejections = book.rejections \cup {row}
  BY <1>1, RejectSound DEF Shape
<1>4. runs = 0 => ~Filled(book, id)
  <2>1. session \in Nat
    BY RunAssumption DEF Shape, Session
  <2> QED
    BY <1>2, <2>1 DEF Answers, FirstRun, Filled
<1> HIDE DEF id
<1>5. \A x : /\ Filled(book, x)' <=> Filled(book, x)
             /\ Rejected(book, x)' <=> Rejected(book, x) \/ x = id
  BY <1>3 DEF Filled, Rejected
<1>6. \A r, other \in book'.rejections : r.order = other.order => r = other
  BY <1>3 DEF Answers, Outcomes, Rejected
<1>7. Outcomes'
  BY <1>1, <1>3, <1>5, <1>6 DEF Answers, Outcomes
<1>8. FirstRun'
  BY <1>1, <1>3, <1>4, <1>5 DEF Answers, FirstRun
<1> QED
  BY <1>7, <1>8 DEF Answers

LEMMA AnswersNext == Shape /\ Answers /\ [Next]_vars => Answers'
<1> SUFFICES ASSUME Shape, Answers, [Next]_vars PROVE Answers'
  OBVIOUS
<1>0. SameOrders(book, book)
  BY DEF SameOrders
<1>1. CASE FundBook
  <2>1. SameOrders(book, Fund(book))
    BY DEF Fund, Post, SameOrders, Shape, Sound, IsBook
  <2> QED
    BY <1>1, <2>1, SameAnswers DEF FundBook, After
<1>2. CASE SettleOne
  <2>1. NextFill(book, session) \in DueFills(book, session)
    BY <1>2 DEF SettleOne, NextFill
  <2>2. SameOrders(book, book')
    BY <1>2, <2>1, SettleSound DEF SettleOne, Shape, SameOrders
  <2> QED
    BY <1>2, <2>2, SameAnswers DEF SettleOne, process
<1>3. CASE SettledAll
  BY <1>0, <1>3, SameAnswers DEF SettledAll, After
<1>4. CASE ApplyCorporateActions
  <2>1. SameOrders(book, book')
    BY <1>4, ActionsSound DEF ApplyCorporateActions, Shape
  <2> QED
    BY <1>4, <2>1, SameAnswers DEF ApplyCorporateActions, After
<1>5. CASE FillOne
  BY <1>5, AnswersFill
<1>6. CASE RaiseOverClose
  BY <1>0, <1>6, SameAnswers DEF RaiseOverClose
<1>7. CASE FilledAll
  <2>1. /\ book' = book /\ session' = session /\ runs' = runs /\ phase' = "decide"
        /\ short' = short /\ short = NoShortfall
        /\ \A order \in book.orders :
             order.due <= session => Filled(book, OrderId(order)) \/ Rejected(book, OrderId(order))
    BY <1>7 DEF FilledAll, After, DueOrders, Answers, Outcomes
  <2>2. Outcomes'
    BY <2>1 DEF Answers, Outcomes
  <2>3. FirstRun'
    BY <2>1 DEF Answers, FirstRun
  <2> QED
    BY <2>2, <2>3 DEF Answers
<1>8. CASE Decide
  BY <1>0, <1>8, SameAnswers DEF Decide, Answers, Outcomes
<1>9. CASE LoadSealed
  BY <1>0, <1>9, SameAnswers DEF LoadSealed, Answers, Outcomes
<1>10. CASE DecideMissing
  BY <1>0, <1>10, SameAnswers DEF DecideMissing, Answers, Outcomes
<1>11. CASE PlaceOne
  BY <1>11, AnswersPlace
<1>12. CASE RejectShort
  BY <1>12, AnswersReject
<1>13. CASE PlacedAll
  BY <1>0, <1>13, SameAnswers DEF PlacedAll
<1>14. CASE NextSession
  <2>1. /\ book' = book /\ session' = session + 1 /\ runs' = runs /\ phase' = "settle"
        /\ short' = short /\ short = NoShortfall
    BY <1>14 DEF NextSession, Answers, Outcomes
  <2>2. Outcomes'
    BY <2>1 DEF Answers, Outcomes
  <2>3. \A fill \in book.fills : fill.order[1] < session => fill.order[1] < session + 1
    <3>1. \A fill \in book.fills : fill.order[1] \in Nat
      <4>1. \A fill \in book.fills : fill.order \in Id
        BY DEF Shape, Sound, FillsFit, FilledRow
      <4> QED
        BY <4>1, RunAssumption DEF Id, Session
    <3>2. session \in Nat
      BY RunAssumption DEF Shape, Session
    <3> QED
      BY <3>1, <3>2
  <2>4. FirstRun'
    BY <2>1, <2>3 DEF Answers, FirstRun
  <2> QED
    BY <2>2, <2>4 DEF Answers
<1>15. CASE Finish
  BY <1>0, <1>15, SameAnswers DEF Finish, Answers, Outcomes
<1>16. CASE RunAgain
  <2>1. /\ book' = book /\ runs' # 0 /\ phase' = "fund" /\ short' = NoShortfall
    BY <1>16, RunAssumption DEF RunAgain, Shape
  <2>2. Outcomes'
    BY <2>1 DEF Answers, Outcomes
  <2> QED
    BY <2>1, <2>2 DEF Answers, FirstRun
<1>17. CASE UNCHANGED vars
  BY <1>0, <1>17, SameAnswers DEF vars
<1> QED
  BY <1>1, <1>2, <1>3, <1>4, <1>5, <1>6, <1>7, <1>8, <1>9, <1>10, <1>11, <1>12, <1>13,
     <1>14, <1>15, <1>16, <1>17 DEF Next, Step

LEMMA AnswersAlways == Spec => []Answers
BY AnswersInit, AnswersNext, ShapeAlways, PTL DEF Spec

\* The rows about one order are one or none, if no two are about the same.
LEMMA AtMostOne ==
  ASSUME NEW rows, \A r, other \in rows : r.order = other.order => r = other, NEW id
  PROVE  Cardinality({r \in rows : r.order = id}) = IF \E r \in rows : r.order = id THEN 1 ELSE 0
<1>1. CASE \E r \in rows : r.order = id
  <2>1. PICK r \in rows : r.order = id
    BY <1>1
  <2>2. {x \in rows : x.order = id} = {r}
    BY <2>1
  <2>3. Cardinality({r}) = 1
    BY FS_Singleton
  <2> QED
    BY <1>1, <2>2, <2>3
<1>2. CASE ~ \E r \in rows : r.order = id
  <2>1. {x \in rows : x.order = id} = {}
    BY <1>2
  <2> QED
    BY <1>2, <2>1, FS_EmptySet
<1> QED
  BY <1>1, <1>2

\* The half of AnsweredOnce that every run keeps.
NoneIsPassedOver ==
  phase \in {"decide", "place", "done"} =>
    \A order \in book.orders :
      order.due <= session => Filled(book, OrderId(order)) \/ Rejected(book, OrderId(order))

\* Past the filling of a session, in whichever run, every order that was due by then
\* has a fill or a rejection: none is passed over.
THEOREM DueOrdersAreAnswered == Spec => []NoneIsPassedOver
<1>1. Answers => NoneIsPassedOver
  BY DEF Answers, Outcomes, NoneIsPassedOver
<1> QED
  BY <1>1, AnswersAlways, PTL

\* As long as the run has not been started again no order has two outcomes, and each
\* that was due has one.
THEOREM FirstRunAnswersOnce == Spec => [](runs = 0 => AnsweredOnce)
<1>1. Shape /\ Answers => (runs = 0 => AnsweredOnce)
  <2> SUFFICES ASSUME Shape, Answers, runs = 0, NEW order \in book.orders
               PROVE  LET outcomes ==
                            Cardinality({fill \in book.fills : fill.order = OrderId(order)})
                              + Cardinality({r \in book.rejections : r.order = OrderId(order)})
                      IN  /\ outcomes <= 1
                          /\ phase \in {"decide", "place", "done"} /\ order.due <= session
                               => outcomes = 1
    BY DEF AnsweredOnce
  <2> DEFINE id == OrderId(order)
  <2>1. Cardinality({fill \in book.fills : fill.order = id})
          = IF Filled(book, id) THEN 1 ELSE 0
    <3>1. \A f, other \in book.fills : f.order = other.order => f = other
      BY DEF Shape, Sound, FillsFit
    <3> HIDE DEF id
    <3> QED
      BY <3>1, AtMostOne DEF Filled
  <2>2. Cardinality({r \in book.rejections : r.order = id})
          = IF Rejected(book, id) THEN 1 ELSE 0
    <3>1. \A r, other \in book.rejections : r.order = other.order => r = other
      BY DEF Answers, Outcomes
    <3> HIDE DEF id
    <3> QED
      BY <3>1, AtMostOne DEF Rejected
  <2>3. ~(Filled(book, id) /\ Rejected(book, id))
    BY DEF Answers, FirstRun
  <2>4. phase \in {"decide", "place", "done"} /\ order.due <= session
          => Filled(book, id) \/ Rejected(book, id)
    BY DEF Answers, Outcomes
  <2> HIDE DEF id
  <2>5. LET outcomes == Cardinality({fill \in book.fills : fill.order = id})
                          + Cardinality({r \in book.rejections : r.order = id})
        IN  /\ outcomes <= 1
            /\ phase \in {"decide", "place", "done"} /\ order.due <= session => outcomes = 1
    BY <2>1, <2>2, <2>3, <2>4
  <2> QED
    BY <2>5 DEF id
<1> QED
  BY <1>1, ShapeAlways, AnswersAlways, PTL

-----------------------------------------------------------------------------
(* What the lots cost, and what the ledger carries them at. *)

\* The sessions whose decisions came to a purchase of an instrument, or to a sale.
Bought(b, i) == {d \in Session : Filled(b, <<d, i, "BUY">>)}
SoldOn(b, i) == {d \in Session : Filled(b, <<d, i, "SELL">>)}

\* The rows of a position are of those and of the claimed splits, all of them by now:
\* the next one is then a row of its own, at the end of what is known.
Carried(b, i, s) ==
  /\ Table!Traced(b.lots[i], s, Bought(b, i), SoldOn(b, i), b.claims)
  /\ Balance(b, Position(i), LAST) = CostBasis(Fold(b.lots[i]))

AtCost(b) == \A t \in b.ledger : \A i \in Instrument : Amount(t, Position(i)) \in Int

Accounted(b, s) == AtCost(b) /\ \A i \in Instrument : Carried(b, i, s)

Aside == {Cash, Payable, Receivable, Fees, OpeningEquity, DividendIncome, RealizedPnl}

LEMMA PositionsDiffer ==
  /\ \A i : \A account \in Aside : account # Position(i)
  /\ \A i, j : Position(i) = Position(j) => i = j
BY DEF Aside, Cash, Payable, Receivable, Fees, OpeningEquity, DividendIncome, RealizedPnl, Position

\* A transaction that is about other accounts says nothing of a position.
LEMMA SaysNothing ==
  ASSUME NEW t, \A l \in t.postings : l.account \in Aside
  PROVE  \A i \in Instrument : Amount(t, Position(i)) = 0
<1> TAKE i \in Instrument
<1>1. \A l \in t.postings : l.account # Position(i)
  BY PositionsDiffer
<1> QED
  BY <1>1, AmountIs

LEMMA MoreFilled ==
  ASSUME NEW b, NEW c, b.fills \subseteq c.fills
  PROVE  \A i : Bought(b, i) \subseteq Bought(c, i) /\ SoldOn(b, i) \subseteq SoldOn(c, i)
BY DEF Bought, SoldOn, Filled

\* The balance of a position moves by what is posted to it.
LEMMA PositionMoves ==
  ASSUME NEW b, IsFiniteSet(b.ledger), AtCost(b), NEW c, NEW t,
         c.ledger = b.ledger \cup {t}, t.at <= LAST,
         NEW i \in Instrument, Amount(t, Position(i)) \in Int,
         t \notin b.ledger \/ Amount(t, Position(i)) = 0
  PROVE  /\ Balance(b, Position(i), LAST) \in Int
         /\ Balance(c, Position(i), LAST) = Amount(t, Position(i)) + Balance(b, Position(i), LAST)
<1> DEFINE account == Position(i)
<1>1. \A x \in b.ledger : Amount(x, account) \in Int
  BY DEF AtCost
<1> HIDE DEF account
<1>2. Balance(b, account, LAST) \in Int
  BY <1>1, BalanceIs
<1>3. CASE t \notin b.ledger
  <2>1. Amount(t, account) \in Int
    BY DEF account
  <2>2. Balance(c, account, LAST) = Amount(t, account) + Balance(b, account, LAST)
    BY <1>1, <1>3, <2>1, BalanceGrows
  <2> QED
    BY <1>2, <2>2 DEF account
<1>4. CASE t \in b.ledger
  <2>1. c.ledger = b.ledger
    BY <1>4
  <2>2. Balance(c, account, LAST) = Balance(b, account, LAST)
    BY <2>1 DEF Balance
  <2>3. Amount(t, account) = 0
    BY <1>4 DEF account
  <2> QED
    BY <1>2, <2>2, <2>3 DEF account
<1> QED
  BY <1>3, <1>4

\* A position stays carried at what its lots cost while neither moves.
LEMMA StillCarried ==
  ASSUME NEW b, NEW c, NEW i \in Instrument, NEW s \in Nat, Carried(b, i, s),
         c.lots[i] = b.lots[i], b.fills \subseteq c.fills, b.claims \subseteq c.claims,
         Balance(c, Position(i), LAST) = Balance(b, Position(i), LAST)
  PROVE  Carried(c, i, s)
<1> DEFINE table == b.lots[i]
           bought == Bought(b, i)
           sold == SoldOn(b, i)
           moreBought == Bought(c, i)
           moreSold == SoldOn(c, i)
<1>1. bought \subseteq moreBought /\ sold \subseteq moreSold
  BY MoreFilled
<1>2. Table!Traced(table, s, bought, sold, b.claims)
  BY DEF Carried
<1>3. s <= s
  OBVIOUS
<1> HIDE DEF table, bought, sold, moreBought, moreSold
<1>4. Table!Traced(table, s, moreBought, moreSold, c.claims)
  BY <1>1, <1>2, <1>3, Table!TracedMore
<1> QED
  BY <1>4 DEF Carried, table, moreBought, moreSold

LEMMA StillAccounted ==
  ASSUME NEW b, Sound(b), NEW s \in Nat, Accounted(b, s), NEW c, c.lots = b.lots,
         b.fills \subseteq c.fills, b.claims \subseteq c.claims,
         \/ c.ledger = b.ledger
         \/ \E t : /\ c.ledger = b.ledger \cup {t} /\ t.at <= LAST
                   /\ \A i \in Instrument : Amount(t, Position(i)) = 0
  PROVE  Accounted(c, s)
<1>1. AtCost(b) /\ IsFiniteSet(b.ledger)
  BY DEF Accounted, Sound, LedgerFits
<1>2. CASE c.ledger = b.ledger
  <2>1. \A i \in Instrument : Balance(c, Position(i), LAST) = Balance(b, Position(i), LAST)
    BY <1>2 DEF Balance
  <2>2. AtCost(c)
    BY <1>1, <1>2 DEF AtCost
  <2>3. \A i \in Instrument : Carried(c, i, s)
    BY <2>1, StillCarried DEF Accounted
  <2> QED
    BY <2>2, <2>3 DEF Accounted
<1>3. CASE \E t : /\ c.ledger = b.ledger \cup {t} /\ t.at <= LAST
                  /\ \A i \in Instrument : Amount(t, Position(i)) = 0
  <2>1. PICK t : /\ c.ledger = b.ledger \cup {t} /\ t.at <= LAST
                 /\ \A i \in Instrument : Amount(t, Position(i)) = 0
    BY <1>3
  <2>2. ASSUME NEW i \in Instrument
        PROVE  Balance(c, Position(i), LAST) = Balance(b, Position(i), LAST)
    <3>1. Amount(t, Position(i)) \in Int /\ Amount(t, Position(i)) = 0
      BY <2>1
    <3>2. /\ Balance(b, Position(i), LAST) \in Int
          /\ Balance(c, Position(i), LAST) = Amount(t, Position(i)) + Balance(b, Position(i), LAST)
      BY <1>1, <2>1, <3>1, PositionMoves
    <3> QED
      BY <3>1, <3>2
  <2>3. AtCost(c)
    BY <1>1, <2>1 DEF AtCost
  <2>4. \A i \in Instrument : Carried(c, i, s)
    BY <2>2, StillCarried DEF Accounted
  <2> QED
    BY <2>3, <2>4 DEF Accounted
<1> QED
  BY <1>2, <1>3

\* The rows of a session are as well rows of the next.
LEMMA AccountedLater ==
  ASSUME NEW b, NEW s \in Nat, Accounted(b, s)
  PROVE  Accounted(b, s + 1)
<1> SUFFICES ASSUME NEW i \in Instrument PROVE Carried(b, i, s + 1)
  BY DEF Accounted
<1> DEFINE table == b.lots[i]
           bought == Bought(b, i)
           sold == SoldOn(b, i)
<1>1. Carried(b, i, s)
  BY DEF Accounted
<1>2. Table!Traced(table, s, bought, sold, b.claims)
  BY <1>1 DEF Carried
<1>3. s <= s + 1 /\ s + 1 \in Nat
  OBVIOUS
<1> HIDE DEF table, bought, sold
<1>4. Table!Traced(table, s + 1, bought, sold, b.claims)
  BY <1>2, <1>3, Table!TracedMore
<1> QED
  BY <1>1, <1>4 DEF Carried, table, bought, sold

LEMMA NoneAccounted == ASSUME NEW s PROVE Accounted(EmptyBook, s)
<1> DEFINE b == EmptyBook
           none == [x \in {} |-> 0]
<1>1. b.ledger = {} /\ b.lots = [i \in Instrument |-> << >>]
  BY DEF EmptyBook
<1> HIDE DEF b
<1>2. SumFunction(none) = 0
  <2>1. DOMAIN none = {}
    OBVIOUS
  <2> HIDE DEF none
  <2> QED
    BY <2>1, FS_EmptySet, Sums
<1>3. \A account : Balance(b, account, LAST) = 0
  <2> TAKE account
  <2>1. {t \in b.ledger : t.at <= LAST} = {}
    BY <1>1
  <2>2. [t \in {x \in b.ledger : x.at <= LAST} |-> Amount(t, account)] = none
    BY <2>1
  <2> QED
    BY <1>2, <2>2 DEF Balance
<1>4. ASSUME NEW i \in Instrument PROVE Carried(b, i, s)
  <2> DEFINE bought == Bought(b, i)
             sold == SoldOn(b, i)
  <2>1. Table!Traced(<< >>, s, bought, sold, b.claims)
        /\ Table!CostBasis(Table!Fold(<< >>)) = 0
    <3> HIDE DEF bought, sold
    <3> QED
      BY Table!NoneTraced
  <2>2. b.lots[i] = << >>
    BY <1>1
  <2> QED
    BY <1>3, <2>1, <2>2, SameFold, SameBasis DEF Carried
<1> QED
  BY <1>1, <1>4 DEF Accounted, AtCost, b

LEMMA FundAccounted ==
  ASSUME NEW b, Sound(b), NEW s \in Nat, Accounted(b, s)
  PROVE  Accounted(Fund(b), s)
<1> DEFINE cash == Posting(Cash, CAPITAL)
           opening == Posting(OpeningEquity, -CAPITAL)
           t == Transaction("OPENING_BALANCE", 0, "initial virtual funding", {cash, opening})
           c == Fund(b)
<1>1. /\ c.ledger = b.ledger \cup {t} /\ c.lots = b.lots /\ c.fills = b.fills
      /\ c.claims = b.claims
  BY DEF Fund, Post, Sound, IsBook
<1>2. t.postings = {cash, opening} /\ t.at = 0
  BY DEF Transaction
<1>3. cash.account \in Aside /\ opening.account \in Aside
  BY PostingIs DEF Aside
<1> HIDE DEF cash, opening, t, c
<1>4. \A i \in Instrument : Amount(t, Position(i)) = 0
  <2>1. \A l \in t.postings : l.account \in Aside
    BY <1>2, <1>3
  <2> QED
    BY <2>1, SaysNothing
<1>5. t.at <= LAST
  BY <1>2, RunAssumption
<1>6. Accounted(c, s)
  BY <1>1, <1>4, <1>5, StillAccounted
<1> QED
  BY <1>6 DEF c

LEMMA RejectAccounted ==
  ASSUME NEW b, Sound(b), NEW s \in Nat, Accounted(b, s), NEW id, NEW reason
  PROVE  Accounted(Reject(b, id, reason), s)
<1> DEFINE c == Reject(b, id, reason)
<1>1. /\ c.ledger = b.ledger /\ c.lots = b.lots /\ c.fills = b.fills /\ c.claims = b.claims
  BY DEF Reject, Sound, IsBook
<1> HIDE DEF c
<1>2. Accounted(c, s)
  BY <1>1, StillAccounted
<1> QED
  BY <1>2 DEF c

LEMMA RecordOrderAccounted ==
  ASSUME NEW b, Sound(b), NEW s \in Nat, Accounted(b, s), NEW order
  PROVE  Accounted(RecordOrder(b, order), s)
<1> DEFINE c == RecordOrder(b, order)
<1>1. /\ c.ledger = b.ledger /\ c.lots = b.lots /\ c.fills = b.fills /\ c.claims = b.claims
  BY DEF RecordOrder, Sound, IsBook
<1> HIDE DEF c
<1>2. Accounted(c, s)
  BY <1>1, StillAccounted
<1> QED
  BY <1>2 DEF c

LEMMA SettleAccounted ==
  ASSUME NEW b, Sound(b), NEW s \in Session, Accounted(b, s), NEW fill \in DueFills(b, s)
  PROVE  Accounted(Settle(b, fill), s)
<1> DEFINE c == Settle(b, fill)
           owed == fill.gross + fill.fee
           due == fill.gross - fill.fee
           back == fill.fee - fill.gross
           bought == Transaction("BUY_SETTLEMENT", fill.settles, fill.order,
                                 {Posting(Payable, owed), Posting(Cash, -owed)})
           sold == Transaction("SELL_SETTLEMENT", fill.settles, fill.order,
                               {Posting(Cash, due), Posting(Receivable, back)})
           t == IF fill.side = "BUY" THEN bought ELSE sold
<1>1. s \in Nat /\ fill.settles <= LAST
  <2>1. fill \in b.fills /\ fill.settles <= s
    BY DEF DueFills
  <2>2. fill \in FilledRow
    BY <2>1 DEF Sound, FillsFit
  <2>3. fill.settles \in Nat /\ s <= LAST /\ s \in Nat /\ LAST \in Nat
    BY <2>2, RunAssumption DEF FilledRow, Session
  <2> QED
    BY <2>1, <2>3
<1>2. /\ c.ledger = b.ledger \cup {t} /\ c.lots = b.lots /\ c.fills = b.fills
      /\ c.claims = b.claims
  BY DEF Settle, Post, Sound, IsBook
<1>3. t.at = fill.settles /\ \A l \in t.postings : l.account \in Aside
  <2>1. bought.at = fill.settles
        /\ bought.postings = {Posting(Payable, owed), Posting(Cash, -owed)}
    BY DEF Transaction
  <2>2. sold.at = fill.settles
        /\ sold.postings = {Posting(Cash, due), Posting(Receivable, back)}
    BY DEF Transaction
  <2> HIDE DEF bought, sold, owed, due, back
  <2>3. \A l \in bought.postings : l.account \in Aside
    BY <2>1, PostingIs DEF Aside
  <2>4. \A l \in sold.postings : l.account \in Aside
    BY <2>2, PostingIs DEF Aside
  <2> QED
    BY <2>1, <2>2, <2>3, <2>4
<1> HIDE DEF c, t
<1>4. \A i \in Instrument : Amount(t, Position(i)) = 0
  BY <1>3, SaysNothing
<1>5. t.at <= LAST
  BY <1>1, <1>3
<1>6. Accounted(c, s)
  BY <1>1, <1>2, <1>4, <1>5, StillAccounted
<1> QED
  BY <1>6 DEF c

LEMMA DividendAccounted ==
  ASSUME NEW b, Sound(b), NEW s \in Nat, Accounted(b, s),
         NEW action \in Action, action.at <= LAST, NEW held
  PROVE  Accounted(PayDividend(b, action, held), s)
<1>1. CASE action.amount * held = 0
  BY <1>1 DEF PayDividend
<1>2. CASE action.amount * held # 0
  <2> DEFINE c == PayDividend(b, action, held)
             paid == action.amount * held
             cash == Posting(Cash, paid)
             income == Posting(DividendIncome, -paid)
             t == Transaction("CASH_DIVIDEND", action.at, <<action.ref, action.instrument>>,
                              {cash, income})
  <2>1. /\ c.ledger = b.ledger \cup {t} /\ c.fills = b.fills /\ c.lots = b.lots
        /\ c.claims = b.claims \cup {action.ref}
    BY <1>2 DEF PayDividend, Post, Sound, IsBook
  <2>2. t.postings = {cash, income} /\ t.at = action.at
    BY DEF Transaction
  <2>3. cash.account \in Aside /\ income.account \in Aside
    BY PostingIs DEF Aside
  <2> HIDE DEF cash, income, t, paid, c
  <2>4. \A i \in Instrument : Amount(t, Position(i)) = 0
    <3>1. \A l \in t.postings : l.account \in Aside
      BY <2>2, <2>3
    <3> QED
      BY <3>1, SaysNothing
  <2>5. t.at <= LAST /\ b.claims \subseteq c.claims
    BY <2>1, <2>2
  <2>6. Accounted(c, s)
    BY <2>1, <2>4, <2>5, StillAccounted
  <2> QED
    BY <2>6 DEF c
<1> QED
  BY <1>1, <1>2

\* The splits that the books can follow in whole units: every lot comes to a whole
\* number of shares, at a whole price.
EvenSplit(b, action) ==
  action.type = "STOCK_SPLIT" /\ action.ref \notin b.claims =>
    LET lots == open_lots(b.lots[action.instrument], action.at)
    IN  \A n \in DOMAIN lots : /\ (lots[n].quantity * action.num) % action.den = 0
                               /\ (lots[n].cost * action.den) % action.num = 0

LEMMA SplitAccounted ==
  ASSUME NEW b, Sound(b), NEW s \in Nat, Accounted(b, s),
         NEW action \in Today(s), action.type = "STOCK_SPLIT", action.ref \notin b.claims,
         EvenSplit(b, action)
  PROVE  Accounted(SplitPosition(b, action), s)
<1> DEFINE c == SplitPosition(b, action)
           i == action.instrument
           ref == action.ref
           num == action.num
           den == action.den
           table == b.lots[i]
           lots == open_lots(table, s)
           bought == Bought(b, i)
           sold == SoldOn(b, i)
           next == apply_split(table, num, den, s, ref)
<1>1. c.lots = [b.lots EXCEPT ![i] = next] /\ c.claims = b.claims \cup {ref}
      /\ c.ledger = b.ledger /\ c.fills = b.fills
  BY DEF SplitPosition, Sound, IsBook, Today
<1>2. /\ i \in Instrument /\ num \in Nat \ {0} /\ den \in Nat \ {0} /\ ref \in Nat
      /\ ref \notin b.claims /\ b.lots \in [Instrument -> Seq(Row)]
  BY DEF Today, Action, Sound, LotsFit
<1>3. Carried(b, i, s)
  BY <1>2 DEF Accounted
<1>4. Table!Traced(table, s, bought, sold, b.claims)
  BY <1>3 DEF Carried
<1>5. Table!Evenly(lots, num, den)
  <2>1. \A n \in DOMAIN lots : (lots[n].quantity * num) % den = 0 /\ (lots[n].cost * den) % num = 0
    BY DEF EvenSplit, Today
  <2> HIDE DEF lots, num, den
  <2> QED
    BY <2>1 DEF Table!Evenly, Table!Divided
<1>6. next = Table!apply_split(table, num, den, s, ref) /\ lots = Table!open_lots(table, s)
  BY SameOperations, SameFold
<1> HIDE DEF bought, sold, lots, next, table, num, den, ref, c
<1>7. /\ Table!Traced(next, s, bought, sold, b.claims \cup {ref})
      /\ Table!CostBasis(Table!Fold(next)) = Table!CostBasis(Table!Fold(table))
  <2>1. Table!Evenly(Table!open_lots(table, s), num, den)
    BY <1>5, <1>6
  <2>2. num \in Nat \ {0} /\ den \in Nat \ {0} /\ ref \in Nat /\ ref \notin b.claims
    BY <1>2
  <2>3. next = Table!apply_split(table, num, den, s, ref)
    BY <1>6
  <2> HIDE DEF i
  <2> QED
    BY <1>4, <2>1, <2>2, <2>3, Table!SplitTraced
<1>8. ASSUME NEW j \in Instrument PROVE Balance(c, Position(j), LAST) = Balance(b, Position(j), LAST)
  BY <1>1 DEF Balance
<1>9. Carried(c, i, s)
  <2>1. c.lots[i] = next
    BY <1>1, <1>2
  <2>2. Bought(c, i) = bought /\ SoldOn(c, i) = sold
    BY <1>1 DEF Bought, SoldOn, Filled, bought, sold
  <2>3. Balance(c, Position(i), LAST) = Balance(b, Position(i), LAST)
    BY <1>2, <1>8
  <2>4. Balance(b, Position(i), LAST) = CostBasis(Fold(table))
    BY <1>3 DEF Carried, table
  <2>5. CostBasis(Fold(next)) = CostBasis(Fold(table))
    BY <1>7, SameFold, SameBasis
  <2>6. Table!Traced(c.lots[i], s, Bought(c, i), SoldOn(c, i), c.claims)
    BY <1>1, <1>7, <2>1, <2>2
  <2> QED
    BY <2>1, <2>3, <2>4, <2>5, <2>6 DEF Carried
<1>10. ASSUME NEW j \in Instrument, j # i PROVE Carried(c, j, s)
  <2>1. c.lots[j] = b.lots[j]
    BY <1>1, <1>2, <1>10
  <2>2. Carried(b, j, s) /\ b.fills \subseteq c.fills /\ b.claims \subseteq c.claims
    BY <1>1 DEF Accounted
  <2> QED
    BY <1>8, <2>1, <2>2, StillCarried
<1>11. AtCost(c)
  BY <1>1 DEF Accounted, AtCost
<1> QED
  BY <1>9, <1>10, <1>11 DEF Accounted, c

\* An order that is carried out is for something.
LEMMA FilledIs ==
  ASSUME world \in Worlds, NEW order \in Order, NEW s \in Session, Refusal(order, s) = "none"
  PROVE  FillQuantity(order, s) \in Nat \ {0}
<1> DEFINE quote == Quote(order.instrument, s)
<1>1. order.quantity \in Nat /\ quote.cap \in Nat
  BY IdIs, QuoteIs
<1>2. ~ (Least(order.quantity, quote.cap) <= 0) /\ FillQuantity(order, s) = Least(order.quantity, quote.cap)
  BY DEF Refusal, FillQuantity
<1> HIDE DEF quote
<1> QED
  BY <1>1, <1>2 DEF Least

\* A fill is the first of its order: its decision bought, or sold, nothing of the
\* instrument before.
LEMMA NewFill ==
  ASSUME NEW b, Sound(b), NEW order \in b.orders, ~Filled(b, OrderId(order)),
         NEW t, t.type \in FillTypes, t.ref = OrderId(order)
  PROVE  /\ t \notin b.ledger /\ order \in Order
         /\ order.instrument \in Instrument /\ order.decided \in Session
         /\ order.side = "BUY" => order.decided \notin Bought(b, order.instrument)
         /\ order.side = "SELL" => order.decided \notin SoldOn(b, order.instrument)
<1>1. order \in Order
  BY DEF Sound, OrdersFit
<1>2. OrderId(order) = <<order.decided, order.instrument, order.side>>
  BY DEF OrderId
<1>3. t \notin b.ledger
  BY DEF Sound, LedgerFits
<1>4. order.instrument \in Instrument /\ order.decided \in Session
  BY <1>1, IdIs
<1> QED
  BY <1>1, <1>2, <1>3, <1>4 DEF Bought, SoldOn

\* What a fill does to the books, whichever side it is of: it enters rows of its
\* own, and posts what they are worth.
LEMMA FillAccounted ==
  ASSUME NEW b, Sound(b), NEW s \in Nat, Accounted(b, s), NEW i \in Instrument,
         NEW c, NEW fill, c.fills = b.fills \cup {fill}, c.claims = b.claims,
         NEW next, c.lots = [b.lots EXCEPT ![i] = next],
         NEW t, t \notin b.ledger, c.ledger = b.ledger \cup {t}, t.at <= LAST,
         NEW amount \in Int, Amount(t, Position(i)) = amount,
         \A j \in Instrument : j # i => Amount(t, Position(j)) = 0,
         NEW bought, NEW sold, bought \subseteq Bought(c, i), sold \subseteq SoldOn(c, i),
         Table!Traced(next, s, bought, sold, b.claims),
         Table!Gains(next, b.lots[i], amount)
  PROVE  Accounted(c, s)
<1>1. AtCost(b) /\ IsFiniteSet(b.ledger) /\ b.lots \in [Instrument -> Seq(Row)]
  BY DEF Accounted, Sound, LedgerFits, LotsFit
<1>2. \A j \in Instrument : Amount(t, Position(j)) \in Int
  <2>1. \A j \in Instrument : j = i \/ Amount(t, Position(j)) = 0
    OBVIOUS
  <2> QED
    BY <2>1
<1>3. AtCost(c)
  BY <1>1, <1>2 DEF AtCost
<1>4. ASSUME NEW j \in Instrument
      PROVE  /\ Balance(b, Position(j), LAST) \in Int
             /\ Balance(c, Position(j), LAST)
                  = Amount(t, Position(j)) + Balance(b, Position(j), LAST)
  <2>1. Amount(t, Position(j)) \in Int
    BY <1>2
  <2>2. AtCost(b) /\ IsFiniteSet(b.ledger)
    BY <1>1
  <2> QED
    BY <2>1, <2>2, PositionMoves
<1>5. Carried(c, i, s)
  <2> DEFINE moreBought == Bought(c, i)
             moreSold == SoldOn(c, i)
  <2>1. Balance(b, Position(i), LAST) = CostBasis(Fold(b.lots[i]))
    BY DEF Accounted, Carried
  <2>2. Balance(c, Position(i), LAST) = amount + Balance(b, Position(i), LAST)
    BY <1>4
  <2>3. c.lots[i] = next
    BY <1>1
  <2>4. bought \subseteq moreBought /\ sold \subseteq moreSold /\ s <= s
        /\ b.claims \subseteq c.claims
    OBVIOUS
  <2> HIDE DEF moreBought, moreSold
  <2>5. Table!Traced(next, s, moreBought, moreSold, c.claims)
    BY <2>4, Table!TracedMore
  <2>6. Balance(c, Position(i), LAST) = CostBasis(Fold(next))
    <3>1. Balance(b, Position(i), LAST) \in Int
      BY <1>4
    <3>2. CostBasis(Fold(next)) = CostBasis(Fold(b.lots[i])) + amount
      BY SameFold, SameBasis DEF Table!Gains
    <3> QED
      BY <2>1, <2>2, <3>1, <3>2
  <2> QED
    BY <2>3, <2>5, <2>6 DEF Carried, moreBought, moreSold
<1>6. ASSUME NEW j \in Instrument, j # i PROVE Carried(c, j, s)
  <2>1. c.lots[j] = b.lots[j]
    BY <1>1, <1>6
  <2>2. Amount(t, Position(j)) = 0
    BY <1>6
  <2>3. Balance(c, Position(j), LAST) = Balance(b, Position(j), LAST)
    BY <1>4, <2>2
  <2>4. Carried(b, j, s) /\ b.fills \subseteq c.fills /\ b.claims \subseteq c.claims
    BY DEF Accounted
  <2> QED
    BY <2>1, <2>3, <2>4, StillCarried
<1> QED
  BY <1>3, <1>5, <1>6 DEF Accounted

LEMMA BuyAccounted ==
  ASSUME world \in Worlds, NEW b, Sound(b), NEW s \in Session, Accounted(b, s),
         NEW order \in b.orders, order.side = "BUY", ~Filled(b, OrderId(order)),
         Refusal(order, s) = "none"
  PROVE  Accounted(BookBuy(b, order, s), s)
<1> DEFINE c == BookBuy(b, order, s)
           i == order.instrument
           ref == order.decided
           quantity == FillQuantity(order, s)
           price == Quote(i, s).ask
           fill == FillRow(order, quantity, price, s)
           worth == quantity * price
           own == Posting(Position(i), worth)
           fee == Posting(Fees, fill.fee)
           leg == Posting(Payable, -(worth + fill.fee))
           t == Transaction("BUY_FILL", s, OrderId(order), {own, fee, leg})
           table == b.lots[i]
           next == open_lot(table, quantity, price, s, ref)
           bought == Bought(b, i)
           sold == SoldOn(b, i)
           more == bought \cup {ref}
<1>1. /\ c.ledger = b.ledger \cup {t} /\ c.fills = b.fills \cup {fill}
      /\ c.claims = b.claims /\ c.lots = [b.lots EXCEPT ![i] = next]
  <2>1. fill.gross = worth
    BY DEF FillRow
  <2> HIDE DEF fill, worth
  <2> QED
    BY <2>1 DEF BookBuy, Post, Sound, IsBook, fill, worth
<1>2. t.postings = {own, fee, leg} /\ t.at = s /\ t.type = "BUY_FILL" /\ t.ref = OrderId(order)
  BY DEF Transaction
<1>3. /\ own.account = Position(i) /\ own.amount = worth
      /\ fee.account \in Aside /\ leg.account \in Aside
  BY PostingIs DEF Aside
<1>4. fill.order = <<ref, i, "BUY">>
  BY DEF FillRow, OrderId
<1> HIDE DEF c, fill, own, fee, leg, t, next
<1>5. /\ t \notin b.ledger /\ order \in Order /\ i \in Instrument /\ ref \in Session
      /\ ref \notin bought
  <2>1. t.type \in FillTypes
    BY <1>2 DEF FillTypes
  <2> QED
    BY <1>2, <2>1, NewFill
<1>6. quantity \in Nat \ {0} /\ price \in Nat /\ ref \in Nat /\ s \in Nat /\ s <= LAST
  BY <1>5, FilledIs, QuoteIs, RunAssumption DEF Session
<1> HIDE DEF quantity, price
<1>7. worth \in Int
  BY <1>6
<1> HIDE DEF worth
<1>8. Amount(t, Position(i)) = worth
  <2>1. own \in t.postings /\ \A l \in t.postings : l.account = Position(i) => l = own
    BY <1>2, <1>3, PositionsDiffer, Zenon
  <2> QED
    BY <1>3, <2>1, AmountIs
<1>9. \A j \in Instrument : j # i => Amount(t, Position(j)) = 0
  <2> SUFFICES ASSUME NEW j \in Instrument, j # i PROVE Amount(t, Position(j)) = 0
    OBVIOUS
  <2>1. \A l \in t.postings : l.account # Position(j)
    BY <1>2, <1>3, PositionsDiffer, Zenon
  <2> QED
    BY <2>1, AmountIs
<1>10. Table!Traced(table, s, bought, sold, b.claims)
  BY <1>5 DEF Accounted, Carried
<1>11. next = Table!open_lot(table, quantity, price, s, ref)
  BY SameOperations DEF next
<1>12. more \subseteq Bought(c, i) /\ sold \subseteq SoldOn(c, i)
  <2>1. b.fills \subseteq c.fills /\ fill \in c.fills
    BY <1>1
  <2>2. bought \subseteq Bought(c, i) /\ sold \subseteq SoldOn(c, i)
    BY <2>1, MoreFilled
  <2>3. ref \in Bought(c, i)
    BY <1>4, <1>5, <2>1 DEF Bought, Filled
  <2> QED
    BY <2>2, <2>3
<1> HIDE DEF i, table, bought, sold, ref, more
<1>13. /\ Table!Traced(next, s, more, sold, b.claims)
       /\ Table!Gains(next, table, worth)
  <2>1. quantity \in Nat \ {0} /\ price \in Nat /\ ref \in Nat /\ s \in Nat /\ ref \notin bought
    BY <1>5, <1>6
  <2>2. worth = quantity * price
    BY DEF worth
  <2> QED
    BY <1>10, <1>11, <2>1, <2>2, Table!BuyTraced DEF more
<1>14. Table!Gains(next, b.lots[i], worth)
  BY <1>13 DEF table
<1>15. Accounted(c, s)
  <2>1. s \in Nat /\ t.at <= LAST
    BY <1>2, <1>6
  <2> QED
    BY <1>1, <1>5, <1>7, <1>8, <1>9, <1>12, <1>13, <1>14, <2>1, FillAccounted
<1> QED
  BY <1>15 DEF c

LEMMA SellAccounted ==
  ASSUME world \in Worlds, NEW b, Sound(b), NEW s \in Session, Accounted(b, s),
         NEW order \in b.orders, order.side = "SELL", ~Filled(b, OrderId(order)),
         Refusal(order, s) = "none"
  PROVE  Accounted(BookSell(b, order, s), s)
<1> DEFINE c == BookSell(b, order, s)
           i == order.instrument
           ref == order.decided
           quantity == FillQuantity(order, s)
           price == Quote(i, s).bid
           fill == FillRow(order, quantity, price, s)
           table == b.lots[i]
           taken == Consumed(open_lots(table, s), quantity)
           cost == CostBasis(taken)
           worth == -cost
           leg == Posting(Receivable, fill.gross - fill.fee)
           fee == Posting(Fees, fill.fee)
           own == Posting(Position(i), worth)
           gain == Posting(RealizedPnl, cost - fill.gross)
           t == Transaction("SELL_FILL", s, OrderId(order), {leg, fee, own, gain})
           next == close_quantity(table, quantity, s, ref)
           bought == Bought(b, i)
           sold == SoldOn(b, i)
           more == sold \cup {ref}
<1>1. /\ c.ledger = b.ledger \cup {t} /\ c.fills = b.fills \cup {fill}
      /\ c.claims = b.claims /\ c.lots = [b.lots EXCEPT ![i] = next]
  BY DEF BookSell, Post, Sound, IsBook
<1>2. /\ t.postings = {leg, fee, own, gain} /\ t.at = s /\ t.type = "SELL_FILL"
      /\ t.ref = OrderId(order)
  BY DEF Transaction
<1>3. /\ own.account = Position(i) /\ own.amount = worth
      /\ leg.account \in Aside /\ fee.account \in Aside /\ gain.account \in Aside
  BY PostingIs DEF Aside
<1>4. fill.order = <<ref, i, "SELL">>
  BY DEF FillRow, OrderId
<1> HIDE DEF c, fill, own, fee, leg, gain, t, next, taken
<1>5. /\ t \notin b.ledger /\ order \in Order /\ i \in Instrument /\ ref \in Session
      /\ ref \notin sold
  <2>1. t.type \in FillTypes
    BY <1>2 DEF FillTypes
  <2> QED
    BY <1>2, <2>1, NewFill
<1>6. quantity \in Nat /\ ref \in Nat /\ s \in Nat /\ s <= LAST
  BY <1>5, FilledIs, RunAssumption DEF Session
<1>7. Table!Traced(table, s, bought, sold, b.claims)
  BY <1>5 DEF Accounted, Carried
<1>8. /\ next = Table!close_quantity(table, quantity, s, ref)
      /\ taken = Table!Consumed(Table!open_lots(table, s), quantity)
  BY SameOperations, SameConsumed, SameFold DEF next, taken
<1> HIDE DEF quantity, table, bought, sold, ref
<1>9. /\ Table!Traced(next, s, bought, more, b.claims)
      /\ Table!CostBasis(taken) \in Int /\ Table!Gains(next, table, -Table!CostBasis(taken))
  BY <1>5, <1>6, <1>7, <1>8, Table!SellTraced
<1>10. worth = -Table!CostBasis(taken)
  BY SameBasis
<1> HIDE DEF cost, worth
<1>11. worth \in Int /\ Table!Gains(next, b.lots[i], worth)
  BY <1>9, <1>10 DEF table
<1>12. Amount(t, Position(i)) = worth
  <2>1. own \in t.postings /\ \A l \in t.postings : l.account = Position(i) => l = own
    BY <1>2, <1>3, PositionsDiffer, Zenon
  <2> QED
    BY <1>3, <2>1, AmountIs
<1>13. \A j \in Instrument : j # i => Amount(t, Position(j)) = 0
  <2> SUFFICES ASSUME NEW j \in Instrument, j # i PROVE Amount(t, Position(j)) = 0
    OBVIOUS
  <2>1. \A l \in t.postings : l.account # Position(j)
    BY <1>2, <1>3, PositionsDiffer, Zenon
  <2> QED
    BY <2>1, AmountIs
<1>14. bought \subseteq Bought(c, i) /\ more \subseteq SoldOn(c, i)
  <2>1. b.fills \subseteq c.fills /\ fill \in c.fills
    BY <1>1
  <2>2. bought \subseteq Bought(c, i) /\ sold \subseteq SoldOn(c, i)
    BY <2>1, MoreFilled DEF bought, sold
  <2>3. ref \in SoldOn(c, i)
    BY <1>4, <1>5, <2>1 DEF SoldOn, Filled
  <2> QED
    BY <2>2, <2>3
<1> HIDE DEF i, more
<1>15. Accounted(c, s)
  <2>1. s \in Nat /\ t.at <= LAST
    BY <1>2, <1>6
  <2> QED
    BY <1>1, <1>5, <1>9, <1>11, <1>12, <1>13, <1>14, <2>1, FillAccounted
<1> QED
  BY <1>15 DEF c

\* A due order that is turned down, or carried out.
LEMMA ExecuteAccounted ==
  ASSUME world \in Worlds, NEW b, Sound(b), NEW s \in Session, Accounted(b, s),
         NEW order \in b.orders, ~Filled(b, OrderId(order))
  PROVE  Accounted(Execute(b, order, s), s)
<1>1. s \in Nat
  BY RunAssumption DEF Session
<1>2. order.side = "BUY" \/ order.side = "SELL"
  <2>1. order \in Order
    BY DEF Sound, OrdersFit
  <2> QED
    BY <2>1, IdIs DEF Side
<1> QED
  BY <1>1, <1>2, RejectAccounted, BuyAccounted, SellAccounted DEF Execute

-----------------------------------------------------------------------------
(* The actions of a session, one after another. *)

LEMMA ActionAccounted ==
  ASSUME NEW b, Sound(b), NEW s \in Session, Accounted(b, s),
         NEW action \in Today(s), EvenSplit(b, action)
  PROVE  Accounted(ApplyAction(b, action), s)
<1> DEFINE held == quantity_of(b.lots[action.instrument], action.at)
<1>1. s \in Nat /\ action \in Action /\ action.at <= LAST
  BY RunAssumption DEF Today, Session
<1>2. \/ ApplyAction(b, action) = b
      \/ ApplyAction(b, action) = PayDividend(b, action, held)
      \/ /\ ApplyAction(b, action) = SplitPosition(b, action)
         /\ action.ref \notin b.claims /\ action.type # "CASH_DIVIDEND"
  BY DEF ApplyAction, ApplyUnclaimed
<1>3. action.type # "CASH_DIVIDEND" => action.type = "STOCK_SPLIT"
  BY <1>1 DEF Action
<1> HIDE DEF held
<1> QED
  BY <1>1, <1>2, <1>3, DividendAccounted, SplitAccounted

\* Each split of a list of actions comes out even where its turn comes.
EvenThroughout(b, actions) ==
  \A n \in DOMAIN actions : EvenSplit(Applied(b, SubSeq(actions, 1, n - 1)), actions[n])

LEMMA EvenBefore ==
  ASSUME NEW S, NEW b, NEW actions \in Seq(S), NEW action \in S,
         EvenThroughout(b, Append(actions, action))
  PROVE  EvenThroughout(b, actions) /\ EvenSplit(Applied(b, actions), action)
<1> DEFINE all == Append(actions, action)
<1>1. PICK m \in Nat : m = Len(actions) /\ DOMAIN actions = 1..m
  OBVIOUS
<1>2. /\ all \in Seq(S) /\ Len(all) = m + 1 /\ DOMAIN all = 1..(m + 1) /\ all[m + 1] = action
      /\ \A n \in 1..m : all[n] = actions[n]
  BY <1>1
<1>3. ASSUME NEW n \in 0..m PROVE SubSeq(all, 1, n) = SubSeq(actions, 1, n)
  <2>1. /\ SubSeq(all, 1, n) = [k \in 1..n |-> all[k]]
        /\ SubSeq(actions, 1, n) = [k \in 1..n |-> actions[k]]
    <3> HIDE DEF all
    <3>1. \A s \in Seq(S) : n <= Len(s) => SubSeq(s, 1, n) = [k \in 1..n |-> s[k]]
      BY <1>1
    <3> QED
      BY <1>1, <1>2, <3>1
  <2>2. \A k \in 1..n : all[k] = actions[k]
    BY <1>2
  <2> HIDE DEF all
  <2> QED
    BY <2>1, <2>2
<1>4. SubSeq(actions, 1, m) = actions
  BY <1>1
<1>5. ASSUME NEW n \in DOMAIN actions PROVE EvenSplit(Applied(b, SubSeq(actions, 1, n - 1)), actions[n])
  <2>1. n \in DOMAIN all /\ n - 1 \in 0..m /\ all[n] = actions[n]
    BY <1>1, <1>2
  <2>2. EvenSplit(Applied(b, SubSeq(all, 1, n - 1)), all[n])
    BY <2>1 DEF EvenThroughout
  <2> HIDE DEF all
  <2>3. SubSeq(all, 1, n - 1) = SubSeq(actions, 1, n - 1)
    BY <1>3, <2>1
  <2> QED
    BY <2>1, <2>2, <2>3
<1>6. EvenSplit(Applied(b, actions), action)
  <2>1. m + 1 \in DOMAIN all /\ m \in 0..m /\ (m + 1) - 1 = m
    BY <1>2
  <2>2. EvenSplit(Applied(b, SubSeq(all, 1, (m + 1) - 1)), all[m + 1])
    BY <2>1 DEF EvenThroughout
  <2> HIDE DEF all
  <2> QED
    BY <1>2, <1>3, <1>4, <2>1, <2>2
<1> QED
  BY <1>5, <1>6 DEF EvenThroughout

LEMMA ActionsAccounted ==
  ASSUME world \in Worlds, NEW b, Sound(b), NEW s \in Session, Accounted(b, s),
         EvenThroughout(b, Sift(world.actions, LAMBDA action : action.at = s))
  PROVE  Accounted(ApplyActions(b, s), s)
<1> DEFINE Fits(list) == EvenThroughout(b, list) => /\ Sound(Applied(b, list))
                                                    /\ Accounted(Applied(b, list), s)
           P == {list \in Seq(Today(s)) : Fits(list)}
<1>1. << >> \in P
  <2>1. << >> \in Seq(Today(s))
    OBVIOUS
  <2> QED
    BY <2>1, NoAction
<1>2. ASSUME NEW list \in Seq(Today(s)), NEW action \in Today(s), list \in P
      PROVE  Append(list, action) \in P
  <2> SUFFICES ASSUME EvenThroughout(b, Append(list, action))
               PROVE  /\ Sound(Applied(b, Append(list, action)))
                      /\ Accounted(Applied(b, Append(list, action)), s)
    OBVIOUS
  <2> DEFINE c == Applied(b, list)
  <2>1. EvenThroughout(b, list) /\ EvenSplit(c, action)
    <3> HIDE DEF P, Fits
    <3> QED
      BY EvenBefore
  <2>2. Sound(c) /\ Accounted(c, s)
    BY <1>2, <2>1
  <2>3. Applied(b, Append(list, action)) = ApplyAction(c, action)
    <3> HIDE DEF P, Fits
    <3> QED
      BY OneMoreAction
  <2> HIDE DEF c
  <2>4. action \in Action /\ action.at <= LAST
    BY RunAssumption DEF Today, Session
  <2>5. Sound(ApplyAction(c, action))
    BY <2>2, <2>4, ActionSound
  <2>6. Accounted(ApplyAction(c, action), s)
    BY <2>1, <2>2, ActionAccounted
  <2> QED
    BY <2>3, <2>5, <2>6
<1> HIDE DEF P
<1>3. \A list \in Seq(Today(s)) : list \in P
  BY <1>1, <1>2, ListInduct
<1> QED
  BY <1>3, DueIs DEF P

-----------------------------------------------------------------------------
(* The positions of the first run. *)

\* What the corporate actions of the worlds have to be for whole units to follow
\* them: wherever a session applies them, each split comes out even.
ExactSplits ==
  phase = "actions" =>
    EvenThroughout(book, Sift(world.actions, LAMBDA action : action.at = session))

\* In the first run no row of a position is of a session still to come.
FirstAccounts == runs = 0 => Accounted(book, session)

LEMMA AccountsInit == Init => FirstAccounts
BY NoneAccounted DEF Init, FirstAccounts

LEMMA AccountsNext ==
  Shape /\ ExactSplits /\ FirstAccounts /\ [Next]_vars => FirstAccounts'
<1> SUFFICES ASSUME Shape, ExactSplits, FirstAccounts, [Next]_vars, runs' = 0
             PROVE  Accounted(book', session')
  BY DEF FirstAccounts
<1>1. CASE RunAgain
  BY <1>1, RunAssumption DEF RunAgain, Shape
<1>2. CASE NextSession
  <2>1. book' = book /\ session' = session + 1 /\ runs = 0 /\ session \in Nat
    BY <1>2, RunAssumption DEF NextSession, Shape, Session
  <2> QED
    BY <2>1, AccountedLater DEF FirstAccounts
<1>3. CASE UNCHANGED vars
  BY <1>3 DEF vars, FirstAccounts
<1>4. CASE Step /\ ~NextSession
  <2>0. /\ session' = session /\ runs = 0 /\ session \in Nat /\ session \in Session
        /\ Sound(book) /\ world \in Worlds /\ Accounted(book, session)
    <3>1. session' = session /\ runs' = runs
      BY <1>4 DEF Step, FundBook, SettleOne, SettledAll, ApplyCorporateActions, FillOne,
                  RaiseOverClose, FilledAll, Decide, LoadSealed, DecideMissing, PlaceOne,
                  RejectShort, PlacedAll, Finish, process
    <3> QED
      BY <3>1, RunAssumption DEF Shape, Session, FirstAccounts
  <2> SUFFICES Accounted(book', session)
    BY <2>0
  <2>1. CASE FundBook
    BY <2>0, <2>1, FundAccounted DEF FundBook
  <2>2. CASE SettleOne
    <3>1. NextFill(book, session) \in DueFills(book, session)
      BY <2>2 DEF SettleOne, NextFill
    <3> QED
      BY <2>0, <2>2, <3>1, SettleAccounted DEF SettleOne
  <2>3. CASE ApplyCorporateActions
    BY <2>0, <2>3, ActionsAccounted DEF ApplyCorporateActions, ExactSplits
  <2>4. CASE FillOne
    <3>1. NextOrder \in book.orders /\ ~Filled(book, OrderId(NextOrder))
      BY <2>4, NextOrderIs DEF FillOne
    <3>2. book' = Execute(book, NextOrder, session)
      BY <2>4 DEF FillOne
    <3> QED
      BY <2>0, <3>1, <3>2, ExecuteAccounted
  <2>5. CASE PlaceOne
    <3>1. PICK order : book' = RecordOrder(book, order)
      BY <2>5 DEF PlaceOne
    <3> QED
      BY <2>0, <3>1, RecordOrderAccounted
  <2>6. CASE RejectShort
    BY <2>0, <2>6, RejectAccounted DEF RejectShort
  <2>7. CASE book' = book
    BY <2>0, <2>7
  <2> QED
    BY <1>4, <2>1, <2>2, <2>3, <2>4, <2>5, <2>6, <2>7
       DEF Step, SettledAll, RaiseOverClose, FilledAll, Decide, LoadSealed, DecideMissing,
           PlacedAll, Finish
<1> QED
  BY <1>1, <1>2, <1>3, <1>4 DEF Next

\* For any policy, calendar, decisions and world whose splits come out even, and
\* wherever the first run has come to: what the ledger carries an instrument at is
\* what its open lots cost, through every fill, partial sale, dividend and split.
THEOREM PositionsMatchLots ==
  Spec /\ []ExactSplits => [](runs = 0 => PositionAccountMatchesLots)
<1>1. FirstAccounts => (runs = 0 => PositionAccountMatchesLots)
  BY DEF FirstAccounts, Accounted, Carried, PositionAccountMatchesLots
<1> QED
  BY <1>1, AccountsInit, AccountsNext, ShapeAlways, PTL DEF Spec

-----------------------------------------------------------------------------
(* Dividends, and what was held when the session before closed. *)

Actions == ToSet(world.actions)

\* What the dividends of a book were paid on: rows of today do not change it.
PaidOn(b, t, s) ==
  \E action \in Actions :
    /\ t.ref = <<action.ref, action.instrument>> /\ action.at \in Nat /\ action.at <= s
    /\ action.instrument \in Instrument
    /\ Amount(t, Cash) = action.amount * quantity_of(b.lots[action.instrument], action.at - 1)

Entitled(b, s) ==
  /\ \A i \in Instrument : Table!KnownBy(b.lots[i], s)
  /\ \A t \in b.ledger : t.type = "CASH_DIVIDEND" => PaidOn(b, t, s)

\* No row of a position is of the session yet.
Untouched(b, i, s) == \A x \in ToSet(b.lots[i]) : x.at < s

SameDaysBefore(b, c, i, s) ==
  \A instant \in Int :
    instant < s => quantity_of(c.lots[i], instant) = quantity_of(b.lots[i], instant)

\* Rows of an instant leave what was held before it.
LEMMA AddsLater ==
  ASSUME NEW table, NEW at \in Nat, Table!KnownBy(table, at), NEW next, AddsRows(next, table, at)
  PROVE  /\ Table!KnownBy(next, at)
         /\ \A instant \in Int :
              instant < at => quantity_of(next, instant) = quantity_of(table, instant)
<1>1. PICK new \in Seq(Row) : next = Added(table, new) /\ \A n \in DOMAIN new : new[n].at = at
  BY DEF AddsRows
<1>2. new \in Table!Tables /\ next = Table!Added(table, new)
  BY <1>1, SameRows, SameAdded
<1>3. /\ Table!KnownBy(next, at)
      /\ \A instant \in Int : instant < at => Table!AsOf(next, instant) = Table!AsOf(table, instant)
  <2>1. Table!AllAt(new, at)
    BY <1>1 DEF Table!AllAt
  <2>2. Table!KeepsBefore(next, table, at)
    BY <1>2, <2>1, Table!EarlierAdded
  <2> QED
    BY <2>2 DEF Table!KeepsBefore
<1>4. ASSUME NEW instant \in Int, instant < at
      PROVE  quantity_of(next, instant) = quantity_of(table, instant)
  <2>1. Table!AsOf(next, instant) = Table!AsOf(table, instant)
    BY <1>2, <1>3, <1>4
  <2>2. open_lots(next, instant) = open_lots(table, instant)
    BY <2>1, SameFold DEF Table!open_lots
  <2> QED
    BY <2>2 DEF quantity_of
<1> QED
  BY <1>2, <1>3, <1>4

\* A dividend stays paid on what it was paid on while only rows of today are added.
LEMMA StillEntitled ==
  ASSUME NEW b, NEW s \in Nat, Entitled(b, s), NEW c,
         \A i \in Instrument : Table!KnownBy(c.lots[i], s) /\ SameDaysBefore(b, c, i, s),
         \A t \in c.ledger : t \in b.ledger \/ t.type # "CASH_DIVIDEND"
  PROVE  Entitled(c, s)
<1> SUFFICES ASSUME NEW t \in c.ledger, t.type = "CASH_DIVIDEND" PROVE PaidOn(c, t, s)
  BY DEF Entitled
<1>1. t \in b.ledger
  OBVIOUS
<1>2. PICK action \in Actions :
        /\ t.ref = <<action.ref, action.instrument>> /\ action.at \in Nat /\ action.at <= s
        /\ action.instrument \in Instrument
        /\ Amount(t, Cash) = action.amount * quantity_of(b.lots[action.instrument], action.at - 1)
  BY <1>1 DEF Entitled, PaidOn
<1>3. action.at - 1 \in Int /\ action.at - 1 < s
  BY <1>2
<1>4. quantity_of(c.lots[action.instrument], action.at - 1)
        = quantity_of(b.lots[action.instrument], action.at - 1)
  BY <1>2, <1>3 DEF SameDaysBefore
<1> QED
  BY <1>2, <1>4 DEF PaidOn

LEMMA SameLotsEntitled ==
  ASSUME NEW b, NEW s \in Nat, Entitled(b, s), NEW c, c.lots = b.lots,
         \A t \in c.ledger : t \in b.ledger \/ t.type # "CASH_DIVIDEND"
  PROVE  Entitled(c, s)
BY StillEntitled DEF Entitled, SameDaysBefore

\* One position that rows of today are added to.
LEMMA OneLotLater ==
  ASSUME NEW b, Sound(b), NEW s \in Nat, \A i \in Instrument : Table!KnownBy(b.lots[i], s),
         NEW i \in Instrument, NEW next, AddsRows(next, b.lots[i], s),
         NEW c, c.lots = [b.lots EXCEPT ![i] = next]
  PROVE  \A j \in Instrument : Table!KnownBy(c.lots[j], s) /\ SameDaysBefore(b, c, j, s)
<1>1. b.lots \in [Instrument -> Seq(Row)]
  BY DEF Sound, LotsFit
<1>2. /\ Table!KnownBy(next, s)
      /\ \A instant \in Int :
           instant < s => quantity_of(next, instant) = quantity_of(b.lots[i], instant)
  <2> DEFINE table == b.lots[i]
  <2> HIDE DEF table
  <2>1. Table!KnownBy(table, s) /\ AddsRows(next, table, s)
    BY DEF table
  <2> QED
    BY <2>1, AddsLater DEF table
<1>3. c.lots[i] = next /\ \A j \in Instrument : j # i => c.lots[j] = b.lots[j]
  BY <1>1
<1> SUFFICES ASSUME NEW j \in Instrument
             PROVE  Table!KnownBy(c.lots[j], s) /\ SameDaysBefore(b, c, j, s)
  OBVIOUS
<1>4. CASE j = i
  BY <1>2, <1>3, <1>4 DEF SameDaysBefore
<1>5. CASE j # i
  BY <1>3, <1>5 DEF SameDaysBefore
<1> QED
  BY <1>4, <1>5

LEMMA OneLotEntitled ==
  ASSUME NEW b, Sound(b), NEW s \in Nat, Entitled(b, s), NEW i \in Instrument, NEW next,
         AddsRows(next, b.lots[i], s), NEW c, c.lots = [b.lots EXCEPT ![i] = next],
         \A t \in c.ledger : t \in b.ledger \/ t.type # "CASH_DIVIDEND"
  PROVE  Entitled(c, s)
<1>1. \A j \in Instrument : Table!KnownBy(c.lots[j], s) /\ SameDaysBefore(b, c, j, s)
  BY OneLotLater DEF Entitled
<1> QED
  BY <1>1, StillEntitled

LEMMA FundEntitled ==
  ASSUME NEW b, Sound(b), NEW s \in Nat, Entitled(b, s)
  PROVE  Entitled(Fund(b), s)
<1> DEFINE t == Transaction("OPENING_BALANCE", 0, "initial virtual funding",
                  {Posting(Cash, CAPITAL), Posting(OpeningEquity, -CAPITAL)})
           c == Fund(b)
<1>1. c.ledger = b.ledger \cup {t} /\ c.lots = b.lots
  BY DEF Fund, Post, Sound, IsBook
<1>2. t.type = "OPENING_BALANCE"
  BY DEF Transaction
<1> HIDE DEF c, t
<1>3. Entitled(c, s)
  BY <1>1, <1>2, SameLotsEntitled
<1> QED
  BY <1>3 DEF c

LEMMA RejectEntitled ==
  ASSUME NEW b, Sound(b), NEW s \in Nat, Entitled(b, s), NEW id, NEW reason
  PROVE  Entitled(Reject(b, id, reason), s)
<1> DEFINE c == Reject(b, id, reason)
<1>1. c.ledger = b.ledger /\ c.lots = b.lots
  BY DEF Reject, Sound, IsBook
<1> HIDE DEF c
<1>2. Entitled(c, s)
  BY <1>1, SameLotsEntitled
<1> QED
  BY <1>2 DEF c

LEMMA RecordOrderEntitled ==
  ASSUME NEW b, Sound(b), NEW s \in Nat, Entitled(b, s), NEW order
  PROVE  Entitled(RecordOrder(b, order), s)
<1> DEFINE c == RecordOrder(b, order)
<1>1. c.ledger = b.ledger /\ c.lots = b.lots
  BY DEF RecordOrder, Sound, IsBook
<1> HIDE DEF c
<1>2. Entitled(c, s)
  BY <1>1, SameLotsEntitled
<1> QED
  BY <1>2 DEF c

LEMMA SettleEntitled ==
  ASSUME NEW b, Sound(b), NEW s \in Nat, Entitled(b, s), NEW fill
  PROVE  Entitled(Settle(b, fill), s) /\ Settle(b, fill).lots = b.lots
<1> DEFINE c == Settle(b, fill)
           bought == Transaction("BUY_SETTLEMENT", fill.settles, fill.order,
                       {Posting(Payable, fill.gross + fill.fee), Posting(Cash, -(fill.gross + fill.fee))})
           sold == Transaction("SELL_SETTLEMENT", fill.settles, fill.order,
                     {Posting(Cash, fill.gross - fill.fee), Posting(Receivable, fill.fee - fill.gross)})
           t == IF fill.side = "BUY" THEN bought ELSE sold
<1>1. c.ledger = b.ledger \cup {t} /\ c.lots = b.lots
  BY DEF Settle, Post, Sound, IsBook
<1>2. bought.type = "BUY_SETTLEMENT" /\ sold.type = "SELL_SETTLEMENT"
  BY DEF Transaction
<1> HIDE DEF c, bought, sold
<1>3. t.type # "CASH_DIVIDEND"
  BY <1>2
<1> HIDE DEF t
<1>4. Entitled(c, s)
  BY <1>1, <1>3, SameLotsEntitled
<1> QED
  BY <1>1, <1>4 DEF c

\* The rows of a purchase, and those of a sale: one transaction and one fill of today,
\* and rows of today in one position.
FillAdds(b, c, order, s, type) ==
  \E t, lot, fill :
    /\ c.ledger = b.ledger \cup {t} /\ t.type = type /\ t.at = s
    /\ c.lots = [b.lots EXCEPT ![order.instrument] = lot]
    /\ order.instrument \in Instrument /\ AddsRows(lot, b.lots[order.instrument], s)
    /\ c.fills = b.fills \cup {fill} /\ fill.settles = s + SettleAfter[order.instrument]
    /\ fill.order = OrderId(order)
    /\ c.settled = b.settled /\ c.claims = b.claims
    /\ c.orders = b.orders /\ c.rejections = b.rejections

LEMMA BuyAdds ==
  ASSUME world \in Worlds, NEW b, Sound(b), NEW s \in Session, NEW order \in b.orders
  PROVE  FillAdds(b, BookBuy(b, order, s), order, s, "BUY_FILL")
<1> DEFINE c == BookBuy(b, order, s)
           i == order.instrument
           quantity == FillQuantity(order, s)
           price == Quote(i, s).ask
           fill == FillRow(order, quantity, price, s)
           t == Transaction("BUY_FILL", s, OrderId(order),
                  {Posting(Position(i), fill.gross), Posting(Fees, fill.fee),
                   Posting(Payable, -(fill.gross + fill.fee))})
           lot == open_lot(b.lots[i], quantity, price, s, order.decided)
<1>1. /\ c.ledger = b.ledger \cup {t} /\ c.lots = [b.lots EXCEPT ![i] = lot]
      /\ c.fills = b.fills \cup {fill} /\ c.settled = b.settled /\ c.claims = b.claims
      /\ c.orders = b.orders /\ c.rejections = b.rejections
  BY DEF BookBuy, Post, Sound, IsBook
<1>2. t.type = "BUY_FILL" /\ t.at = s
  BY DEF Transaction
<1>3. fill.settles = s + SettleAfter[i] /\ fill.order = OrderId(order)
  BY DEF FillRow
<1>4. /\ i \in Instrument /\ order.decided \in Nat /\ order.quantity \in Nat
      /\ price \in Nat /\ Quote(i, s).cap \in Nat /\ s \in Nat
  <2>1. order \in Order
    BY DEF Sound, OrdersFit
  <2>2. i \in Instrument /\ order.decided \in Nat /\ order.quantity \in Nat
    BY <2>1, IdIs
  <2>3. s \in Nat
    BY RunAssumption DEF Session
  <2> QED
    BY <2>1, <2>2, <2>3, QuoteIs
<1>5. quantity \in Int
  BY <1>4 DEF FillQuantity, Least
<1> HIDE DEF c, quantity, price, t, lot, fill
<1>6. AddsRows(lot, b.lots[i], s)
  BY <1>4, <1>5, OpenAdds DEF lot
<1> QED
  BY <1>1, <1>2, <1>3, <1>4, <1>6 DEF FillAdds, c

LEMMA SellAdds ==
  ASSUME world \in Worlds, NEW b, Sound(b), NEW s \in Session, NEW order \in b.orders
  PROVE  FillAdds(b, BookSell(b, order, s), order, s, "SELL_FILL")
<1> DEFINE c == BookSell(b, order, s)
           i == order.instrument
           quantity == FillQuantity(order, s)
           fill == FillRow(order, quantity, Quote(i, s).bid, s)
           cost == CostBasis(Consumed(open_lots(b.lots[i], s), quantity))
           t == Transaction("SELL_FILL", s, OrderId(order),
                  {Posting(Receivable, fill.gross - fill.fee), Posting(Fees, fill.fee),
                   Posting(Position(i), -cost), Posting(RealizedPnl, cost - fill.gross)})
           lot == close_quantity(b.lots[i], quantity, s, order.decided)
<1>1. /\ c.ledger = b.ledger \cup {t} /\ c.lots = [b.lots EXCEPT ![i] = lot]
      /\ c.fills = b.fills \cup {fill} /\ c.settled = b.settled /\ c.claims = b.claims
      /\ c.orders = b.orders /\ c.rejections = b.rejections
  BY DEF BookSell, Post, Sound, IsBook
<1>2. t.type = "SELL_FILL" /\ t.at = s
  BY DEF Transaction
<1>3. fill.settles = s + SettleAfter[i] /\ fill.order = OrderId(order)
  BY DEF FillRow
<1>4. /\ i \in Instrument /\ order.decided \in Nat /\ order.quantity \in Nat
      /\ Quote(i, s).cap \in Nat /\ s \in Nat
  <2>1. order \in Order
    BY DEF Sound, OrdersFit
  <2>2. i \in Instrument /\ order.decided \in Nat /\ order.quantity \in Nat
    BY <2>1, IdIs
  <2>3. s \in Nat
    BY RunAssumption DEF Session
  <2> QED
    BY <2>1, <2>2, <2>3, QuoteIs
<1>5. quantity \in Nat /\ IsTable(b.lots[i])
  BY <1>4 DEF FillQuantity, Least, Sound, LotsFit, IsTable
<1> HIDE DEF c, quantity, cost, t, lot, fill
<1>6. AddsRows(lot, b.lots[i], s)
  BY <1>4, <1>5, CloseAdds DEF lot
<1> QED
  BY <1>1, <1>2, <1>3, <1>4, <1>6 DEF FillAdds, c

LEMMA FillEntitled ==
  ASSUME NEW b, Sound(b), NEW s \in Nat, Entitled(b, s), NEW order, NEW c,
         NEW type, type # "CASH_DIVIDEND", FillAdds(b, c, order, s, type)
  PROVE  Entitled(c, s)
<1>1. PICK t, lot :
        /\ c.ledger = b.ledger \cup {t} /\ t.type = type
        /\ c.lots = [b.lots EXCEPT ![order.instrument] = lot]
        /\ order.instrument \in Instrument /\ AddsRows(lot, b.lots[order.instrument], s)
  BY DEF FillAdds
<1>2. \A x \in c.ledger : x \in b.ledger \/ x.type # "CASH_DIVIDEND"
  BY <1>1
<1> QED
  BY <1>1, <1>2, OneLotEntitled

LEMMA ExecuteEntitled ==
  ASSUME world \in Worlds, NEW b, Sound(b), NEW s \in Session, Entitled(b, s),
         NEW order \in b.orders
  PROVE  Entitled(Execute(b, order, s), s)
<1>1. s \in Nat
  BY RunAssumption DEF Session
<1>2. Entitled(BookBuy(b, order, s), s)
  BY <1>1, BuyAdds, FillEntitled
<1>3. Entitled(BookSell(b, order, s), s)
  BY <1>1, SellAdds, FillEntitled
<1> QED
  BY <1>1, <1>2, <1>3, RejectEntitled DEF Execute

\* A dividend is the first thing a session does to a position, so what is held at its
\* instant was held when the session before closed.
LEMMA DividendEntitled ==
  ASSUME NEW b, Sound(b), NEW s \in Nat, Entitled(b, s),
         NEW action \in Actions, action \in Today(s), Untouched(b, action.instrument, s)
  PROVE  LET paid == PayDividend(b, action, quantity_of(b.lots[action.instrument], action.at))
         IN  Entitled(paid, s) /\ paid.lots = b.lots
<1> DEFINE i == action.instrument
           held == quantity_of(b.lots[i], s)
           c == PayDividend(b, action, held)
           paid == action.amount * held
<1>0. action.at = s /\ i \in Instrument
  BY DEF Today, Action
<1>1. CASE paid = 0
  BY <1>0, <1>1 DEF PayDividend
<1>2. CASE paid # 0
  <2> DEFINE cash == Posting(Cash, paid)
             income == Posting(DividendIncome, -paid)
             t == Transaction("CASH_DIVIDEND", action.at, <<action.ref, action.instrument>>,
                              {cash, income})
  <2>1. c.ledger = b.ledger \cup {t} /\ c.lots = b.lots
    BY <1>2 DEF PayDividend, Post, Sound, IsBook
  <2>2. t.postings = {cash, income} /\ t.ref = <<action.ref, i>>
    BY DEF Transaction
  <2>3. cash.account = Cash /\ cash.amount = paid /\ income.account = DividendIncome
    BY PostingIs
  <2> HIDE DEF cash, income, t, paid, c, held
  <2>4. Amount(t, Cash) = paid
    <3>1. Cash \in Counted /\ DividendIncome # Cash
      BY AccountsDiffer DEF Counted
    <3>2. \A l \in t.postings : l.account = Cash => l = cash
      BY <2>2, <2>3, <3>1
    <3> QED
      BY <2>2, <2>3, <3>2, AmountIs
  <2>5. held = quantity_of(b.lots[i], s - 1)
    <3> DEFINE table == b.lots[i]
    <3>1. Table!KnownBy(table, s) /\ \A x \in ToSet(table) : x.at < s
      BY <1>0 DEF Entitled, Untouched
    <3>2. Table!KnownBy(table, s - 1)
      <4>1. \A x \in ToSet(table) : x.at \in Nat
        <5>1. table \in Seq(Row)
          BY <3>1, SameRows DEF Table!KnownBy
        <5> HIDE DEF table
        <5>2. \A x \in ToSet(table) : x \in Row
          BY <5>1 DEF ToSet
        <5> QED
          BY <5>2 DEF Row
      <4>2. \A x \in ToSet(table) : x.at <= s - 1
        BY <3>1, <4>1
      <4> QED
        BY <3>1, <4>2 DEF Table!KnownBy, ToSet, Table!ToSet
    <3> DEFINE yesterday == s - 1
    <3>3. yesterday \in Int /\ s \in Int /\ yesterday = s - 1
      OBVIOUS
    <3> HIDE DEF table, yesterday
    <3>4. /\ Table!open_lots(table, s) = Table!Fold(table)
          /\ Table!open_lots(table, yesterday) = Table!Fold(table)
      BY <3>1, <3>2, <3>3, Table!KnownOpen
    <3>5. open_lots(table, s) = open_lots(table, yesterday)
      BY <3>4, SameFold
    <3> QED
      BY <3>3, <3>5 DEF held, table, quantity_of
  <2>6. PaidOn(c, t, s)
    <3>1. paid = action.amount * held
      BY DEF paid
    <3> QED
      BY <1>0, <2>1, <2>2, <2>4, <2>5, <3>1 DEF PaidOn
  <2>7. \A x \in b.ledger : x.type = "CASH_DIVIDEND" => PaidOn(c, x, s)
    BY <2>1 DEF Entitled, PaidOn
  <2>8. Entitled(c, s)
    BY <2>1, <2>6, <2>7 DEF Entitled
  <2> QED
    BY <1>0, <2>1, <2>8 DEF c, held
<1> QED
  BY <1>1, <1>2

LEMMA SplitLater ==
  ASSUME NEW b, Sound(b), NEW s \in Nat, \A i \in Instrument : Table!KnownBy(b.lots[i], s),
         NEW action \in Today(s)
  PROVE  LET c == SplitPosition(b, action)
         IN  /\ \A j \in Instrument : Table!KnownBy(c.lots[j], s) /\ SameDaysBefore(b, c, j, s)
             /\ \A j \in Instrument : j # action.instrument => c.lots[j] = b.lots[j]
             /\ c.ledger = b.ledger
<1> DEFINE c == SplitPosition(b, action)
           i == action.instrument
           table == b.lots[i]
           next == apply_split(table, action.num, action.den, s, action.ref)
<1>1. /\ action.num \in Nat \ {0} /\ action.den \in Nat \ {0} /\ action.ref \in Nat
      /\ i \in Instrument /\ action.at = s
  BY DEF Today, Action
<1>2. c.ledger = b.ledger /\ c.lots = [b.lots EXCEPT ![i] = next]
  BY <1>1 DEF SplitPosition, Sound, IsBook
<1>3. IsTable(table) /\ b.lots \in [Instrument -> Seq(Row)] /\ Table!KnownBy(table, s)
  BY <1>1 DEF Sound, LotsFit, IsTable
<1> HIDE DEF table
<1>4. PICK mid : AddsRows(mid, table, s) /\ AddsRows(next, mid, s)
  BY <1>1, <1>3, SplitAdds
<1> HIDE DEF c, next, i
<1>5. /\ Table!KnownBy(mid, s)
      /\ \A instant \in Int :
           instant < s => quantity_of(mid, instant) = quantity_of(table, instant)
  BY <1>3, <1>4, AddsLater
<1>6. /\ Table!KnownBy(next, s)
      /\ \A instant \in Int :
           instant < s => quantity_of(next, instant) = quantity_of(mid, instant)
  BY <1>4, <1>5, AddsLater
<1>7. c.lots[i] = next /\ \A j \in Instrument : j # i => c.lots[j] = b.lots[j]
  BY <1>1, <1>2, <1>3
<1>8. ASSUME NEW j \in Instrument PROVE Table!KnownBy(c.lots[j], s) /\ SameDaysBefore(b, c, j, s)
  <2>1. CASE j = i
    BY <1>5, <1>6, <1>7, <2>1 DEF SameDaysBefore, table
  <2>2. CASE j # i
    BY <1>7, <2>2 DEF SameDaysBefore
  <2> QED
    BY <2>1, <2>2
<1> QED
  BY <1>2, <1>7, <1>8 DEF c, i

LEMMA SplitEntitled ==
  ASSUME NEW b, Sound(b), NEW s \in Nat, Entitled(b, s), NEW action \in Today(s)
  PROVE  LET c == SplitPosition(b, action)
         IN  /\ Entitled(c, s)
             /\ \A j \in Instrument : j # action.instrument => c.lots[j] = b.lots[j]
<1> DEFINE c == SplitPosition(b, action)
<1>1. /\ \A j \in Instrument : Table!KnownBy(c.lots[j], s) /\ SameDaysBefore(b, c, j, s)
      /\ \A j \in Instrument : j # action.instrument => c.lots[j] = b.lots[j]
      /\ c.ledger = b.ledger
  BY SplitLater DEF Entitled
<1> HIDE DEF c
<1>2. Entitled(c, s)
  BY <1>1, StillEntitled
<1> QED
  BY <1>1, <1>2 DEF c

Splits(action, i) == action.type = "STOCK_SPLIT" /\ action.instrument = i

LEMMA ActionEntitled ==
  ASSUME NEW b, Sound(b), NEW s \in Session, Entitled(b, s),
         NEW action \in Actions, action \in Today(s),
         action.type = "CASH_DIVIDEND" => Untouched(b, action.instrument, s)
  PROVE  /\ Entitled(ApplyAction(b, action), s)
         /\ \A j \in Instrument :
              ~Splits(action, j) => ApplyAction(b, action).lots[j] = b.lots[j]
<1> DEFINE paid == PayDividend(b, action, quantity_of(b.lots[action.instrument], action.at))
           split == SplitPosition(b, action)
<1>1. s \in Nat /\ (action.type # "CASH_DIVIDEND" => action.type = "STOCK_SPLIT")
  BY RunAssumption DEF Today, Action, Session
<1>2. \/ ApplyAction(b, action) = b
      \/ ApplyAction(b, action) = paid /\ action.type = "CASH_DIVIDEND"
      \/ ApplyAction(b, action) = split /\ action.type # "CASH_DIVIDEND"
  BY DEF ApplyAction, ApplyUnclaimed
<1>3. action.type = "CASH_DIVIDEND" => Entitled(paid, s) /\ paid.lots = b.lots
  BY <1>1, DividendEntitled
<1>4. Entitled(split, s) /\ \A j \in Instrument : j # action.instrument => split.lots[j] = b.lots[j]
  BY <1>1, SplitEntitled
<1> HIDE DEF paid, split
<1> QED
  BY <1>1, <1>2, <1>3, <1>4 DEF Splits

\* Actions of a session among which no dividend follows a split of its instrument.
Orderly(list) ==
  \A n \in DOMAIN list :
    /\ list[n] \in Actions
    /\ list[n].type = "CASH_DIVIDEND" =>
         \A m \in DOMAIN list : m < n => ~Splits(list[m], list[n].instrument)

SplitAmong(list, i) == \E n \in DOMAIN list : Splits(list[n], i)

LEMMA OrderlyBefore ==
  ASSUME NEW S, NEW list \in Seq(S), NEW action \in S, Orderly(Append(list, action))
  PROVE  /\ Orderly(list) /\ action \in Actions
         /\ action.type = "CASH_DIVIDEND" => ~SplitAmong(list, action.instrument)
<1> DEFINE all == Append(list, action)
<1>1. PICK m \in Nat : m = Len(list) /\ DOMAIN list = 1..m
  OBVIOUS
<1>2. DOMAIN all = 1..(m + 1) /\ all[m + 1] = action /\ \A n \in 1..m : all[n] = list[n]
  BY <1>1
<1>3. Orderly(all)
  OBVIOUS
<1> HIDE DEF all
<1>4. m + 1 \in DOMAIN all /\ \A n \in DOMAIN list : n \in DOMAIN all /\ n < m + 1 /\ all[n] = list[n]
  BY <1>1, <1>2
<1>5. action \in Actions /\ (action.type = "CASH_DIVIDEND" => ~SplitAmong(list, action.instrument))
  BY <1>2, <1>3, <1>4 DEF Orderly, SplitAmong
<1>6. Orderly(list)
  BY <1>3, <1>4 DEF Orderly
<1> QED
  BY <1>5, <1>6

LEMMA SplitAmongMore ==
  ASSUME NEW S, NEW list \in Seq(S), NEW action \in S, NEW i, ~SplitAmong(Append(list, action), i)
  PROVE  ~SplitAmong(list, i) /\ ~Splits(action, i)
<1> DEFINE all == Append(list, action)
<1>1. PICK m \in Nat : m = Len(list) /\ DOMAIN list = 1..m
  OBVIOUS
<1>2. DOMAIN all = 1..(m + 1) /\ all[m + 1] = action /\ \A n \in 1..m : all[n] = list[n]
  BY <1>1
<1>3. ~SplitAmong(all, i)
  OBVIOUS
<1> HIDE DEF all
<1>4. m + 1 \in DOMAIN all /\ \A n \in DOMAIN list : n \in DOMAIN all /\ all[n] = list[n]
  BY <1>1, <1>2
<1> QED
  BY <1>2, <1>3, <1>4 DEF SplitAmong

LEMMA ActionsEntitled ==
  ASSUME world \in Worlds, NEW b, Sound(b), NEW s \in Session, Entitled(b, s),
         \A i \in Instrument : Untouched(b, i, s),
         Orderly(Sift(world.actions, LAMBDA action : action.at = s))
  PROVE  Entitled(ApplyActions(b, s), s)
<1> DEFINE Fits(list) ==
             Orderly(list) =>
               /\ Sound(Applied(b, list)) /\ Entitled(Applied(b, list), s)
               /\ \A i \in Instrument : ~SplitAmong(list, i) => Untouched(Applied(b, list), i, s)
           P == {list \in Seq(Today(s)) : Fits(list)}
<1>1. << >> \in P
  <2>1. << >> \in Seq(Today(s))
    OBVIOUS
  <2> QED
    BY <2>1, NoAction
<1>2. ASSUME NEW list \in Seq(Today(s)), NEW action \in Today(s), list \in P
      PROVE  Append(list, action) \in P
  <2> DEFINE all == Append(list, action)
             c == Applied(b, list)
             d == ApplyAction(c, action)
  <2>0. all \in Seq(Today(s)) /\ Applied(b, all) = d
    <3>1. all \in Seq(Today(s))
      OBVIOUS
    <3> HIDE DEF P, Fits
    <3>2. Applied(b, all) = d
      BY OneMoreAction
    <3> QED
      BY <3>1, <3>2
  <2> SUFFICES ASSUME Orderly(all)
               PROVE  /\ Sound(d) /\ Entitled(d, s)
                      /\ \A i \in Instrument : ~SplitAmong(all, i) => Untouched(d, i, s)
    BY <2>0
  <2>1. /\ Orderly(list) /\ action \in Actions
        /\ action.type = "CASH_DIVIDEND" => ~SplitAmong(list, action.instrument)
    <3> HIDE DEF P, Fits
    <3> QED
      BY OrderlyBefore
  <2>2. /\ Sound(c) /\ Entitled(c, s)
        /\ \A i \in Instrument : ~SplitAmong(list, i) => Untouched(c, i, s)
    BY <1>2, <2>1
  <2>3. \A i \in Instrument : ~SplitAmong(all, i) => ~SplitAmong(list, i) /\ ~Splits(action, i)
    <3> HIDE DEF P, Fits
    <3> QED
      BY SplitAmongMore
  <2> HIDE DEF c, all, P, Fits
  <2>4. action \in Action /\ action.at <= LAST /\ action.instrument \in Instrument
    BY RunAssumption DEF Today, Session, Action
  <2>5. Sound(d)
    BY <2>2, <2>4, ActionSound
  <2>6. Entitled(d, s) /\ \A i \in Instrument : ~Splits(action, i) => d.lots[i] = c.lots[i]
    BY <2>1, <2>2, <2>4, ActionEntitled
  <2> HIDE DEF d
  <2>7. \A i \in Instrument : ~SplitAmong(all, i) => Untouched(d, i, s)
    BY <2>2, <2>3, <2>6 DEF Untouched
  <2> QED
    BY <2>5, <2>6, <2>7
<1> HIDE DEF P
<1>3. \A list \in Seq(Today(s)) : list \in P
  BY <1>1, <1>2, ListInduct
<1> QED
  BY <1>3, DueIs DEF P

-----------------------------------------------------------------------------
(* What the snapshots say. *)

\* An action's reference, the id of its evidence, is its own.
OwnRefs(w) == \A x, y \in ToSet(w.actions) : x.ref = y.ref => x = y

\* No dividend is announced behind a split of its instrument for the same session.
DividendsFirst(w) ==
  \A m, n \in DOMAIN w.actions :
    m < n /\ w.actions[m].at = w.actions[n].at /\ w.actions[n].type = "CASH_DIVIDEND"
      => ~Splits(w.actions[m], w.actions[n].instrument)

LEMMA DueOrderly ==
  ASSUME world \in Worlds, DividendsFirst(world), NEW s \in Session
  PROVE  Orderly(Sift(world.actions, LAMBDA action : action.at = s))
<1> DEFINE actions == world.actions
           Now == {k \in DOMAIN actions : actions[k].at = s}
           list == Chosen(actions, Now)
           N == Cardinality(Now)
<1>1. Sift(world.actions, LAMBDA action : action.at = s) = list
  BY DEF Sift
<1>2. actions \in Seq(Action)
  BY WorldsAssumption
<1>3. Now \in SUBSET DOMAIN actions /\ \A k \in Now : actions[k].at = s
  OBVIOUS
<1>4. /\ \A k \in DOMAIN actions : actions[k] \in Actions
      /\ \A m, n \in DOMAIN actions :
           m < n /\ actions[m].at = actions[n].at /\ actions[n].type = "CASH_DIVIDEND"
             => ~Splits(actions[m], actions[n].instrument)
  BY DEF DividendsFirst, Actions, ToSet
<1>5. Orderly(list)
  <2> HIDE DEF actions, Now
  <2>1. /\ DOMAIN list = 1..N
        /\ \A n \in 1..N : Nth(Now, n) \in Now /\ list[n] = actions[Nth(Now, n)]
        /\ \A m, n \in 1..N : m < n => Nth(Now, m) < Nth(Now, n)
    BY <1>2, <1>3, ChosenIs
  <2> HIDE DEF list, N
  <2>2. ASSUME NEW n \in 1..N PROVE list[n] \in Actions
    BY <1>3, <1>4, <2>1
  <2>3. ASSUME NEW n \in 1..N, list[n].type = "CASH_DIVIDEND", NEW m \in 1..N, m < n
        PROVE  ~Splits(list[m], list[n].instrument)
    <3>1. /\ Nth(Now, m) \in DOMAIN actions /\ Nth(Now, n) \in DOMAIN actions
          /\ Nth(Now, m) < Nth(Now, n)
          /\ actions[Nth(Now, m)].at = actions[Nth(Now, n)].at
          /\ list[m] = actions[Nth(Now, m)] /\ list[n] = actions[Nth(Now, n)]
      BY <1>3, <2>1, <2>3
    <3> QED
      BY <1>4, <2>3, <3>1
  <2> QED
    BY <2>1, <2>2, <2>3 DEF Orderly
<1> QED
  BY <1>1, <1>5

-----------------------------------------------------------------------------
(* The dividends of the first run. *)

Entitles ==
  runs = 0 =>
    /\ Entitled(book, session)
    /\ phase \in {"fund", "settle", "actions"} => \A i \in Instrument : Untouched(book, i, session)

LEMMA EntitlesInit == Init => Entitles
<1> SUFFICES ASSUME Init PROVE Entitled(book, session) /\ \A i \in Instrument : Untouched(book, i, session)
  BY DEF Entitles
<1>1. /\ book.ledger = {} /\ session = 0
      /\ \A i \in Instrument : book.lots[i] = << >>
  BY DEF Init, EmptyBook
<1>2. ToSet(<< >>) = {} /\ Table!ToSet(<< >>) = {}
  BY DEF ToSet, Table!ToSet
<1>3. Table!KnownBy(<< >>, 0)
  <2>1. << >> \in Table!Tables /\ DOMAIN << >> = {}
    BY DEF Table!Tables
  <2> QED
    BY <1>2, <2>1 DEF Table!KnownBy, Table!Sorted
<1> QED
  BY <1>1, <1>2, <1>3 DEF Entitled, Untouched

\* What is of today is of the past tomorrow.
LEMMA KnownLater ==
  ASSUME NEW b, Sound(b), NEW s \in Nat, NEW i \in Instrument, Table!KnownBy(b.lots[i], s)
  PROVE  Table!KnownBy(b.lots[i], s + 1) /\ Untouched(b, i, s + 1)
<1> DEFINE table == b.lots[i]
<1>1. table \in Seq(Row) /\ Table!KnownBy(table, s)
  BY DEF Sound, LotsFit
<1> HIDE DEF table
<1>2. \A x \in ToSet(table) : x.at \in Nat /\ x.at <= s
  <2>1. \A x \in ToSet(table) : x \in Row
    BY <1>1 DEF ToSet
  <2>2. \A x \in ToSet(table) : x.at <= s
    BY <1>1 DEF Table!KnownBy, ToSet, Table!ToSet
  <2> QED
    BY <2>1, <2>2 DEF Row
<1>3. \A x \in ToSet(table) : x.at < s + 1 /\ x.at <= s + 1
  BY <1>2
<1> QED
  BY <1>1, <1>3 DEF Table!KnownBy, ToSet, Table!ToSet, Untouched, table

LEMMA EntitledLater ==
  ASSUME NEW b, Sound(b), NEW s \in Nat, Entitled(b, s)
  PROVE  Entitled(b, s + 1) /\ \A i \in Instrument : Untouched(b, i, s + 1)
<1>1. \A i \in Instrument : Table!KnownBy(b.lots[i], s + 1) /\ Untouched(b, i, s + 1)
  BY KnownLater DEF Entitled
<1>2. ASSUME NEW t \in b.ledger, t.type = "CASH_DIVIDEND" PROVE PaidOn(b, t, s + 1)
  <2>1. PaidOn(b, t, s)
    BY <1>2 DEF Entitled
  <2> QED
    BY <2>1 DEF PaidOn
<1> QED
  BY <1>1, <1>2 DEF Entitled

LEMMA EntitlesNext ==
  ASSUME \A w \in Worlds : DividendsFirst(w)
  PROVE  Shape /\ Entitles /\ [Next]_vars => Entitles'
<1> SUFFICES ASSUME Shape, Entitles, [Next]_vars, runs' = 0
             PROVE  /\ Entitled(book', session')
                    /\ phase' \in {"fund", "settle", "actions"} =>
                         \A i \in Instrument : Untouched(book', i, session')
  <2> SUFFICES ASSUME Shape, Entitles, [Next]_vars PROVE Entitles'
    OBVIOUS
  <2>1. world' = world
    BY DEF Next, Step, FundBook, SettleOne, SettledAll, ApplyCorporateActions, FillOne,
           RaiseOverClose, FilledAll, Decide, LoadSealed, DecideMissing, PlaceOne,
           RejectShort, PlacedAll, NextSession, Finish, RunAgain, vars
  <2>2. Entitled(book, session)' = Entitled(book', session')
    BY <2>1 DEF Entitled, PaidOn, Actions
  <2> QED
    BY <2>2 DEF Entitles, Untouched
<1>1. CASE RunAgain
  BY <1>1, RunAssumption DEF RunAgain, Shape
<1>2. CASE NextSession
  <2>1. /\ book' = book /\ session' = session + 1 /\ runs = 0 /\ session \in Nat /\ Sound(book)
        /\ Entitled(book, session)
    BY <1>2, RunAssumption DEF NextSession, Shape, Session, Entitles
  <2> QED
    BY <2>1, EntitledLater
<1>3. CASE UNCHANGED vars
  BY <1>3 DEF vars, Entitles
<1>4. CASE Step /\ ~NextSession
  <2>0. /\ session' = session /\ runs = 0 /\ session \in Nat /\ session \in Session
        /\ Sound(book) /\ world \in Worlds /\ Entitled(book, session)
    <3>1. session' = session /\ runs' = runs
      BY <1>4 DEF Step, FundBook, SettleOne, SettledAll, ApplyCorporateActions, FillOne,
                  RaiseOverClose, FilledAll, Decide, LoadSealed, DecideMissing, PlaceOne,
                  RejectShort, PlacedAll, Finish, process
    <3> QED
      BY <3>1, RunAssumption DEF Shape, Session, Entitles
  <2> SUFFICES /\ Entitled(book', session)
               /\ phase' \in {"fund", "settle", "actions"} =>
                    \A i \in Instrument : Untouched(book', i, session)
    BY <2>0
  <2>1. CASE FundBook
    <3>1. book' = Fund(book) /\ phase = "fund"
      BY <2>1 DEF FundBook
    <3>2. book'.lots = book.lots
      BY <2>0, <3>1 DEF Fund, Post, Sound, IsBook
    <3> QED
      BY <2>0, <3>1, <3>2, FundEntitled DEF Entitles, Untouched
  <2>2. CASE SettleOne
    <3>1. PICK fill : book' = Settle(book, fill)
      BY <2>2 DEF SettleOne
    <3>2. phase = "settle"
      BY <2>2 DEF SettleOne
    <3>3. Entitled(book', session) /\ book'.lots = book.lots
      BY <2>0, <3>1, SettleEntitled
    <3> QED
      BY <2>0, <3>2, <3>3 DEF Entitles, Untouched
  <2>3. CASE ApplyCorporateActions
    <3>1. /\ book' = ApplyActions(book, session) /\ phase = "actions" /\ phase' = "fill"
      BY <2>3 DEF ApplyCorporateActions, After
    <3>2. \A i \in Instrument : Untouched(book, i, session)
      BY <2>0, <3>1 DEF Entitles
    <3>3. Orderly(Sift(world.actions, LAMBDA action : action.at = session))
      BY <2>0, DueOrderly
    <3>4. Entitled(ApplyActions(book, session), session)
      BY <2>0, <3>2, <3>3, ActionsEntitled
    <3> QED
      BY <3>1, <3>4
  <2>4. CASE FillOne
    <3>1. NextOrder \in book.orders
      BY <2>0, <2>4, NextOrderIs DEF FillOne
    <3>2. book' = Execute(book, NextOrder, session) /\ phase' = "fill"
      BY <2>4 DEF FillOne, process
    <3> QED
      BY <2>0, <3>1, <3>2, ExecuteEntitled
  <2>5. CASE PlaceOne
    <3>1. PICK order : book' = RecordOrder(book, order)
      BY <2>5 DEF PlaceOne
    <3>2. phase' = "place"
      BY <2>5 DEF PlaceOne
    <3> QED
      BY <2>0, <3>1, <3>2, RecordOrderEntitled
  <2>6. CASE RejectShort
    <3>1. PICK id, reason : book' = Reject(book, id, reason)
      BY <2>6 DEF RejectShort
    <3>2. phase' = phase /\ book'.lots = book.lots
      BY <2>0, <2>6, <3>1 DEF RejectShort, Reject, Sound, IsBook
    <3> QED
      BY <2>0, <3>1, <3>2, RejectEntitled DEF Entitles, Untouched
  <2>7. CASE book' = book /\ ~FundBook /\ ~ApplyCorporateActions
    <3>1. phase' \in {"fund", "settle", "actions"} => phase \in {"fund", "settle", "actions"}
      BY <1>4, <2>7
         DEF Step, After, SettleOne, SettledAll, FillOne, RaiseOverClose, FilledAll, Decide,
             LoadSealed, DecideMissing, PlaceOne, RejectShort, PlacedAll, Finish, process
    <3> QED
      BY <2>0, <2>7, <3>1 DEF Entitles
  <2> QED
    BY <1>4, <2>1, <2>2, <2>3, <2>4, <2>5, <2>6, <2>7
       DEF Step, SettledAll, RaiseOverClose, FilledAll, Decide, LoadSealed, DecideMissing,
           PlacedAll, Finish
<1> QED
  BY <1>1, <1>2, <1>3, <1>4 DEF Next

\* "Buying on the ex-date does not earn the dividend" (experiments/driver.py): if every
\* action has an evidence id of its own and none of an instrument's dividends comes
\* behind a split of the same session, then wherever the first run has come to, and
\* however its orders, fills and splits fell, a dividend was paid on what was held when
\* the session before closed.
THEOREM DividendsPayHolders ==
  ASSUME \A w \in Worlds : OwnRefs(w) /\ DividendsFirst(w)
  PROVE  Spec => [](runs = 0 => DividendsAreEntitled)
<1>1. Shape /\ Entitles => (runs = 0 => DividendsAreEntitled)
  <2> SUFFICES ASSUME Shape, Entitles, runs = 0, NEW n \in DOMAIN world.actions,
                      NEW paid \in book.ledger, paid.type = "CASH_DIVIDEND",
                      paid.ref = <<world.actions[n].ref, world.actions[n].instrument>>
               PROVE  Amount(paid, Cash) =
                        world.actions[n].amount
                          * quantity_of(book.lots[world.actions[n].instrument],
                                        world.actions[n].at - 1)
    BY DEF DividendsAreEntitled
  <2> DEFINE action == world.actions[n]
  <2>1. PaidOn(book, paid, session) /\ OwnRefs(world) /\ action \in Actions
    BY DEF Entitles, Entitled, Shape, Actions, ToSet
  <2>2. paid.ref = <<action.ref, action.instrument>>
    OBVIOUS
  <2> HIDE DEF action
  <2>3. PICK other \in Actions :
          /\ paid.ref = <<other.ref, other.instrument>>
          /\ Amount(paid, Cash) = other.amount * quantity_of(book.lots[other.instrument], other.at - 1)
    BY <2>1 DEF PaidOn
  <2>4. other = action
    BY <2>1, <2>2, <2>3 DEF OwnRefs, Actions
  <2> QED
    BY <2>3, <2>4 DEF action
<1>2. Init => Entitles
  BY EntitlesInit
<1>3. Shape /\ Entitles /\ [Next]_vars => Entitles'
  BY EntitlesNext
<1> QED
  BY <1>1, <1>2, <1>3, ShapeAlways, PTL DEF Spec

-----------------------------------------------------------------------------
(* The loops of an uninterrupted run: one turn after another. *)

Turn(kind, b, n, s) ==
  IF kind = "settle" THEN Settle(b, NextFill(b, s))
  ELSE IF kind = "fill" THEN Execute(b, FirstDue(DueOrders(b, s)), s)
  ELSE Cycle(b, n)

Turns(g, kind, b, s, N) ==
  g = [n \in 0..N |-> IF n = 0 THEN b ELSE Turn(kind, g[n - 1], n - 1, s)]

Looped(kind, b, s, N) == (CHOOSE g : Turns(g, kind, b, s, N))[N]

LEMMA TurnsAre ==
  ASSUME NEW g, NEW kind, NEW b, NEW s, NEW N \in Nat, Turns(g, kind, b, s, N)
  PROVE  g[0] = b /\ \A n \in 0..(N - 1) : g[n + 1] = Turn(kind, g[n], n, s)
<1>1. g[0] = b
  BY DEF Turns
<1>2. ASSUME NEW n \in 0..(N - 1) PROVE g[n + 1] = Turn(kind, g[n], n, s)
  <2>1. n + 1 \in 0..N /\ n + 1 # 0 /\ (n + 1) - 1 = n
    OBVIOUS
  <2>2. g[n + 1] = IF n + 1 = 0 THEN b ELSE Turn(kind, g[(n + 1) - 1], (n + 1) - 1, s)
    BY <2>1 DEF Turns
  <2> QED
    BY <2>1, <2>2
<1> QED
  BY <1>1, <1>2

\* The recursion has a solution, so what the loop computes is one.
LEMMA LoopedBy ==
  ASSUME NEW kind, NEW b, NEW s, NEW N \in Nat
  PROVE  \E g : Turns(g, kind, b, s, N) /\ Looped(kind, b, s, N) = g[N]
<1> DEFINE Solved == {m \in 0..N : \E h : Turns(h, kind, b, s, m)}
<1>1. 0 \in Solved
  <2> DEFINE h == [n \in 0..0 |-> b]
  <2>1. h = [n \in 0..0 |-> IF n = 0 THEN b ELSE Turn(kind, h[n - 1], n - 1, s)]
    <3>1. \A n \in 0..0 : n = 0
      OBVIOUS
    <3> QED
      BY <3>1
  <2>2. Turns(h, kind, b, s, 0)
    BY <2>1 DEF Turns
  <2>3. 0 \in 0..N
    OBVIOUS
  <2> HIDE DEF h
  <2> QED
    BY <2>2, <2>3
<1>2. ASSUME NEW m \in 0..(N - 1), m \in Solved PROVE m + 1 \in Solved
  <2>1. PICK h : Turns(h, kind, b, s, m)
    BY <1>2
  <2> DEFINE k == [n \in 0..(m + 1) |-> IF n = m + 1 THEN Turn(kind, h[m], m, s) ELSE h[n]]
  <2>2. h[0] = b /\ \A n \in 0..(m - 1) : h[n + 1] = Turn(kind, h[n], n, s)
    BY <2>1, TurnsAre
  <2>3. ASSUME NEW n \in 0..(m + 1)
        PROVE  k[n] = IF n = 0 THEN b ELSE Turn(kind, k[n - 1], n - 1, s)
    <3>1. CASE n = 0
      <4>1. 0 \in 0..(m + 1) /\ 0 # m + 1
        OBVIOUS
      <4> QED
        BY <2>2, <3>1, <4>1
    <3>2. CASE n = m + 1
      <4>1. n # 0 /\ n - 1 = m /\ m \in 0..(m + 1) /\ m # m + 1
        BY <3>2
      <4> QED
        BY <3>2, <4>1
    <3>3. CASE n # 0 /\ n # m + 1
      <4>1. n - 1 \in 0..(m - 1) /\ (n - 1) + 1 = n /\ n - 1 \in 0..(m + 1) /\ n - 1 # m + 1
        BY <3>3
      <4>2. k[n] = h[n] /\ k[n - 1] = h[n - 1]
        BY <3>3, <4>1
      <4>3. h[(n - 1) + 1] = Turn(kind, h[n - 1], n - 1, s)
        BY <2>2, <4>1
      <4> HIDE DEF k
      <4> QED
        BY <3>3, <4>1, <4>2, <4>3
    <3> QED
      BY <3>1, <3>2, <3>3
  <2>4. k = [n \in 0..(m + 1) |-> IF n = 0 THEN b ELSE Turn(kind, k[n - 1], n - 1, s)]
    <3>1. k = [n \in 0..(m + 1) |-> k[n]]
      OBVIOUS
    <3> HIDE DEF k
    <3> QED
      BY <2>3, <3>1
  <2>5. m + 1 \in 0..N
    OBVIOUS
  <2> HIDE DEF k
  <2> QED
    BY <2>4, <2>5 DEF Turns
<1>3. \E g : Turns(g, kind, b, s, N)
  <2> HIDE DEF Solved
  <2>1. \A i \in 0..N : i \in Solved
    BY <1>1, <1>2, Induct
  <2> QED
    BY <2>1 DEF Solved
<1> DEFINE g == CHOOSE g : Turns(g, kind, b, s, N)
<1>4. Turns(g, kind, b, s, N)
  BY <1>3
<1> QED
  BY <1>4 DEF Looped

LEMMA LoopedNext ==
  ASSUME NEW kind, NEW b, NEW s, NEW N \in Nat
  PROVE  /\ Looped(kind, b, s, 0) = b
         /\ Looped(kind, b, s, N + 1) = Turn(kind, Looped(kind, b, s, N), N, s)
<1>1. PICK z : Turns(z, kind, b, s, 0) /\ Looped(kind, b, s, 0) = z[0]
  BY LoopedBy
<1>2. PICK g : Turns(g, kind, b, s, N) /\ Looped(kind, b, s, N) = g[N]
  BY LoopedBy
<1>3. PICK h : Turns(h, kind, b, s, N + 1) /\ Looped(kind, b, s, N + 1) = h[N + 1]
  BY LoopedBy
<1>4. z[0] = b
  BY <1>1, TurnsAre
<1>5. g[0] = b /\ \A n \in 0..(N - 1) : g[n + 1] = Turn(kind, g[n], n, s)
  BY <1>2, TurnsAre
<1>6. h[0] = b /\ \A n \in 0..N : h[n + 1] = Turn(kind, h[n], n, s)
  <2>1. N + 1 \in Nat /\ (N + 1) - 1 = N
    OBVIOUS
  <2> QED
    BY <1>3, <2>1, TurnsAre
<1> DEFINE Same == {n \in 0..N : g[n] = h[n]}
<1>7. 0 \in Same
  BY <1>5, <1>6
<1>8. ASSUME NEW n \in 0..(N - 1), n \in Same PROVE n + 1 \in Same
  BY <1>5, <1>6, <1>8
<1>9. g[N] = h[N]
  <2> HIDE DEF Same
  <2>1. \A n \in 0..N : n \in Same
    BY <1>7, <1>8, Induct
  <2> QED
    BY <2>1 DEF Same
<1> QED
  BY <1>1, <1>2, <1>3, <1>4, <1>6, <1>9

\* The first turn may be taken before the loop.
LEMMA LoopedFirst ==
  ASSUME NEW kind \in {"settle", "fill"}, NEW b, NEW s, NEW N \in Nat
  PROVE  Looped(kind, b, s, N + 1) = Looped(kind, Turn(kind, b, 0, s), s, N)
<1> DEFINE c == Turn(kind, b, 0, s)
           Same == {n \in 0..N : Looped(kind, b, s, n + 1) = Looped(kind, c, s, n)}
<1>0. \A x, n : Turn(kind, x, n, s) = Turn(kind, x, 0, s)
  BY DEF Turn
<1> HIDE DEF c
<1>1. 0 \in Same
  <2>1. Looped(kind, b, s, 0 + 1) = Turn(kind, Looped(kind, b, s, 0), 0, s)
    BY LoopedNext
  <2>2. Looped(kind, b, s, 0) = b /\ Looped(kind, c, s, 0) = c
    BY LoopedNext
  <2> QED
    BY <2>1, <2>2 DEF c
<1>2. ASSUME NEW n \in 0..(N - 1), n \in Same PROVE n + 1 \in Same
  <2>1. n \in Nat /\ n + 1 \in Nat /\ n + 1 \in 0..N
    OBVIOUS
  <2>2. Looped(kind, b, s, (n + 1) + 1) = Turn(kind, Looped(kind, b, s, n + 1), n + 1, s)
    BY <2>1, LoopedNext
  <2>3. Looped(kind, c, s, n + 1) = Turn(kind, Looped(kind, c, s, n), n, s)
    BY <2>1, LoopedNext
  <2>4. Looped(kind, b, s, n + 1) = Looped(kind, c, s, n)
    BY <1>2
  <2>5. Turn(kind, Looped(kind, c, s, n), n + 1, s) = Turn(kind, Looped(kind, c, s, n), n, s)
    BY <1>0
  <2> QED
    BY <2>1, <2>2, <2>3, <2>4, <2>5
<1>3. N \in Same
  <2> HIDE DEF Same
  <2>1. \A n \in 0..N : n \in Same
    BY <1>1, <1>2, Induct
  <2> QED
    BY <2>1
<1> QED
  BY <1>3 DEF c

LEMMA LoopsAre ==
  /\ \A b, s : SettleAll(b, s) = Looped("settle", b, s, Cardinality(DueFills(b, s)))
  /\ \A b, s : FillAll(b, s) = Looped("fill", b, s, Cardinality(DueOrders(b, s)))
  /\ \A b, last : CyclesThrough(b, last) = Looped("cycle", b, 0, last + 1)
<1>1. ASSUME NEW b, NEW s
      PROVE  SettleAll(b, s) = Looped("settle", b, s, Cardinality(DueFills(b, s)))
  BY DEF SettleAll, Looped, Turns, Turn
<1>2. ASSUME NEW b, NEW s
      PROVE  FillAll(b, s) = Looped("fill", b, s, Cardinality(DueOrders(b, s)))
  BY DEF FillAll, Looped, Turns, Turn
<1>3. ASSUME NEW b, NEW last
      PROVE  CyclesThrough(b, last) = Looped("cycle", b, 0, last + 1)
  BY DEF CyclesThrough, Looped, Turns, Turn
<1> QED
  BY <1>1, <1>2, <1>3

LEMMA SettleFirst ==
  ASSUME NEW b, NEW s, NEW c, c = Settle(b, NextFill(b, s)), NEW N \in Nat,
         Cardinality(DueFills(b, s)) = N + 1, Cardinality(DueFills(c, s)) = N
  PROVE  SettleAll(b, s) = SettleAll(c, s)
<1>1. Turn("settle", b, 0, s) = c
  BY DEF Turn
<1>2. Looped("settle", b, s, N + 1) = Looped("settle", c, s, N)
  BY <1>1, LoopedFirst
<1> QED
  BY <1>2, LoopsAre

LEMMA FillFirst ==
  ASSUME NEW b, NEW s, NEW c, c = Execute(b, FirstDue(DueOrders(b, s)), s), NEW N \in Nat,
         Cardinality(DueOrders(b, s)) = N + 1, Cardinality(DueOrders(c, s)) = N
  PROVE  FillAll(b, s) = FillAll(c, s)
<1>1. Turn("fill", b, 0, s) = c
  BY DEF Turn
<1>2. Looped("fill", b, s, N + 1) = Looped("fill", c, s, N)
  BY <1>1, LoopedFirst
<1> QED
  BY <1>2, LoopsAre

\* A loop over nothing leaves the book as it is.
LEMMA NothingDue ==
  ASSUME NEW b, NEW s
  PROVE  /\ DueFills(b, s) = {} => SettleAll(b, s) = b
         /\ DueOrders(b, s) = {} => FillAll(b, s) = b
<1>1. Cardinality({}) = 0
  BY FS_EmptySet
<1>2. Looped("settle", b, s, 0) = b /\ Looped("fill", b, s, 0) = b
  BY LoopedNext
<1> QED
  BY <1>1, <1>2, LoopsAre

\* What the cycles up to a session leave, from what those before it left.
Before(b, n) == Looped("cycle", b, 0, n)

LEMMA CyclesAre ==
  ASSUME NEW b, NEW n \in Nat
  PROVE  /\ Before(b, 0) = b /\ CyclesThrough(b, n) = Before(b, n + 1)
         /\ Before(b, n + 1) = Cycle(Before(b, n), n)
         /\ CyclesThrough(b, n) = Cycle(Before(b, n), n)
<1>1. CyclesThrough(b, n) = Before(b, n + 1)
  BY LoopsAre DEF Before
<1>2. Before(b, 0) = b /\ Before(b, n + 1) = Turn("cycle", Before(b, n), n, 0)
  BY LoopedNext DEF Before
<1>3. Turn("cycle", Before(b, n), n, 0) = Cycle(Before(b, n), n)
  BY DEF Turn
<1> QED
  BY <1>1, <1>2, <1>3

-----------------------------------------------------------------------------
(* Placing: whatever the order, each intent adds its order and, when that is *)
(* for nothing, its rejection.                                               *)

IntentId(s, intent) == <<s, intent[1], intent[2]>>
IsPlaced(b, s, intent) == \E placed \in b.orders : OrderId(placed) = IntentId(s, intent)
IsShort(b, s, intent) == ~(Size(b, intent[1], intent[2], s) > 0)
ShortRow(b, s, intent) ==
  [order |-> IntentId(s, intent), reason |-> Shortfall(b, intent[2], s)]

OrdersOf(b, s, intents) ==
  {NewOrder(b, intent, s) : intent \in {i \in intents : ~IsPlaced(b, s, i)}}
ShortOf(b, s, intents) ==
  {ShortRow(b, s, intent) :
     intent \in {i \in intents : IsShort(b, s, i) /\ ~Rejected(b, IntentId(s, i))}}

WithOrders(b, orders, rejections) ==
  [orders |-> b.orders \cup orders, fills |-> b.fills, settled |-> b.settled,
   rejections |-> b.rejections \cup rejections, ledger |-> b.ledger, claims |-> b.claims,
   lots |-> b.lots]
Placing(b, s, intents) == WithOrders(b, OrdersOf(b, s, intents), ShortOf(b, s, intents))

\* What an order is sized on.
LEMMA SameSizes ==
  ASSUME NEW b, NEW c, c.ledger = b.ledger, c.lots = b.lots
  PROVE  /\ \A i, side, s : Size(c, i, side, s) = Size(b, i, side, s)
         /\ \A side, s : Shortfall(c, side, s) = Shortfall(b, side, s)
         /\ \A intent, s : NewOrder(c, intent, s) = NewOrder(b, intent, s)
         /\ \A intent, s : IsShort(c, s, intent) <=> IsShort(b, s, intent)
         /\ \A intent, s : ShortRow(c, s, intent) = ShortRow(b, s, intent)
<1>1. \A account, s : Balance(c, account, s) = Balance(b, account, s)
  BY DEF Balance
<1>2. \A s : Available(c, s) = Available(b, s) /\ Equity(c, s) = Equity(b, s)
  BY <1>1 DEF Available, Equity
<1>3. \A i, s : BuyQuantity(c, i, s) = BuyQuantity(b, i, s)
  BY <1>2 DEF BuyQuantity
<1>4. \A i, side, s : Size(c, i, side, s) = Size(b, i, side, s)
  BY <1>3 DEF Size
<1>5. \A side, s : Shortfall(c, side, s) = Shortfall(b, side, s)
  BY <1>2 DEF Shortfall
<1>6. \A intent, s : NewOrder(c, intent, s) = NewOrder(b, intent, s)
  BY <1>4 DEF NewOrder
<1> QED
  BY <1>4, <1>5, <1>6 DEF IsShort, ShortRow

LEMMA NewOrderIs ==
  ASSUME NEW b, NEW intent, NEW s
  PROVE  /\ OrderId(NewOrder(b, intent, s)) = IntentId(s, intent)
         /\ NewOrder(b, intent, s).quantity > 0 <=> ~IsShort(b, s, intent)
BY DEF NewOrder, OrderId, IntentId, IsShort

\* A step, as the rows it adds.
LEMMA IntentAdds ==
  ASSUME NEW b, IsBook(b), NEW intent, NEW s
  PROVE  PlaceIntent(b, intent, s) =
           WithOrders(b, IF IsPlaced(b, s, intent) THEN {} ELSE {NewOrder(b, intent, s)},
                         IF IsShort(b, s, intent) /\ ~Rejected(b, IntentId(s, intent))
                         THEN {ShortRow(b, s, intent)} ELSE {})
<1> DEFINE order == NewOrder(b, intent, s)
           id == IntentId(s, intent)
           placed == RecordOrder(b, order)
<1>1. OrderId(order) = id /\ (order.quantity > 0 <=> ~IsShort(b, s, intent))
  BY NewOrderIs
<1>2. PlaceIntent(b, intent, s) = IF order.quantity > 0 THEN placed
                                  ELSE Reject(placed, OrderId(order), Shortfall(b, intent[2], s))
  BY DEF PlaceIntent
<1> HIDE DEF order, id
<1>3. placed = WithOrders(b, IF IsPlaced(b, s, intent) THEN {} ELSE {order}, {})
  BY <1>1 DEF RecordOrder, IsPlaced, id, IsBook, WithOrders
<1> HIDE DEF placed
<1>4. placed.rejections = b.rejections
  BY <1>3 DEF WithOrders
<1>5. Rejected(placed, id) <=> Rejected(b, id)
  BY <1>4 DEF Rejected
<1>6. ShortRow(b, s, intent) = [order |-> id, reason |-> Shortfall(b, intent[2], s)]
  BY DEF ShortRow, id
<1>7. CASE IsShort(b, s, intent) /\ ~Rejected(b, id)
  <2>1. PlaceIntent(b, intent, s) = [placed EXCEPT !.rejections = @ \cup {ShortRow(b, s, intent)}]
    BY <1>1, <1>2, <1>5, <1>6, <1>7 DEF Reject
  <2> QED
    BY <1>3, <1>7, <2>1 DEF WithOrders, order, id
<1>8. CASE ~(IsShort(b, s, intent) /\ ~Rejected(b, id))
  <2>1. PlaceIntent(b, intent, s) = placed
    BY <1>1, <1>2, <1>5, <1>8 DEF Reject
  <2> QED
    BY <1>3, <1>8, <2>1 DEF order, id
<1> QED
  BY <1>7, <1>8

Pairs == Instrument \X Side

LEMMA IdsDiffer ==
  ASSUME NEW s, NEW i \in Pairs, NEW j \in Pairs, IntentId(s, i) = IntentId(s, j)
  PROVE  i = j
BY DEF Pairs, IntentId

LEMMA PlaceMore ==
  ASSUME NEW b, IsBook(b), NEW s, NEW T \in SUBSET Pairs, NEW intent \in Pairs, intent \notin T
  PROVE  PlaceIntent(Placing(b, s, T), intent, s) = Placing(b, s, T \cup {intent})
<1> DEFINE c == Placing(b, s, T)
           more == T \cup {intent}
           id == IntentId(s, intent)
<1>1. /\ IsBook(c) /\ c.ledger = b.ledger /\ c.lots = b.lots
      /\ c.orders = b.orders \cup OrdersOf(b, s, T)
      /\ c.rejections = b.rejections \cup ShortOf(b, s, T)
  BY DEF Placing, WithOrders, IsBook
<1> HIDE DEF c
<1>2. /\ NewOrder(c, intent, s) = NewOrder(b, intent, s)
      /\ IsShort(c, s, intent) <=> IsShort(b, s, intent)
      /\ ShortRow(c, s, intent) = ShortRow(b, s, intent)
  BY <1>1, SameSizes
<1>3. IsPlaced(c, s, intent) <=> IsPlaced(b, s, intent)
  <2>1. ASSUME NEW order \in OrdersOf(b, s, T) PROVE OrderId(order) # id
    <3>1. PICK other \in T : order = NewOrder(b, other, s)
      BY DEF OrdersOf
    <3>2. OrderId(order) = IntentId(s, other) /\ other \in Pairs /\ other # intent
      BY <3>1, NewOrderIs
    <3> QED
      BY <3>2, IdsDiffer
  <2> QED
    BY <1>1, <2>1 DEF IsPlaced
<1>4. Rejected(c, id) <=> Rejected(b, id)
  <2>1. ASSUME NEW row \in ShortOf(b, s, T) PROVE row.order # id
    <3>1. PICK other \in T : row = ShortRow(b, s, other)
      BY DEF ShortOf
    <3>2. row.order = IntentId(s, other) /\ other \in Pairs /\ other # intent
      BY <3>1 DEF ShortRow
    <3> QED
      BY <3>2, IdsDiffer
  <2> QED
    BY <1>1, <2>1 DEF Rejected
<1> DEFINE own == IF IsPlaced(b, s, intent) THEN {} ELSE {NewOrder(b, intent, s)}
           row == IF IsShort(b, s, intent) /\ ~Rejected(b, id) THEN {ShortRow(b, s, intent)} ELSE {}
<1>5. PlaceIntent(c, intent, s) = WithOrders(c, own, row)
  BY <1>1, <1>2, <1>3, <1>4, IntentAdds
<1>6. OrdersOf(b, s, more) = OrdersOf(b, s, T) \cup own
  <2>1. ASSUME NEW x PROVE x \in OrdersOf(b, s, more) <=> x \in OrdersOf(b, s, T) \/ x \in own
    BY DEF OrdersOf
  <2> QED
    BY <2>1
<1>7. ShortOf(b, s, more) = ShortOf(b, s, T) \cup row
  <2>1. ASSUME NEW x PROVE x \in ShortOf(b, s, more) <=> x \in ShortOf(b, s, T) \/ x \in row
    BY DEF ShortOf
  <2> QED
    BY <2>1
<1> HIDE DEF own, row
<1>8. /\ c.fills = b.fills /\ c.settled = b.settled /\ c.claims = b.claims
  BY DEF c, Placing, WithOrders
<1>9. Placing(b, s, more) = WithOrders(b, OrdersOf(b, s, T) \cup own, ShortOf(b, s, T) \cup row)
  BY <1>6, <1>7 DEF Placing
<1>10. WithOrders(c, own, row) = WithOrders(b, OrdersOf(b, s, T) \cup own, ShortOf(b, s, T) \cup row)
  <2>1. /\ c.orders \cup own = b.orders \cup (OrdersOf(b, s, T) \cup own)
        /\ c.rejections \cup row = b.rejections \cup (ShortOf(b, s, T) \cup row)
    BY <1>1
  <2> QED
    BY <1>1, <1>8, <2>1 DEF WithOrders
<1> QED
  BY <1>5, <1>9, <1>10 DEF c

\* The intents a session has sealed.
Sealed(s) == IF bundles[s] = NotSealed THEN {} ELSE bundles[s]

LEMMA PlaceNone == ASSUME NEW b, NEW s, bundles[s] = NotSealed PROVE PlaceAll(b, s) = b
<1> DEFINE Iter(iter) == iter = [t \in SUBSET {} |-> IF t = {} THEN b ELSE
             PlaceIntent(iter[t \ {CHOOSE x \in t : TRUE}], CHOOSE x \in t : TRUE, s)]
           iter == CHOOSE iter : Iter(iter)
<1>1. PlaceAll(b, s) = iter[{}]
  BY DEF PlaceAll, FoldSet, MapThenFoldSet
<1>2. \E h : Iter(h)
  <2> DEFINE h == [t \in SUBSET {} |-> b]
  <2>1. \A t \in SUBSET {} : t = {}
    OBVIOUS
  <2>2. Iter(h)
    BY <2>1
  <2> QED
    BY <2>2
<1>3. Iter(iter)
  <2> HIDE DEF Iter
  <2> QED
    BY <1>2
<1>4. {} \in SUBSET {}
  OBVIOUS
<1> QED
  BY <1>1, <1>3, <1>4

LEMMA PlaceAllIs ==
  ASSUME NEW b, IsBook(b), NEW s, IsFiniteSet(Sealed(s)), Sealed(s) \subseteq Pairs
  PROVE  PlaceAll(b, s) = Placing(b, s, Sealed(s))
<1> DEFINE T == Sealed(s)
           Iter(iter) == iter = [t \in SUBSET T |-> IF t = {} THEN b ELSE
             PlaceIntent(iter[t \ {CHOOSE x \in t : TRUE}], CHOOSE x \in t : TRUE, s)]
           iter == CHOOSE iter : Iter(iter)
           h == [t \in SUBSET T |-> Placing(b, s, t)]
<1>0. PlaceAll(b, s) = iter[T]
  BY DEF PlaceAll, FoldSet, MapThenFoldSet, Sealed
<1>1. Placing(b, s, {}) = b
  BY DEF Placing, WithOrders, OrdersOf, ShortOf, IsBook
<1>2. T \subseteq Pairs /\ IsFiniteSet(T)
  OBVIOUS
<1> HIDE DEF T
<1>3. ASSUME NEW t \in SUBSET T, t # {}
      PROVE  Placing(b, s, t) =
               PlaceIntent(Placing(b, s, t \ {CHOOSE x \in t : TRUE}), CHOOSE x \in t : TRUE, s)
  <2> DEFINE x == CHOOSE x \in t : TRUE
  <2>1. x \in t
    BY <1>3
  <2> HIDE DEF x
  <2>2. x \in Pairs /\ t \ {x} \in SUBSET Pairs /\ x \notin t \ {x} /\ (t \ {x}) \cup {x} = t
    BY <1>2, <2>1
  <2>3. PlaceIntent(Placing(b, s, t \ {x}), x, s) = Placing(b, s, (t \ {x}) \cup {x})
    BY <2>2, PlaceMore
  <2> QED
    BY <2>2, <2>3 DEF x
<1>4. Iter(h)
  <2> SUFFICES ASSUME NEW t \in SUBSET T
               PROVE  h[t] = IF t = {} THEN b ELSE
                 PlaceIntent(h[t \ {CHOOSE x \in t : TRUE}], CHOOSE x \in t : TRUE, s)
    OBVIOUS
  <2>1. t \ {CHOOSE x \in t : TRUE} \in SUBSET T
    OBVIOUS
  <2>2. h[t] = Placing(b, s, t)
        /\ h[t \ {CHOOSE x \in t : TRUE}] = Placing(b, s, t \ {CHOOSE x \in t : TRUE})
    BY <2>1
  <2> QED
    BY <1>1, <1>3, <2>2
<1>5. Iter(iter)
  <2> HIDE DEF Iter, h
  <2> QED
    BY <1>4
<1> DEFINE P == {t \in SUBSET T : iter[t] = h[t]}
<1>6. ASSUME NEW t \in SUBSET T, \A x \in t : t \ {x} \in P PROVE t \in P
  <2> DEFINE x == CHOOSE x \in t : TRUE
  <2>1. t # {} => x \in t
    OBVIOUS
  <2>2. /\ iter[t] = IF t = {} THEN b ELSE PlaceIntent(iter[t \ {x}], x, s)
        /\ h[t] = IF t = {} THEN b ELSE PlaceIntent(h[t \ {x}], x, s)
    <3> HIDE DEF h, iter
    <3> QED
      BY <1>4, <1>5
  <2> HIDE DEF x, h, iter
  <2>3. t # {} => iter[t \ {x}] = h[t \ {x}]
    BY <1>6, <2>1
  <2> QED
    BY <2>2, <2>3
<1>7. T \in P
  <2> HIDE DEF P
  <2>1. \A t \in SUBSET T : t \in P
    BY <1>2, <1>6, FiniteInduct
  <2> QED
    BY <2>1
<1> QED
  BY <1>0, <1>7 DEF T

\* Placing one of them first, or turning one down, makes no difference.
LEMMA PlacedOne ==
  ASSUME NEW b, IsBook(b), NEW s, IsFiniteSet(Sealed(s)), Sealed(s) \subseteq Pairs,
         NEW intent \in Sealed(s), NEW c, c = RecordOrder(b, NewOrder(b, intent, s))
  PROVE  PlaceAll(c, s) = PlaceAll(b, s)
<1> DEFINE order == NewOrder(b, intent, s)
           T == Sealed(s)
<1>1. OrderId(order) = IntentId(s, intent)
  BY NewOrderIs
<1>2. c = WithOrders(b, IF IsPlaced(b, s, intent) THEN {} ELSE {order}, {})
  BY <1>1 DEF RecordOrder, IsPlaced, IsBook, WithOrders
<1>3. /\ IsBook(c) /\ c.ledger = b.ledger /\ c.lots = b.lots /\ c.rejections = b.rejections
      /\ c.fills = b.fills /\ c.settled = b.settled /\ c.claims = b.claims
      /\ c.orders = b.orders \cup (IF IsPlaced(b, s, intent) THEN {} ELSE {order})
  BY <1>2 DEF WithOrders, IsBook
<1>4. /\ \A i : NewOrder(c, i, s) = NewOrder(b, i, s)
      /\ \A i : IsShort(c, s, i) <=> IsShort(b, s, i)
      /\ \A i : ShortRow(c, s, i) = ShortRow(b, s, i)
  BY <1>3, SameSizes
<1>5. \A i \in T : IsPlaced(c, s, i) <=> IsPlaced(b, s, i) \/ i = intent
  <2> TAKE i \in T
  <2>1. i \in Pairs /\ intent \in Pairs
    OBVIOUS
  <2>2. OrderId(order) = IntentId(s, i) => i = intent
    BY <1>1, <2>1, IdsDiffer
  <2> HIDE DEF order
  <2> QED
    BY <1>1, <1>3, <2>2 DEF IsPlaced
<1>6. \A i : Rejected(c, IntentId(s, i)) <=> Rejected(b, IntentId(s, i))
  BY <1>3 DEF Rejected
<1>7. c.orders \cup OrdersOf(c, s, T) = b.orders \cup OrdersOf(b, s, T)
  <2>1. ASSUME NEW x
        PROVE  x \in c.orders \cup OrdersOf(c, s, T) <=> x \in b.orders \cup OrdersOf(b, s, T)
    <3> HIDE DEF T
    <3>1. intent \in T
      BY DEF T
    <3>2. x \in OrdersOf(c, s, T) <=> \E i \in T : x = NewOrder(b, i, s) /\ ~IsPlaced(c, s, i)
      BY <1>4 DEF OrdersOf
    <3>3. x \in OrdersOf(b, s, T) <=> \E i \in T : x = NewOrder(b, i, s) /\ ~IsPlaced(b, s, i)
      BY DEF OrdersOf
    <3>4. x \in c.orders <=> x \in b.orders \/ (~IsPlaced(b, s, intent) /\ x = NewOrder(b, intent, s))
      BY <1>3
    <3> QED
      BY <1>5, <3>1, <3>2, <3>3, <3>4
  <2> QED
    BY <2>1
<1>8. ShortOf(c, s, T) = ShortOf(b, s, T)
  BY <1>4, <1>6 DEF ShortOf
<1>9. Placing(c, s, T) = Placing(b, s, T)
  BY <1>3, <1>7, <1>8 DEF Placing, WithOrders
<1> QED
  BY <1>3, <1>9, PlaceAllIs

LEMMA RejectedOne ==
  ASSUME NEW b, IsBook(b), NEW s, IsFiniteSet(Sealed(s)), Sealed(s) \subseteq Pairs,
         NEW intent \in Sealed(s), IsShort(b, s, intent),
         NEW c, c = Reject(b, IntentId(s, intent), Shortfall(b, intent[2], s))
  PROVE  PlaceAll(c, s) = PlaceAll(b, s)
<1> DEFINE id == IntentId(s, intent)
           T == Sealed(s)
           row == ShortRow(b, s, intent)
<1>1. c = WithOrders(b, {}, IF Rejected(b, id) THEN {} ELSE {row})
  BY DEF Reject, IsBook, WithOrders, ShortRow
<1>2. /\ IsBook(c) /\ c.ledger = b.ledger /\ c.lots = b.lots /\ c.orders = b.orders
      /\ c.fills = b.fills /\ c.settled = b.settled /\ c.claims = b.claims
      /\ c.rejections = b.rejections \cup (IF Rejected(b, id) THEN {} ELSE {row})
  BY <1>1 DEF WithOrders, IsBook
<1>3. /\ \A i : NewOrder(c, i, s) = NewOrder(b, i, s)
      /\ \A i : IsShort(c, s, i) <=> IsShort(b, s, i)
      /\ \A i : ShortRow(c, s, i) = ShortRow(b, s, i)
  BY <1>2, SameSizes
<1>4. \A i : IsPlaced(c, s, i) <=> IsPlaced(b, s, i)
  BY <1>2 DEF IsPlaced
<1>5. \A i \in T : Rejected(c, IntentId(s, i)) <=> Rejected(b, IntentId(s, i)) \/ i = intent
  <2> TAKE i \in T
  <2>1. i \in Pairs /\ intent \in Pairs
    OBVIOUS
  <2>2. row.order = id
    BY DEF ShortRow
  <2>3. id = IntentId(s, i) => i = intent
    BY <2>1, IdsDiffer
  <2> HIDE DEF row
  <2> QED
    BY <1>2, <2>2, <2>3 DEF Rejected
<1>6. c.rejections \cup ShortOf(c, s, T) = b.rejections \cup ShortOf(b, s, T)
  <2>1. ASSUME NEW x
        PROVE  x \in c.rejections \cup ShortOf(c, s, T) <=> x \in b.rejections \cup ShortOf(b, s, T)
    <3> HIDE DEF T
    <3>1. intent \in T /\ IsShort(b, s, intent)
      BY DEF T
    <3>2. x \in ShortOf(c, s, T) <=> \E i \in T : /\ x = ShortRow(b, s, i) /\ IsShort(b, s, i)
                                                  /\ ~Rejected(c, IntentId(s, i))
      BY <1>3 DEF ShortOf
    <3>3. x \in ShortOf(b, s, T) <=> \E i \in T : /\ x = ShortRow(b, s, i) /\ IsShort(b, s, i)
                                                  /\ ~Rejected(b, IntentId(s, i))
      BY DEF ShortOf
    <3>4. x \in c.rejections <=> x \in b.rejections \/ (~Rejected(b, id) /\ x = ShortRow(b, s, intent))
      BY <1>2
    <3> QED
      BY <1>5, <3>1, <3>2, <3>3, <3>4
  <2> QED
    BY <2>1
<1>7. OrdersOf(c, s, T) = OrdersOf(b, s, T)
  BY <1>3, <1>4 DEF OrdersOf
<1>8. Placing(c, s, T) = Placing(b, s, T)
  BY <1>2, <1>6, <1>7 DEF Placing, WithOrders
<1> QED
  BY <1>2, <1>8, PlaceAllIs

\* All that a session sealed has been placed.
IsEnded(b, s, intent) ==
  IsPlaced(b, s, intent) /\ (IsShort(b, s, intent) => Rejected(b, IntentId(s, intent)))

LEMMA PlacedBefore ==
  ASSUME NEW b, IsBook(b), NEW s, IsFiniteSet(Sealed(s)), Sealed(s) \subseteq Pairs,
         \A intent \in Sealed(s) : IsEnded(b, s, intent)
  PROVE  PlaceAll(b, s) = b
<1>1. OrdersOf(b, s, Sealed(s)) = {} /\ ShortOf(b, s, Sealed(s)) = {}
  BY DEF OrdersOf, ShortOf, IsEnded
<1>2. Placing(b, s, Sealed(s)) = b
  BY <1>1 DEF Placing, WithOrders, IsBook
<1> QED
  BY <1>2, PlaceAllIs

-----------------------------------------------------------------------------
(* What the operations of a book say of it does not depend on the run, only  *)
(* on the world and on what was sealed.                                      *)

LEMMA SameSizing ==
  ASSUME world' = world
  PROVE  /\ \A b, i, side, s : Size(b, i, side, s)' = Size(b, i, side, s)
         /\ \A b, intent, s : NewOrder(b, intent, s)' = NewOrder(b, intent, s)
         /\ \A b, s, intent : IsShort(b, s, intent)' <=> IsShort(b, s, intent)
<1>1. \A i, s : Quote(i, s)' = Quote(i, s)
  BY DEF Quote
<1>2. \A i, s : Mid(i, s)' = Mid(i, s)
  BY <1>1 DEF Mid
<1>3. \A b, s : Equity(b, s)' = Equity(b, s)
  BY <1>2 DEF Equity
<1>4. \A b, i, s : BuyQuantity(b, i, s)' = BuyQuantity(b, i, s)
  BY <1>1, <1>3 DEF BuyQuantity
<1>5. \A b, i, side, s : Size(b, i, side, s)' = Size(b, i, side, s)
  BY <1>4 DEF Size
<1>6. \A b, intent, s : NewOrder(b, intent, s)' = NewOrder(b, intent, s)
  BY <1>5 DEF NewOrder
<1>7. \A b, s, intent : IsShort(b, s, intent)' <=> IsShort(b, s, intent)
  BY <1>5 DEF IsShort
<1> QED
  BY <1>5, <1>6, <1>7

LEMMA SamePlacing ==
  ASSUME world' = world
  PROVE  \A b, intent, s : PlaceIntent(b, intent, s)' = PlaceIntent(b, intent, s)
<1>1. \A b, intent, s : NewOrder(b, intent, s)' = NewOrder(b, intent, s)
  BY SameSizing
<1> QED
  BY <1>1 DEF PlaceIntent

LEMMA SameFilling ==
  ASSUME world' = world
  PROVE  \A b, order, s : Execute(b, order, s)' = Execute(b, order, s)
<1>1. \A i, s : Quote(i, s)' = Quote(i, s)
  BY DEF Quote
<1>2. \A order, s : Refusal(order, s)' = Refusal(order, s) /\ FillQuantity(order, s)' = FillQuantity(order, s)
  BY <1>1 DEF Refusal, FillQuantity
<1>3. ASSUME NEW b, NEW order, NEW s PROVE BookBuy(b, order, s)' = BookBuy(b, order, s)
  <2>1. /\ Quote(order.instrument, s)' = Quote(order.instrument, s)
        /\ FillQuantity(order, s)' = FillQuantity(order, s)
    BY <1>1, <1>2
  <2> QED
    BY <2>1, Zenon DEF BookBuy
<1>4. ASSUME NEW b, NEW order, NEW s PROVE BookSell(b, order, s)' = BookSell(b, order, s)
  <2>1. /\ Quote(order.instrument, s)' = Quote(order.instrument, s)
        /\ FillQuantity(order, s)' = FillQuantity(order, s)
    BY <1>1, <1>2
  <2> QED
    BY <2>1, Zenon DEF BookSell
<1> QED
  BY <1>2, <1>3, <1>4 DEF Execute

LEMMA ApplyingIs ==
  \A b, s : ApplyActions(b, s) =
    Applied(b, Chosen(world.actions, {k \in DOMAIN world.actions : world.actions[k].at = s}))
BY DEF ApplyActions, Applied, Sift

LEMMA ApplyingLater ==
  (\A b, s : ApplyActions(b, s) =
    Applied(b, Chosen(world.actions, {k \in DOMAIN world.actions : world.actions[k].at = s})))'
BY ApplyingIs, PTL

LEMMA FillingIs ==
  \A b, s : FillAll(b, s) = Looped("fill", b, s, Cardinality(DueOrders(b, s)))
BY LoopsAre

LEMMA FillingLater ==
  (\A b, s : FillAll(b, s) = Looped("fill", b, s, Cardinality(DueOrders(b, s))))'
BY FillingIs, PTL

\* The recursion of a fold over the intents.
Placings(iter, b, s, T) ==
  iter = [t \in SUBSET T |-> IF t = {} THEN b ELSE
            PlaceIntent(iter[t \ {CHOOSE x \in t : TRUE}], CHOOSE x \in t : TRUE, s)]

PlacedBy(b, s, T) == (CHOOSE iter : Placings(iter, b, s, T))[T]

LEMMA PlacingIs ==
  \A b, s : PlaceAll(b, s) = PlacedBy(b, s, Sealed(s))
BY DEF PlacedBy, PlaceAll, FoldSet, MapThenFoldSet, Sealed, Placings

LEMMA PlacingLater ==
  (\A b, s : PlaceAll(b, s) = PlacedBy(b, s, Sealed(s)))'
BY PlacingIs, PTL

\* What a cycle has come to when its decision is due.
UpToDecision(b, s) == FillAll(ApplyActions(SettleAll(b, s), s), s)

LEMMA CycleIs == ASSUME NEW b, NEW s PROVE Cycle(b, s) = PlaceAll(UpToDecision(b, s), s)
BY DEF Cycle, UpToDecision

LEMMA SameUpToDecision ==
  ASSUME world' = world
  PROVE  \A b, s : UpToDecision(b, s)' = UpToDecision(b, s)
<1>1. \A g, b, s, N : Turns(g, "fill", b, s, N)' <=> Turns(g, "fill", b, s, N)
  <2>1. \A b, n, s : Turn("fill", b, n, s)' = Turn("fill", b, n, s)
    BY SameFilling DEF Turn
  <2> QED
    BY <2>1 DEF Turns
<1>2. \A b, s, N : Looped("fill", b, s, N)' = Looped("fill", b, s, N)
  BY <1>1 DEF Looped
<1>3. \A b, s : FillAll(b, s)' = FillAll(b, s)
  BY <1>2, FillingIs, FillingLater
<1>4. \A b, t : ApplyActions(b, t)' = ApplyActions(b, t)
  BY ApplyingIs, ApplyingLater
<1> QED
  BY <1>3, <1>4 DEF UpToDecision

LEMMA SameCycle ==
  ASSUME world' = world, NEW s, bundles'[s] = bundles[s]
  PROVE  \A b : Cycle(b, s)' = Cycle(b, s)
<1>1. \A iter, b, T : Placings(iter, b, s, T)' <=> Placings(iter, b, s, T)
  BY SamePlacing DEF Placings
<1>2. Sealed(s)' = Sealed(s)
  BY DEF Sealed
<1>3. \A b, T : PlacedBy(b, s, T)' = PlacedBy(b, s, T)
  BY <1>1 DEF PlacedBy
<1>4. \A b : PlaceAll(b, s)' = PlaceAll(b, s)
  BY <1>2, <1>3, PlacingIs, PlacingLater
<1>5. \A b : UpToDecision(b, s)' = UpToDecision(b, s)
  BY SameUpToDecision
<1> QED
  BY <1>4, <1>5 DEF Cycle, UpToDecision

-----------------------------------------------------------------------------
(* What a session adds to a book, and what it leaves of earlier sessions. *)

Opening == Transaction("OPENING_BALANCE", 0, "initial virtual funding",
                       {Posting(Cash, CAPITAL), Posting(OpeningEquity, -CAPITAL)})

Dated(b, s) == \A i \in Instrument : Table!KnownBy(b.lots[i], s)

SameLedgerBefore(b, c, s) ==
  \A r \in Session : r < s => {t \in c.ledger : t.at <= r} = {t \in b.ledger : t.at <= r}

\* Rows of an earlier session stay what they were: what was placed is still placed,
\* what was answered is still answered, what is due is due later.
Grows(b, c, s) ==
  /\ b.orders \subseteq c.orders /\ \A order \in c.orders : order \in b.orders \/ order.due > s
  /\ b.fills \subseteq c.fills /\ \A fill \in c.fills : fill \in b.fills \/ fill.settles > s
  /\ b.settled \subseteq c.settled /\ b.rejections \subseteq c.rejections
  /\ b.claims \subseteq c.claims
  /\ \A i \in Instrument : SameDaysBefore(b, c, i, s)
  /\ b.ledger \subseteq c.ledger /\ SameLedgerBefore(b, c, s)
  /\ \A t \in c.ledger : t \in b.ledger \/ t = Opening \/ t.type # "OPENING_BALANCE"
  /\ Dated(c, s)

LEMMA GrowsOn ==
  ASSUME NEW b, NEW c, NEW d, NEW s, Grows(b, c, s), Grows(c, d, s)
  PROVE  Grows(b, d, s)
<1>1. \A i \in Instrument : SameDaysBefore(b, d, i, s)
  BY DEF Grows, SameDaysBefore
<1>2. SameLedgerBefore(b, d, s)
  BY DEF Grows, SameLedgerBefore
<1> QED
  BY <1>1, <1>2 DEF Grows

LEMMA GrowsNone == ASSUME NEW b, NEW s, Dated(b, s) PROVE Grows(b, b, s)
BY DEF Grows, SameDaysBefore, SameLedgerBefore

\* An entry of a session or a later one is none of those before.
LEMMA LedgerLater ==
  ASSUME NEW b, NEW c, NEW t, c.ledger = b.ledger \cup {t}, t.at \in Nat, NEW s \in Nat, t.at >= s
  PROVE  SameLedgerBefore(b, c, s)
<1> SUFFICES ASSUME NEW r \in Session, r < s
             PROVE  {x \in c.ledger : x.at <= r} = {x \in b.ledger : x.at <= r}
  BY DEF SameLedgerBefore
<1>1. r \in Nat
  BY RunAssumption DEF Session
<1>2. ~(t.at <= r)
  BY <1>1
<1> QED
  BY <1>2

LEMMA RejectGrows ==
  ASSUME NEW b, Sound(b), NEW s, Dated(b, s), NEW id, NEW reason
  PROVE  Grows(b, Reject(b, id, reason), s)
<1> DEFINE c == Reject(b, id, reason)
<1>1. /\ c.orders = b.orders /\ c.fills = b.fills /\ c.settled = b.settled /\ c.claims = b.claims
      /\ c.ledger = b.ledger /\ c.lots = b.lots /\ b.rejections \subseteq c.rejections
  BY DEF Reject, Sound, IsBook
<1> HIDE DEF c
<1>2. Grows(b, c, s)
  BY <1>1 DEF Grows, Dated, SameDaysBefore, SameLedgerBefore
<1> QED
  BY <1>2 DEF c

LEMMA RecordGrows ==
  ASSUME NEW b, Sound(b), NEW s, Dated(b, s), NEW order, order.due > s
  PROVE  Grows(b, RecordOrder(b, order), s)
<1> DEFINE c == RecordOrder(b, order)
<1>1. /\ c.fills = b.fills /\ c.settled = b.settled /\ c.claims = b.claims
      /\ c.ledger = b.ledger /\ c.lots = b.lots /\ c.rejections = b.rejections
      /\ c.orders = b.orders \/ c.orders = b.orders \cup {order}
  BY DEF RecordOrder, Sound, IsBook
<1> HIDE DEF c
<1>2. Grows(b, c, s)
  BY <1>1 DEF Grows, Dated, SameDaysBefore, SameLedgerBefore
<1> QED
  BY <1>2 DEF c

LEMMA SettleGrows ==
  ASSUME NEW b, Sound(b), NEW s \in Nat, Dated(b, s), NEW fill, fill.settles \in Nat, fill.settles >= s
  PROVE  /\ Grows(b, Settle(b, fill), s)
         /\ Settle(b, fill).settled = b.settled \cup {fill.order}
         /\ Settle(b, fill).fills = b.fills /\ Settle(b, fill).claims = b.claims
<1> DEFINE c == Settle(b, fill)
           bought == Transaction("BUY_SETTLEMENT", fill.settles, fill.order,
                       {Posting(Payable, fill.gross + fill.fee), Posting(Cash, -(fill.gross + fill.fee))})
           sold == Transaction("SELL_SETTLEMENT", fill.settles, fill.order,
                     {Posting(Cash, fill.gross - fill.fee), Posting(Receivable, fill.fee - fill.gross)})
           t == IF fill.side = "BUY" THEN bought ELSE sold
<1>1. /\ c.ledger = b.ledger \cup {t} /\ c.lots = b.lots /\ c.settled = b.settled \cup {fill.order}
      /\ c.orders = b.orders /\ c.fills = b.fills /\ c.rejections = b.rejections
      /\ c.claims = b.claims
  BY DEF Settle, Post, Sound, IsBook
<1>2. /\ bought.at = fill.settles /\ sold.at = fill.settles
      /\ bought.type = "BUY_SETTLEMENT" /\ sold.type = "SELL_SETTLEMENT"
  BY DEF Transaction
<1> HIDE DEF c, bought, sold
<1>3. t.at = fill.settles /\ t.type # "OPENING_BALANCE"
  BY <1>2
<1> HIDE DEF t
<1>4. SameLedgerBefore(b, c, s)
  BY <1>1, <1>3, LedgerLater
<1>5. Grows(b, c, s)
  BY <1>1, <1>3, <1>4 DEF Grows, Dated, SameDaysBefore
<1> QED
  BY <1>1, <1>5 DEF c

\* With settlement a session or more after the fill.
SettlesLater == \A i \in Instrument : SettleAfter[i] > 0

LEMMA FillGrows ==
  ASSUME SettlesLater, NEW b, Sound(b), NEW s \in Nat, Dated(b, s), NEW order, NEW c,
         NEW type, type # "OPENING_BALANCE", FillAdds(b, c, order, s, type)
  PROVE  Grows(b, c, s)
<1>1. PICK t, lot, fill :
        /\ c.ledger = b.ledger \cup {t} /\ t.type = type /\ t.at = s
        /\ c.lots = [b.lots EXCEPT ![order.instrument] = lot]
        /\ order.instrument \in Instrument /\ AddsRows(lot, b.lots[order.instrument], s)
        /\ c.fills = b.fills \cup {fill} /\ fill.settles = s + SettleAfter[order.instrument]
        /\ fill.order = OrderId(order)
        /\ c.settled = b.settled /\ c.claims = b.claims
        /\ c.orders = b.orders /\ c.rejections = b.rejections
  BY DEF FillAdds
<1>2. \A j \in Instrument : Table!KnownBy(c.lots[j], s) /\ SameDaysBefore(b, c, j, s)
  <2> DEFINE i == order.instrument
  <2>1. /\ i \in Instrument /\ AddsRows(lot, b.lots[i], s)
        /\ c.lots = [b.lots EXCEPT ![i] = lot]
    BY <1>1
  <2>2. \A j \in Instrument : Table!KnownBy(b.lots[j], s)
    BY DEF Dated
  <2> HIDE DEF i
  <2> QED
    BY <2>1, <2>2, OneLotLater
<1>3. fill.settles > s
  <2>1. SettleAfter[order.instrument] \in Nat /\ SettleAfter[order.instrument] > 0
    BY <1>1, PolicyAssumption DEF SettlesLater
  <2> QED
    BY <1>1, <2>1
<1>4. SameLedgerBefore(b, c, s)
  BY <1>1, LedgerLater
<1> QED
  BY <1>1, <1>2, <1>3, <1>4 DEF Grows, Dated

LEMMA ExecuteGrows ==
  ASSUME SettlesLater, world \in Worlds, NEW b, Sound(b), NEW s \in Session, Dated(b, s),
         NEW order \in b.orders
  PROVE  Grows(b, Execute(b, order, s), s) /\ Execute(b, order, s).claims = b.claims
         /\ Execute(b, order, s).settled = b.settled
<1>1. s \in Nat
  BY RunAssumption DEF Session
<1>2. FillAdds(b, BookBuy(b, order, s), order, s, "BUY_FILL")
  BY BuyAdds
<1>3. FillAdds(b, BookSell(b, order, s), order, s, "SELL_FILL")
  BY SellAdds
<1>4. Grows(b, BookBuy(b, order, s), s) /\ Grows(b, BookSell(b, order, s), s)
  BY <1>1, <1>2, <1>3, FillGrows
<1>5. /\ BookBuy(b, order, s).claims = b.claims /\ BookSell(b, order, s).claims = b.claims
      /\ BookBuy(b, order, s).settled = b.settled /\ BookSell(b, order, s).settled = b.settled
  BY <1>2, <1>3 DEF FillAdds
<1>6. ASSUME NEW id, NEW reason
      PROVE  /\ Grows(b, Reject(b, id, reason), s)
             /\ Reject(b, id, reason).claims = b.claims /\ Reject(b, id, reason).settled = b.settled
  BY RejectGrows DEF Reject, Sound, IsBook
<1> QED
  BY <1>4, <1>5, <1>6 DEF Execute

LEMMA ActionGrows ==
  ASSUME NEW b, Sound(b), NEW s \in Nat, Dated(b, s), NEW action \in Today(s)
  PROVE  Grows(b, ApplyAction(b, action), s)
<1> DEFINE held == quantity_of(b.lots[action.instrument], action.at)
           paid == PayDividend(b, action, held)
           split == SplitPosition(b, action)
<1>1. Grows(b, paid, s)
  <2>1. CASE action.amount * held = 0
    BY <2>1, GrowsNone DEF PayDividend
  <2>2. CASE action.amount * held # 0
    <3> DEFINE t == Transaction("CASH_DIVIDEND", action.at, <<action.ref, action.instrument>>,
                      {Posting(Cash, action.amount * held),
                       Posting(DividendIncome, -(action.amount * held))})
    <3>1. /\ paid.ledger = b.ledger \cup {t} /\ paid.lots = b.lots /\ paid.settled = b.settled
          /\ paid.orders = b.orders /\ paid.fills = b.fills /\ paid.rejections = b.rejections
          /\ b.claims \subseteq paid.claims
      BY <2>2 DEF PayDividend, Post, Sound, IsBook
    <3>2. t.at = s /\ t.type # "OPENING_BALANCE"
      BY DEF Transaction, Today
    <3> HIDE DEF paid, t
    <3>3. SameLedgerBefore(b, paid, s)
      BY <3>1, <3>2, LedgerLater
    <3> QED
      BY <3>1, <3>2, <3>3 DEF Grows, Dated, SameDaysBefore
  <2> QED
    BY <2>1, <2>2
<1>2. Grows(b, split, s)
  <2>1. /\ \A j \in Instrument : Table!KnownBy(split.lots[j], s) /\ SameDaysBefore(b, split, j, s)
        /\ split.ledger = b.ledger
    BY SplitLater DEF Dated
  <2>2. /\ split.settled = b.settled /\ split.orders = b.orders /\ split.fills = b.fills
        /\ split.rejections = b.rejections /\ b.claims \subseteq split.claims
    BY DEF SplitPosition, Sound, IsBook
  <2> HIDE DEF split
  <2> QED
    BY <2>1, <2>2 DEF Grows, Dated, SameLedgerBefore
<1>3. \/ ApplyAction(b, action) = b \/ ApplyAction(b, action) = paid
      \/ ApplyAction(b, action) = split
  BY DEF ApplyAction, ApplyUnclaimed
<1>4. Grows(b, b, s)
  BY GrowsNone
<1> HIDE DEF paid, split
<1> QED
  BY <1>1, <1>2, <1>3, <1>4

LEMMA ActionsGrow ==
  ASSUME world \in Worlds, NEW b, Sound(b), NEW s \in Session, Dated(b, s)
  PROVE  Grows(b, ApplyActions(b, s), s)
<1> DEFINE Fits(list) == Sound(Applied(b, list)) /\ Grows(b, Applied(b, list), s)
           P == {list \in Seq(Today(s)) : Fits(list)}
<1>1. << >> \in P
  <2>1. << >> \in Seq(Today(s))
    OBVIOUS
  <2> QED
    BY <2>1, NoAction, GrowsNone
<1>2. ASSUME NEW list \in Seq(Today(s)), NEW action \in Today(s), list \in P
      PROVE  Append(list, action) \in P
  <2> DEFINE c == Applied(b, list)
             d == ApplyAction(c, action)
  <2>1. Append(list, action) \in Seq(Today(s))
    OBVIOUS
  <2>2. Applied(b, Append(list, action)) = d
    <3> HIDE DEF P, Fits
    <3> QED
      BY OneMoreAction
  <2>3. Sound(c) /\ Grows(b, c, s)
    BY <1>2
  <2>4. s \in Nat /\ action \in Action /\ action.at <= LAST
    BY RunAssumption DEF Today, Session
  <2> HIDE DEF c, P, Fits
  <2>5. Sound(d) /\ Grows(c, d, s)
    BY <2>3, <2>4, ActionSound, ActionGrows DEF Grows
  <2>6. Grows(b, d, s)
    BY <2>3, <2>5, GrowsOn
  <2> HIDE DEF d
  <2> QED
    BY <2>1, <2>2, <2>5, <2>6 DEF P, Fits
<1> HIDE DEF P
<1>3. \A list \in Seq(Today(s)) : list \in P
  BY <1>1, <1>2, ListInduct
<1> QED
  BY <1>3, DueIs DEF P

\* Once all the actions of a session are claimed, applying them again does nothing.
ClaimedAll(b, s) == \A action \in Actions : action.at = s => action.ref \in b.claims

LEMMA DueAmong ==
  ASSUME world \in Worlds, NEW s \in Session
  PROVE  LET due == Sift(world.actions, LAMBDA action : action.at = s)
         IN  \A n \in DOMAIN due : due[n] \in Actions
<1> DEFINE actions == world.actions
           Now == {k \in DOMAIN actions : actions[k].at = s}
           list == Chosen(actions, Now)
           N == Cardinality(Now)
<1>1. Sift(world.actions, LAMBDA action : action.at = s) = list
  BY DEF Sift
<1>2. actions \in Seq(Action)
  BY WorldsAssumption
<1>3. Now \in SUBSET DOMAIN actions
  OBVIOUS
<1>4. \A k \in DOMAIN actions : actions[k] \in Actions
  BY DEF Actions, ToSet
<1>5. \A n \in DOMAIN list : list[n] \in Actions
  <2> HIDE DEF actions, Now
  <2>1. /\ DOMAIN list = 1..N
        /\ \A n \in 1..N : Nth(Now, n) \in Now /\ list[n] = actions[Nth(Now, n)]
    BY <1>2, <1>3, ChosenIs
  <2> HIDE DEF list, N
  <2> QED
    BY <1>3, <1>4, <2>1
<1> QED
  BY <1>1, <1>5

LEMMA NothingToApply ==
  ASSUME world \in Worlds, NEW b, NEW s \in Session, ClaimedAll(b, s)
  PROVE  ApplyActions(b, s) = b
<1> DEFINE Due == {action \in Today(s) : action.ref \in b.claims}
           all == Sift(world.actions, LAMBDA action : action.at = s)
           P == {list \in Seq(Due) : Applied(b, list) = b}
<1>1. << >> \in P
  <2>1. << >> \in Seq(Due)
    OBVIOUS
  <2> QED
    BY <2>1, NoAction
<1>2. ASSUME NEW list \in Seq(Due), NEW action \in Due, list \in P
      PROVE  Append(list, action) \in P
  <2>1. Append(list, action) \in Seq(Due)
    OBVIOUS
  <2>2. Applied(b, Append(list, action)) = ApplyAction(Applied(b, list), action)
    <3> HIDE DEF P, Due
    <3> QED
      BY OneMoreAction
  <2>3. Applied(b, list) = b
    BY <1>2
  <2>4. ApplyAction(b, action) = b
    BY DEF ApplyAction
  <2> HIDE DEF Due
  <2> QED
    BY <2>1, <2>2, <2>3, <2>4
<1> HIDE DEF P
<1>3. \A list \in Seq(Due) : list \in P
  <2> HIDE DEF Due
  <2> QED
    BY <1>1, <1>2, ListInduct
<1>4. all \in Seq(Due)
  <2>1. all \in Seq(Today(s))
    BY DueIs
  <2>2. \A n \in DOMAIN all : all[n] \in Actions
    BY DueAmong
  <2> HIDE DEF all
  <2>3. \A n \in DOMAIN all : all[n] \in Due
    BY <2>1, <2>2 DEF ClaimedAll, Today
  <2> QED
    BY <2>1, <2>3
<1>5. ApplyActions(b, s) = Applied(b, all)
  BY DueIs
<1> HIDE DEF all
<1> QED
  BY <1>3, <1>4, <1>5 DEF P

-----------------------------------------------------------------------------
(* A session that is over stays so. *)

LEMMA SizedBefore ==
  ASSUME NEW b, NEW c, NEW s \in Session, NEW r \in Nat, s < r, Grows(b, c, r),
         NEW intent \in Pairs
  PROVE  /\ NewOrder(c, intent, s) = NewOrder(b, intent, s)
         /\ IsShort(c, s, intent) <=> IsShort(b, s, intent)
<1>1. s \in Int
  BY RunAssumption DEF Session
<1>2. /\ {t \in c.ledger : t.at <= s} = {t \in b.ledger : t.at <= s}
      /\ \A i \in Instrument : quantity_of(c.lots[i], s) = quantity_of(b.lots[i], s)
  BY <1>1 DEF Grows, SameLedgerBefore, SameDaysBefore
<1>3. \A account : Balance(c, account, s) = Balance(b, account, s)
  BY <1>2 DEF Balance
<1>4. [i \in Instrument |-> quantity_of(c.lots[i], s) * Mid(i, s)]
        = [i \in Instrument |-> quantity_of(b.lots[i], s) * Mid(i, s)]
  BY <1>2
<1>5. Equity(c, s) = Equity(b, s) /\ Available(c, s) = Available(b, s)
  BY <1>3, <1>4 DEF Equity, Available
<1>6. \A i : BuyQuantity(c, i, s) = BuyQuantity(b, i, s)
  BY <1>5 DEF BuyQuantity
<1>7. Size(c, intent[1], intent[2], s) = Size(b, intent[1], intent[2], s)
  BY <1>2, <1>6 DEF Size, Pairs
<1> QED
  BY <1>7 DEF NewOrder, IsShort

Over(b, s, intents) ==
  /\ DueFills(b, s) = {} /\ ClaimedAll(b, s) /\ DueOrders(b, s) = {}
  /\ \A intent \in intents : IsEnded(b, s, intent)

LEMMA EndedStays ==
  ASSUME NEW b, NEW c, NEW s \in Session, NEW r \in Nat, s < r, Grows(b, c, r),
         NEW intent \in Pairs, IsEnded(b, s, intent)
  PROVE  IsEnded(c, s, intent)
<1>1. IsShort(c, s, intent) <=> IsShort(b, s, intent)
  BY SizedBefore
<1>2. b.orders \subseteq c.orders /\ b.rejections \subseteq c.rejections
  BY DEF Grows
<1> QED
  BY <1>1, <1>2 DEF IsEnded, IsPlaced, Rejected

LEMMA OverStays ==
  ASSUME NEW b, NEW c, Sound(c), NEW s \in Session, NEW r \in Nat, s < r, Grows(b, c, r),
         NEW intents \in SUBSET Pairs, Over(b, s, intents)
  PROVE  Over(c, s, intents)
<1>1. s \in Nat
  BY RunAssumption DEF Session
<1>2. /\ b.orders \subseteq c.orders /\ b.fills \subseteq c.fills
      /\ b.rejections \subseteq c.rejections /\ b.settled \subseteq c.settled
      /\ b.claims \subseteq c.claims
  BY DEF Grows
<1>3. DueFills(c, s) = {}
  <2> SUFFICES ASSUME NEW fill \in DueFills(c, s) PROVE FALSE
    OBVIOUS
  <2>1. fill \in c.fills /\ fill.settles <= s /\ fill.order \notin c.settled
    BY DEF DueFills
  <2>2. fill.settles \in Nat
    BY <2>1 DEF Sound, FillsFit, FilledRow
  <2>3. fill \in b.fills
    BY <1>1, <2>1, <2>2 DEF Grows
  <2> QED
    BY <1>2, <2>1, <2>3 DEF Over, DueFills
<1>4. DueOrders(c, s) = {}
  <2> SUFFICES ASSUME NEW order \in DueOrders(c, s) PROVE FALSE
    OBVIOUS
  <2>1. /\ order \in c.orders /\ order.due <= s
        /\ ~Filled(c, OrderId(order)) /\ ~Rejected(c, OrderId(order))
    BY DEF DueOrders
  <2>2. order.due \in Nat
    BY <2>1 DEF Sound, OrdersFit, Order
  <2>3. order \in b.orders
    BY <1>1, <2>1, <2>2 DEF Grows
  <2>4. ~Filled(b, OrderId(order)) /\ ~Rejected(b, OrderId(order))
    BY <1>2, <2>1 DEF Filled, Rejected
  <2> QED
    BY <2>1, <2>3, <2>4 DEF Over, DueOrders
<1>5. ClaimedAll(c, s)
  BY <1>2 DEF Over, ClaimedAll
<1>6. \A intent \in intents : IsEnded(c, s, intent)
  BY EndedStays DEF Over
<1> QED
  BY <1>3, <1>4, <1>5, <1>6 DEF Over

LEMMA SameOver ==
  ASSUME world' = world
  PROVE  /\ \A b, s, intents : Over(b, s, intents)' <=> Over(b, s, intents)
         /\ \A b, s : ClaimedAll(b, s)' <=> ClaimedAll(b, s)
<1>1. \A b, s, intent : IsEnded(b, s, intent)' <=> IsEnded(b, s, intent)
  BY SameSizing DEF IsEnded
<1>2. \A b, s : ClaimedAll(b, s)' <=> ClaimedAll(b, s)
  BY DEF ClaimedAll, Actions
<1> QED
  BY <1>1, <1>2 DEF Over

-----------------------------------------------------------------------------
(* One turn of a loop takes one row from what is due. *)

LEMMA SettlesOne ==
  ASSUME NEW b, Sound(b), NEW s \in Session, DueFills(b, s) # {},
         NEW c, c = Settle(b, NextFill(b, s))
  PROVE  SettleAll(b, s) = SettleAll(c, s)
<1> DEFINE fill == NextFill(b, s)
<1>1. fill \in DueFills(b, s)
  BY DEF NextFill
<1> HIDE DEF fill
<1>2. /\ c.fills = b.fills /\ c.settled = b.settled \cup {fill.order}
  BY DEF Settle, Post, Sound, IsBook, fill
<1>3. DueFills(c, s) = DueFills(b, s) \ {fill}
  <2>1. \A x \in DueFills(b, s) : x.order = fill.order => x = fill
    BY <1>1 DEF DueFills, Sound, FillsFit
  <2> QED
    BY <1>2, <2>1 DEF DueFills
<1>4. IsFiniteSet(DueFills(b, s))
  <2>1. DueFills(b, s) \subseteq b.fills /\ IsFiniteSet(b.fills)
    BY DEF DueFills, Sound, FillsFit
  <2> QED
    BY <2>1, FS_Subset
<1>5. Cardinality(DueFills(b, s)) \in Nat /\ Cardinality(DueFills(b, s)) # 0
  BY <1>1, <1>4, FS_CardinalityType, FS_EmptySet
<1>6. Cardinality(DueFills(c, s)) = Cardinality(DueFills(b, s)) - 1
  BY <1>1, <1>3, <1>4, FS_RemoveElement
<1> DEFINE N == Cardinality(DueFills(c, s))
<1>7. N \in Nat /\ Cardinality(DueFills(b, s)) = N + 1
  BY <1>5, <1>6
<1> QED
  BY <1>7, SettleFirst

OrdersOnce(b) ==
  /\ IsFiniteSet(b.orders)
  /\ \A order, other \in b.orders : OrderId(order) = OrderId(other) => order = other

LEMMA FillsOne ==
  ASSUME world \in Worlds, NEW b, Sound(b), OrdersOnce(b), NEW s \in Session,
         NEW order, order = FirstDue(DueOrders(b, s)), order \in DueOrders(b, s),
         NEW c, c = Execute(b, order, s)
  PROVE  FillAll(b, s) = FillAll(c, s)
<1> DEFINE id == OrderId(order)
<1>1. order \in b.orders /\ ~Filled(b, id) /\ ~Rejected(b, id)
  BY DEF DueOrders
<1>2. /\ c.orders = b.orders
      /\ \/ /\ c.rejections = b.rejections
            /\ \E row : row.order = id /\ c.fills = b.fills \cup {row}
         \/ /\ c.fills = b.fills
            /\ \E row : row.order = id /\ c.rejections = b.rejections \cup {row}
  BY <1>1, ExecuteSound
<1>3. \A x : Filled(c, x) \/ Rejected(c, x) <=> Filled(b, x) \/ Rejected(b, x) \/ x = id
  <2> HIDE DEF id
  <2> QED
    BY <1>2 DEF Filled, Rejected
<1>4. \A x \in b.orders : OrderId(x) = id => x = order
  BY <1>1 DEF OrdersOnce
<1>5. DueOrders(c, s) = DueOrders(b, s) \ {order}
  <2> HIDE DEF id
  <2>1. OrderId(order) = id
    BY DEF id
  <2>2. ASSUME NEW x PROVE x \in DueOrders(c, s) <=> x \in DueOrders(b, s) \ {order}
    BY <1>2, <1>3, <1>4, <2>1 DEF DueOrders
  <2> QED
    BY <2>2
<1>6. IsFiniteSet(DueOrders(b, s))
  <2>1. DueOrders(b, s) \subseteq b.orders /\ IsFiniteSet(b.orders)
    BY DEF DueOrders, OrdersOnce
  <2> QED
    BY <2>1, FS_Subset
<1>7. Cardinality(DueOrders(b, s)) \in Nat /\ Cardinality(DueOrders(b, s)) # 0
  BY <1>6, FS_CardinalityType, FS_EmptySet
<1>8. Cardinality(DueOrders(c, s)) = Cardinality(DueOrders(b, s)) - 1
  BY <1>5, <1>6, FS_RemoveElement
<1> DEFINE N == Cardinality(DueOrders(c, s))
<1>9. N \in Nat /\ Cardinality(DueOrders(b, s)) = N + 1
  BY <1>7, <1>8
<1> QED
  BY <1>9, FillFirst

\* What is filled today is not due to settle today.
LEMMA StillSettled ==
  ASSUME NEW b, NEW c, Sound(c), NEW s \in Session, Grows(b, c, s), DueFills(b, s) = {}
  PROVE  DueFills(c, s) = {}
<1> SUFFICES ASSUME NEW fill \in DueFills(c, s) PROVE FALSE
  OBVIOUS
<1>1. fill \in c.fills /\ fill.settles <= s /\ fill.order \notin c.settled
  BY DEF DueFills
<1>2. fill.settles \in Nat /\ s \in Nat
  BY <1>1, RunAssumption DEF Sound, FillsFit, FilledRow, Session
<1>3. fill \in b.fills /\ fill.order \notin b.settled
  BY <1>1, <1>2 DEF Grows
<1> QED
  BY <1>1, <1>3 DEF DueFills

LEMMA StillClaimed ==
  ASSUME NEW b, NEW c, NEW s, NEW r, Grows(b, c, r), ClaimedAll(b, s)
  PROVE  ClaimedAll(c, s)
BY DEF Grows, ClaimedAll

-----------------------------------------------------------------------------
(* Funding. *)

Funded(b) == Fund(b) = b

LEMMA FundIs ==
  ASSUME NEW b, Sound(b)
  PROVE  /\ Fund(b).ledger = b.ledger \cup {Opening}
         /\ Funded(b) <=> Opening \in b.ledger
         /\ Funded(Fund(b))
<1> DEFINE t == Opening
<1>1. \A c : Fund(c) = [c EXCEPT !.ledger = @ \cup {t}]
  BY DEF Fund, Post, Opening
<1> HIDE DEF t
<1>2. Fund(b).ledger = b.ledger \cup {t}
  BY <1>1 DEF Sound, IsBook
<1>3. Funded(b) => t \in b.ledger
  BY <1>2 DEF Funded
<1>4. ASSUME NEW c, IsBook(c), t \in c.ledger PROVE Funded(c)
  <2>1. c.ledger \cup {t} = c.ledger
    BY <1>4
  <2>2. Fund(c) = [orders |-> c.orders, fills |-> c.fills, settled |-> c.settled,
                   rejections |-> c.rejections, ledger |-> c.ledger, claims |-> c.claims,
                   lots |-> c.lots]
    BY <1>1, <1>4, <2>1 DEF IsBook
  <2> QED
    BY <1>4, <2>2 DEF Funded, IsBook
<1>5. Sound(Fund(b)) /\ t \in Fund(b).ledger
  BY <1>2, FundSound
<1>6. Funded(Fund(b))
  BY <1>4, <1>5 DEF Sound
<1> QED
  BY <1>2, <1>3, <1>4, <1>6 DEF Sound, t

LEMMA StillFunded ==
  ASSUME NEW b, Sound(b), NEW c, Sound(c), NEW s, Grows(b, c, s), Funded(b)
  PROVE  Funded(c)
<1>1. Opening \in c.ledger
  BY FundIs DEF Grows
<1> QED
  BY <1>1, FundIs

LEMMA FundGrows ==
  ASSUME NEW b, Sound(b), Dated(b, 0)
  PROVE  Grows(b, Fund(b), 0)
<1> DEFINE c == Fund(b)
<1>1. /\ c.ledger = b.ledger \cup {Opening} /\ c.lots = b.lots /\ c.settled = b.settled
      /\ c.orders = b.orders /\ c.fills = b.fills /\ c.rejections = b.rejections
      /\ c.claims = b.claims
  BY DEF Fund, Post, Sound, IsBook, Opening
<1>2. Opening.at = 0
  BY DEF Opening, Transaction
<1> HIDE DEF c
<1>3. SameLedgerBefore(b, c, 0)
  BY <1>1, <1>2, LedgerLater
<1>4. Grows(b, c, 0)
  BY <1>1, <1>3 DEF Grows, Dated, SameDaysBefore
<1> QED
  BY <1>4 DEF c

-----------------------------------------------------------------------------
(* A run that is started again. *)

\* Where the session the process is at has come to, and that every session before the
\* furthest one is over.
At(b, sealed, s, p, t, sh) ==
  /\ p \in {"actions", "fill", "decide", "place", "done", "over"} => DueFills(b, s) = {}
  /\ p \in {"fill", "decide", "place", "done", "over"} => ClaimedAll(b, s)
  /\ p \in {"decide", "place", "done", "over"} => DueOrders(b, s) = {}
  /\ p \in {"place", "done", "over"} =>
       /\ sealed # NotSealed /\ t \subseteq sealed
       /\ \A intent \in sealed \ t :
            /\ IsPlaced(b, s, intent)
            /\ IsShort(b, s, intent) =>
                 \/ Rejected(b, IntentId(s, intent))
                 \/ sh # NoShortfall /\ sh[1] = IntentId(s, intent)
  /\ sh # NoShortfall =>
       /\ p = "place"
       /\ \E intent \in sealed : /\ sh = <<IntentId(s, intent), Shortfall(b, intent[2], s)>>
                                 /\ IsShort(b, s, intent)
  /\ p \in {"done", "over"} => t = {} /\ sh = NoShortfall

Stage == At(book, bundles[session], session, phase, todo, short)

Passed ==
  \A s \in Session : s < reached => bundles[s] # NotSealed /\ Over(book, s, bundles[s])

\* However far the furthest session has come, finishing it leaves what an
\* uninterrupted run leaves.
Same == Cycle(Fund(book), reached) = Rebuilt(reached)

Resumed ==
  /\ OrdersOnce(book) /\ Dated(book, reached)
  /\ Funded(book) \/ (phase = "fund" /\ reached = 0)
  /\ Passed /\ Stage /\ Same

\* The hypothesis on corporate actions: each one falls on a position that is held, so
\* that its row is there once it has been applied.
EveryActionApplies == phase = "fill" => ClaimedAll(book, session)

LEMMA ShapeIs ==
  ASSUME Shape
  PROVE  /\ session \in Session /\ session \in Nat /\ reached \in Session /\ reached \in Nat
         /\ session <= reached /\ reached <= LAST /\ LAST \in Nat
         /\ Sound(book) /\ world \in Worlds
BY RunAssumption DEF Shape, Session

LEMMA SealedIs ==
  ASSUME Shape, NEW s \in Session
  PROVE  /\ IsFiniteSet(Sealed(s)) /\ Sealed(s) \subseteq Pairs
         /\ bundles[s] # NotSealed => bundles[s] = Sealed(s)
<1>1. Sealed(s) \subseteq Pairs /\ (bundles[s] # NotSealed => bundles[s] = Sealed(s))
  <2>1. bundles[s] \in Decisions \cup {NotSealed}
    BY DEF Shape
  <2> QED
    BY <2>1, RunAssumption DEF Sealed, Pairs, Side
<1>2. IsFiniteSet(Pairs)
  <2>1. IsFiniteSet(Instrument)
    BY PolicyAssumption
  <2>2. IsFiniteSet(Side)
    <3>1. IsFiniteSet({"BUY"})
      BY FS_Singleton
    <3>2. IsFiniteSet({"BUY"} \cup {"SELL"})
      BY <3>1, FS_AddElement
    <3>3. Side = {"BUY"} \cup {"SELL"}
      BY DEF Side
    <3> QED
      BY <3>2, <3>3
  <2> QED
    BY <2>1, <2>2, FS_Product DEF Pairs
<1>3. IsFiniteSet(Sealed(s))
  BY <1>1, <1>2, FS_Subset
<1> QED
  BY <1>1, <1>3

\* Before the furthest session there is nothing to settle, fill, apply or place.
LEMMA EarlierIsOver ==
  ASSUME Shape, Passed, session < reached
  PROVE  /\ DueFills(book, session) = {} /\ DueOrders(book, session) = {}
         /\ ClaimedAll(book, session) /\ bundles[session] # NotSealed
         /\ \A intent \in bundles[session] : IsEnded(book, session, intent)
BY ShapeIs DEF Passed, Over

LEMMA FundStep ==
  ASSUME Shape, Resumed, FundBook
  PROVE  Grows(book, book', reached) /\ (session < reached => book' = book)
<1>1. book' = Fund(book)
  BY DEF FundBook
<1>2. CASE Funded(book)
  BY <1>1, <1>2, GrowsNone DEF Funded, Resumed
<1>3. CASE reached = 0
  BY <1>1, <1>3, FundGrows, ShapeIs DEF Resumed
<1> QED
  BY <1>2, <1>3 DEF Resumed

LEMMA SettleStep ==
  ASSUME Shape, Resumed, SettleOne
  PROVE  session = reached /\ Grows(book, book', reached)
<1> DEFINE fill == NextFill(book, session)
<1>1. book' = Settle(book, fill) /\ fill \in DueFills(book, session)
  BY DEF SettleOne, NextFill
<1>2. session = reached
  BY <1>1, EarlierIsOver, ShapeIs DEF Resumed
<1> HIDE DEF fill
<1>3. fill \in book.fills /\ fill.settles <= session /\ fill.order \notin book.settled
  BY <1>1 DEF DueFills
<1>4. fill.settles \in Nat
  BY <1>3, ShapeIs DEF Sound, FillsFit, FilledRow
<1>5. fill.settles >= reached
  <2>1. SUFFICES ASSUME fill.settles < reached PROVE FALSE
    BY <1>4, ShapeIs
  <2>2. fill.settles \in Session
    BY <1>4, <2>1, ShapeIs DEF Session
  <2>3. DueFills(book, fill.settles) = {}
    BY <2>1, <2>2 DEF Resumed, Passed, Over
  <2>4. fill \in DueFills(book, fill.settles)
    BY <1>3, <1>4 DEF DueFills
  <2> QED
    BY <2>3, <2>4
<1>6. Sound(book) /\ Dated(book, reached) /\ reached \in Nat
  BY ShapeIs DEF Resumed
<1> QED
  BY <1>1, <1>2, <1>4, <1>5, <1>6, SettleGrows

LEMMA ActionsStep ==
  ASSUME Shape, Resumed, ApplyCorporateActions
  PROVE  Grows(book, book', reached) /\ (session < reached => book' = book)
<1>1. book' = ApplyActions(book, session)
  BY DEF ApplyCorporateActions
<1>2. CASE session < reached
  <2>1. book' = book
    BY <1>1, <1>2, EarlierIsOver, NothingToApply, ShapeIs DEF Resumed
  <2> QED
    BY <2>1, GrowsNone DEF Resumed
<1>3. CASE session = reached
  BY <1>1, <1>3, ActionsGrow, ShapeIs DEF Resumed
<1> QED
  BY <1>2, <1>3, ShapeIs

LEMMA FillStep ==
  ASSUME SettlesLater, Shape, Resumed, FillOne
  PROVE  /\ session = reached /\ Grows(book, book', reached)
         /\ book'.claims = book.claims /\ book'.orders = book.orders
<1>1. /\ book' = Execute(book, NextOrder, session) /\ DueOrders(book, session) # {}
  BY DEF FillOne
<1>2. session = reached
  BY <1>1, EarlierIsOver, ShapeIs DEF Resumed
<1>3. /\ NextOrder \in book.orders /\ ~Filled(book, OrderId(NextOrder))
      /\ ~Rejected(book, OrderId(NextOrder))
  BY <1>1, NextOrderIs
<1> QED
  BY <1>1, <1>2, <1>3, ExecuteGrows, ExecuteSound, ShapeIs DEF Resumed

LEMMA PlaceStep ==
  ASSUME Shape, Resumed, PlaceOne
  PROVE  Grows(book, book', reached) /\ (session < reached => book' = book)
<1>1. PICK intent \in todo : book' = RecordOrder(book, NewOrder(book, intent, session))
  BY DEF PlaceOne
<1>2. CASE session < reached
  <2>1. intent \in bundles[session]
    BY DEF PlaceOne, Resumed, Stage, At
  <2>2. IsPlaced(book, session, intent)
    BY <1>2, <2>1, EarlierIsOver DEF Resumed, IsEnded
  <2>3. OrderId(NewOrder(book, intent, session)) = IntentId(session, intent)
    BY NewOrderIs
  <2>4. book' = book
    BY <1>1, <2>2, <2>3 DEF RecordOrder, IsPlaced
  <2> QED
    BY <2>4, GrowsNone DEF Resumed
<1>3. CASE session = reached
  <2>1. NewOrder(book, intent, session).due > session
    BY PlacedIs
  <2> QED
    BY <1>1, <1>3, <2>1, RecordGrows, ShapeIs DEF Resumed
<1> QED
  BY <1>2, <1>3, ShapeIs

LEMMA RejectStep ==
  ASSUME Shape, Resumed, RejectShort
  PROVE  Grows(book, book', reached) /\ (session < reached => book' = book)
<1>1. book' = Reject(book, short[1], short[2]) /\ short # NoShortfall
  BY DEF RejectShort
<1>2. CASE session < reached
  <2>1. PICK intent \in bundles[session] :
          /\ short = <<IntentId(session, intent), Shortfall(book, intent[2], session)>>
          /\ IsShort(book, session, intent)
    BY <1>1 DEF Resumed, Stage, At
  <2>2. Rejected(book, IntentId(session, intent))
    BY <1>2, <2>1, EarlierIsOver DEF Resumed, IsEnded
  <2>3. book' = book
    BY <1>1, <2>1, <2>2 DEF Reject
  <2> QED
    BY <2>3, GrowsNone DEF Resumed
<1>3. CASE session = reached
  BY <1>1, <1>3, RejectGrows, ShapeIs DEF Resumed
<1> QED
  BY <1>2, <1>3, ShapeIs

\* What any step does to the book: nothing in a session that is over, and in the
\* furthest one it adds rows of that session.
LEMMA BookStep ==
  ASSUME SettlesLater, Shape, Resumed, [Next]_vars
  PROVE  /\ Grows(book, book', reached)
         /\ session < reached => book' = book
<1>1. CASE book' = book
  BY <1>1, GrowsNone DEF Resumed
<1>2. CASE book' # book
  <2>1. FundBook \/ SettleOne \/ ApplyCorporateActions \/ FillOne \/ PlaceOne \/ RejectShort
    BY <1>2 DEF Next, Step, SettledAll, RaiseOverClose, FilledAll, Decide, LoadSealed,
                DecideMissing, PlacedAll, NextSession, Finish, RunAgain, vars
  <2>2. SettleOne \/ FillOne => Grows(book, book', reached) /\ ~(session < reached)
    BY SettleStep, FillStep, ShapeIs
  <2> QED
    BY <2>1, <2>2, FundStep, ActionsStep, PlaceStep, RejectStep
<1> QED
  BY <1>1, <1>2

LEMMA SealStep ==
  ASSUME Shape, [Next]_vars
  PROVE  /\ world' = world
         /\ \A s \in Session : bundles[s] # NotSealed => bundles'[s] = bundles[s]
         /\ ~Decide => bundles' = bundles
<1>1. world' = world
  BY DEF Next, Step, FundBook, SettleOne, SettledAll, ApplyCorporateActions, FillOne,
         RaiseOverClose, FilledAll, Decide, LoadSealed, DecideMissing, PlaceOne,
         RejectShort, PlacedAll, NextSession, Finish, RunAgain, vars
<1>2. ~Decide => bundles' = bundles
  BY DEF Next, Step, FundBook, SettleOne, SettledAll, ApplyCorporateActions, FillOne,
         RaiseOverClose, FilledAll, LoadSealed, DecideMissing, PlaceOne,
         RejectShort, PlacedAll, NextSession, Finish, RunAgain, vars
<1>3. ASSUME Decide, NEW s \in Session, bundles[s] # NotSealed PROVE bundles'[s] = bundles[s]
  <2>1. bundles[session] = NotSealed
    BY <1>3 DEF Decide
  <2>2. PICK intents : bundles' = [bundles EXCEPT ![session] = intents]
    BY <1>3 DEF Decide
  <2> QED
    BY <1>3, <2>1, <2>2 DEF Shape
<1> QED
  BY <1>1, <1>2, <1>3

LEMMA OrdersStep ==
  ASSUME SettlesLater, Shape, Resumed, [Next]_vars
  PROVE  OrdersOnce(book')
<1>0. OrdersOnce(book) /\ Sound(book)
  BY ShapeIs DEF Resumed
<1>1. CASE book'.orders = book.orders
  BY <1>0, <1>1 DEF OrdersOnce
<1>2. CASE PlaceOne
  <2>1. PICK intent \in todo : book' = RecordOrder(book, NewOrder(book, intent, session))
    BY <1>2 DEF PlaceOne
  <2> DEFINE order == NewOrder(book, intent, session)
  <2>2. order \in Order /\ order.due > order.decided
    BY PlacedIs
  <2> HIDE DEF order
  <2>3. book'.orders = IF \E placed \in book.orders : OrderId(placed) = OrderId(order)
                       THEN book.orders ELSE book.orders \cup {order}
    BY <1>0, <2>1, <2>2, RecordOrderSound DEF order
  <2>4. CASE \E placed \in book.orders : OrderId(placed) = OrderId(order)
    BY <1>1, <2>3, <2>4
  <2>5. CASE ~ \E placed \in book.orders : OrderId(placed) = OrderId(order)
    <3>1. book'.orders = book.orders \cup {order}
      BY <2>3, <2>5
    <3>2. IsFiniteSet(book'.orders)
      BY <1>0, <3>1, FS_AddElement DEF OrdersOnce
    <3>3. \A x, y \in book'.orders : OrderId(x) = OrderId(y) => x = y
      BY <1>0, <2>5, <3>1 DEF OrdersOnce
    <3> QED
      BY <3>2, <3>3 DEF OrdersOnce
  <2> QED
    BY <2>4, <2>5
<1>3. CASE book' # book /\ ~PlaceOne
  <2>1. FundBook \/ SettleOne \/ ApplyCorporateActions \/ FillOne \/ RejectShort
    BY <1>3 DEF Next, Step, SettledAll, RaiseOverClose, FilledAll, Decide, LoadSealed,
                DecideMissing, PlacedAll, NextSession, Finish, RunAgain, vars
  <2>2. FundBook => book'.orders = book.orders
    BY <1>0 DEF FundBook, Fund, Post, Sound, IsBook
  <2>3. SettleOne => book'.orders = book.orders
    BY <1>0 DEF SettleOne, Settle, Post, Sound, IsBook
  <2>4. ApplyCorporateActions => book'.orders = book.orders
    BY ActionsSound, ShapeIs DEF ApplyCorporateActions, SameOrders
  <2>5. FillOne => book'.orders = book.orders
    BY FillStep
  <2>6. RejectShort => book'.orders = book.orders
    BY <1>0 DEF RejectShort, Reject, Sound, IsBook
  <2> QED
    BY <1>1, <2>1, <2>2, <2>3, <2>4, <2>5, <2>6
<1> QED
  BY <1>1, <1>2, <1>3

LEMMA FundedStep ==
  ASSUME SettlesLater, Shape, Resumed, [Next]_vars
  PROVE  Funded(book') \/ (phase' = "fund" /\ reached' = 0)
<1>1. Sound(book) /\ Sound(book')
  BY ShapeNext DEF Shape
<1>2. CASE Funded(book)
  <2>1. Grows(book, book', reached)
    BY BookStep
  <2> QED
    BY <1>1, <1>2, <2>1, StillFunded
<1>3. CASE phase = "fund" /\ reached = 0
  <2>1. FundBook \/ (phase' = "fund" /\ reached' = 0)
    BY <1>3 DEF Next, Step, SettleOne, SettledAll, ApplyCorporateActions, FillOne,
         RaiseOverClose, FilledAll, Decide, LoadSealed, DecideMissing, PlaceOne,
         RejectShort, PlacedAll, NextSession, Finish, RunAgain, vars, Resumed, Stage, At
  <2>2. FundBook => Funded(book')
    BY <1>1, FundIs DEF FundBook
  <2> QED
    BY <2>1, <2>2
<1> QED
  BY <1>2, <1>3 DEF Resumed

\* The session that is over when the next one begins.
LEMMA DoneIsOver ==
  ASSUME Shape, Stage, phase \in {"done", "over"}
  PROVE  bundles[session] # NotSealed /\ Over(book, session, bundles[session])
BY DEF Stage, At, Over, IsEnded

LEMMA ReachedStep ==
  ASSUME Shape, [Next]_vars
  PROVE  \/ reached' = reached /\ ~(NextSession /\ session = reached)
         \/ NextSession /\ session = reached /\ reached' = reached + 1 /\ session' = reached + 1
<1>1. CASE NextSession
  BY <1>1, ShapeIs DEF NextSession, Most
<1>2. CASE ~NextSession
  BY <1>2 DEF Next, Step, FundBook, SettleOne, SettledAll, ApplyCorporateActions, FillOne,
         RaiseOverClose, FilledAll, Decide, LoadSealed, DecideMissing, PlaceOne,
         RejectShort, PlacedAll, Finish, RunAgain, vars
<1> QED
  BY <1>1, <1>2

LEMMA DatedStep ==
  ASSUME SettlesLater, Shape, Resumed, [Next]_vars
  PROVE  Dated(book', reached')
<1>1. Dated(book', reached) /\ Sound(book') /\ reached \in Nat
  BY BookStep, ShapeNext, ShapeIs DEF Grows, Shape
<1>2. Dated(book', reached + 1)
  BY <1>1, KnownLater DEF Dated
<1> QED
  BY <1>1, <1>2, ReachedStep

LEMMA PassedStep ==
  ASSUME SettlesLater, Shape, Resumed, [Next]_vars, NEW s \in Session, s < reached'
  PROVE  bundles'[s] # NotSealed /\ Over(book', s, bundles'[s])
<1>1. Sound(book') /\ Grows(book, book', reached)
  BY BookStep, ShapeNext DEF Shape
<1>2. /\ bundles[s] # NotSealed => bundles'[s] = bundles[s]
  BY SealStep
<1>3. CASE s < reached
  <2>1. bundles[s] # NotSealed /\ Over(book, s, bundles[s])
    BY <1>3 DEF Resumed, Passed
  <2>2. bundles[s] \in SUBSET Pairs /\ reached \in Nat
    BY <2>1, SealedIs, ShapeIs
  <2>3. Over(book', s, bundles[s])
    BY <1>1, <1>3, <2>1, <2>2, OverStays
  <2> QED
    BY <1>2, <2>1, <2>3
<1>4. CASE ~(s < reached)
  <2>1. NextSession /\ session = reached /\ reached' = reached + 1
    BY <1>4, ReachedStep
  <2>2. s = session
    BY <1>4, <2>1, ShapeIs, RunAssumption DEF Session
  <2>3. book' = book /\ phase = "done"
    BY <2>1 DEF NextSession
  <2> QED
    BY <1>2, <2>2, <2>3, DoneIsOver DEF Resumed
<1> QED
  BY <1>3, <1>4

-----------------------------------------------------------------------------
(* What a session has done stays done while the process is at it. *)

LEMMA DoneStays ==
  ASSUME SettlesLater, Shape, Resumed, [Next]_vars
  PROVE  /\ DueFills(book, session) = {} => DueFills(book', session) = {}
         /\ ClaimedAll(book, session) => ClaimedAll(book', session)
<1>1. Sound(book') /\ Grows(book, book', reached) /\ (session < reached => book' = book)
  BY BookStep, ShapeNext DEF Shape
<1>2. ClaimedAll(book, session) => ClaimedAll(book', session)
  BY <1>1, StillClaimed
<1>3. DueFills(book, session) = {} => DueFills(book', session) = {}
  <2>1. CASE session < reached
    BY <1>1, <2>1
  <2>2. CASE session = reached
    BY <1>1, <2>2, StillSettled, ShapeIs
  <2> QED
    BY <2>1, <2>2, ShapeIs
<1> QED
  BY <1>2, <1>3

LEMMA PlacingStays ==
  ASSUME Shape, PlaceOne \/ RejectShort, DueOrders(book, session) = {}
  PROVE  /\ DueOrders(book', session) = {}
         /\ book'.ledger = book.ledger /\ book'.lots = book.lots
         /\ book.orders \subseteq book'.orders /\ book.rejections \subseteq book'.rejections
<1>1. /\ book'.ledger = book.ledger /\ book'.lots = book.lots /\ book'.fills = book.fills
      /\ book.orders \subseteq book'.orders /\ book.rejections \subseteq book'.rejections
      /\ \A order \in book'.orders : order \in book.orders \/ order.due > session
  <2>1. CASE PlaceOne
    <3>1. PICK intent \in todo : book' = RecordOrder(book, NewOrder(book, intent, session))
      BY <2>1 DEF PlaceOne
    <3> DEFINE order == NewOrder(book, intent, session)
    <3>2. order.due > session
      BY PlacedIs
    <3> HIDE DEF order
    <3>3. book' = RecordOrder(book, order)
      BY <3>1 DEF order
    <3>4. /\ book'.ledger = book.ledger /\ book'.lots = book.lots /\ book'.fills = book.fills
          /\ book'.rejections = book.rejections
          /\ book'.orders = book.orders \/ book'.orders = book.orders \cup {order}
      BY <3>3, ShapeIs DEF RecordOrder, Sound, IsBook
    <3> QED
      BY <3>2, <3>4
  <2>2. CASE RejectShort
    BY <2>2, ShapeIs DEF RejectShort, Reject, Sound, IsBook
  <2> QED
    BY <2>1, <2>2
<1>2. DueOrders(book', session) = {}
  <2> SUFFICES ASSUME NEW order \in DueOrders(book', session) PROVE FALSE
    OBVIOUS
  <2>1. /\ order \in book'.orders /\ order.due <= session
        /\ ~Filled(book', OrderId(order)) /\ ~Rejected(book', OrderId(order))
    BY DEF DueOrders
  <2>2. order.due \in Nat /\ session \in Nat
    <3>1. Sound(book')
      <4>1. [Next]_vars
        BY DEF Next, Step
      <4> QED
        BY <4>1, ShapeNext DEF Shape
    <3> QED
      BY <2>1, <3>1, ShapeIs DEF Sound, OrdersFit, Order
  <2>3. order \in book.orders
    BY <1>1, <2>1, <2>2
  <2>4. ~Filled(book, OrderId(order)) /\ ~Rejected(book, OrderId(order))
    BY <1>1, <2>1 DEF Filled, Rejected
  <2> QED
    BY <2>1, <2>3, <2>4 DEF DueOrders
<1> QED
  BY <1>1, <1>2

LEMMA SameAt ==
  ASSUME world' = world
  PROVE  \A b, sealed, s, p, t, sh : At(b, sealed, s, p, t, sh)' <=> At(b, sealed, s, p, t, sh)
BY SameOver, SameSizing DEF At

LEMMA StagePlace ==
  ASSUME SettlesLater, Shape, Resumed, PlaceOne
  PROVE  At(book', bundles[session], session, "place", todo', short')
<1> DEFINE sealed == bundles[session]
           s == session
<1>1. PICK intent \in todo :
        /\ book' = RecordOrder(book, NewOrder(book, intent, s)) /\ todo' = todo \ {intent}
        /\ short' = IF NewOrder(book, intent, s).quantity > 0 THEN NoShortfall
                    ELSE <<OrderId(NewOrder(book, intent, s)), Shortfall(book, intent[2], s)>>
  BY DEF PlaceOne
<1> DEFINE order == NewOrder(book, intent, s)
<1>2. phase = "place" /\ short = NoShortfall /\ At(book, sealed, s, "place", todo, short)
  BY DEF PlaceOne, Resumed, Stage
<1> HIDE DEF sealed, s
<1>3. /\ DueFills(book, s) = {} /\ ClaimedAll(book, s) /\ DueOrders(book, s) = {}
      /\ sealed # NotSealed /\ todo \subseteq sealed
      /\ \A x \in sealed \ todo :
           /\ IsPlaced(book, s, x)
           /\ IsShort(book, s, x) => Rejected(book, IntentId(s, x))
  BY <1>2 DEF At
<1>4. OrderId(order) = IntentId(s, intent) /\ (order.quantity > 0 <=> ~IsShort(book, s, intent))
  BY NewOrderIs
<1>5. /\ DueFills(book', s) = {} /\ ClaimedAll(book', s) /\ DueOrders(book', s) = {}
      /\ book'.ledger = book.ledger /\ book'.lots = book.lots
      /\ book.orders \subseteq book'.orders /\ book.rejections \subseteq book'.rejections
  <2>1. [Next]_vars
    BY DEF Next, Step
  <2> QED
    BY <1>3, <2>1, DoneStays, PlacingStays DEF s
<1>6. \A x : /\ IsShort(book', s, x) <=> IsShort(book, s, x)
             /\ Shortfall(book', x[2], s) = Shortfall(book, x[2], s)
             /\ IsPlaced(book, s, x) => IsPlaced(book', s, x)
             /\ Rejected(book, IntentId(s, x)) => Rejected(book', IntentId(s, x))
  BY <1>5, SameSizes DEF IsPlaced, Rejected
<1> HIDE DEF order
<1>7. IsPlaced(book', s, intent)
  <2>1. book' = RecordOrder(book, order)
    BY <1>1 DEF order
  <2>2. IsBook(book)
    BY ShapeIs DEF Sound
  <2> QED
    BY <1>4, <2>1, <2>2 DEF RecordOrder, IsPlaced, IsBook
<1>8. \/ ~IsShort(book, s, intent) /\ short' = NoShortfall
      \/ /\ IsShort(book, s, intent) /\ short' # NoShortfall
         /\ short' = <<IntentId(s, intent), Shortfall(book, intent[2], s)>>
  BY <1>1, <1>4 DEF order, NoShortfall
<1>9. todo' \subseteq sealed /\ intent \in sealed
  BY <1>1, <1>3
<1>10. ASSUME NEW x \in sealed \ todo'
       PROVE  /\ IsPlaced(book', s, x)
              /\ IsShort(book', s, x) =>
                   \/ Rejected(book', IntentId(s, x))
                   \/ short' # NoShortfall /\ short'[1] = IntentId(s, x)
  <2>1. CASE x = intent
    BY <1>6, <1>7, <1>8, <2>1
  <2>2. CASE x # intent
    <3>1. x \in sealed \ todo
      BY <1>1, <2>2
    <3> QED
      BY <1>3, <1>6, <3>1
  <2> QED
    BY <2>1, <2>2
<1>11. short' # NoShortfall =>
         \E x \in sealed : /\ short' = <<IntentId(s, x), Shortfall(book', x[2], s)>>
                           /\ IsShort(book', s, x)
  BY <1>6, <1>8, <1>9
<1>12. At(book', sealed, s, "place", todo', short')
  BY <1>3, <1>5, <1>9, <1>10, <1>11 DEF At
<1> QED
  BY <1>12 DEF sealed, s

LEMMA StageReject ==
  ASSUME SettlesLater, Shape, Resumed, RejectShort
  PROVE  At(book', bundles[session], session, "place", todo, NoShortfall) /\ phase = "place"
<1> DEFINE sealed == bundles[session]
           s == session
<1>1. /\ book' = Reject(book, short[1], short[2]) /\ short # NoShortfall
  BY DEF RejectShort
<1>2. phase = "place" /\ At(book, sealed, s, "place", todo, short)
  BY <1>1 DEF Resumed, Stage, At
<1> HIDE DEF sealed, s
<1>3. /\ DueFills(book, s) = {} /\ ClaimedAll(book, s) /\ DueOrders(book, s) = {}
      /\ sealed # NotSealed /\ todo \subseteq sealed
      /\ \A x \in sealed \ todo :
           /\ IsPlaced(book, s, x)
           /\ IsShort(book, s, x) =>
                Rejected(book, IntentId(s, x)) \/ short[1] = IntentId(s, x)
  BY <1>2 DEF At
<1>4. /\ DueFills(book', s) = {} /\ ClaimedAll(book', s) /\ DueOrders(book', s) = {}
      /\ book'.ledger = book.ledger /\ book'.lots = book.lots
      /\ book.orders \subseteq book'.orders /\ book.rejections \subseteq book'.rejections
  <2>1. [Next]_vars
    BY DEF Next, Step
  <2> QED
    BY <1>3, <2>1, DoneStays, PlacingStays DEF s
<1>5. \A x : /\ IsShort(book', s, x) <=> IsShort(book, s, x)
             /\ IsPlaced(book, s, x) => IsPlaced(book', s, x)
             /\ Rejected(book, IntentId(s, x)) => Rejected(book', IntentId(s, x))
  BY <1>4, SameSizes DEF IsPlaced, Rejected
<1>6. Rejected(book', short[1])
  <2> DEFINE id == short[1]
             reason == short[2]
  <2>1. book' = Reject(book, id, reason) /\ Sound(book)
    BY <1>1, ShapeIs
  <2> HIDE DEF id, reason
  <2>2. IF Rejected(book, id) THEN book'.rejections = book.rejections
        ELSE \E row : row.order = id /\ book'.rejections = book.rejections \cup {row}
    BY <2>1, RejectSound
  <2>3. Rejected(book', id)
    BY <2>2 DEF Rejected
  <2> QED
    BY <2>3 DEF id
<1>7. \A x \in sealed \ todo :
        IsPlaced(book', s, x) /\ (IsShort(book', s, x) => Rejected(book', IntentId(s, x)))
  BY <1>3, <1>5, <1>6
<1>8. At(book', sealed, s, "place", todo, NoShortfall)
  BY <1>3, <1>4, <1>7 DEF At
<1> QED
  BY <1>2, <1>8 DEF sealed, s

LEMMA StageStep ==
  ASSUME SettlesLater, ProviderFails = FALSE, Shape, Resumed, [Next]_vars,
         phase' = "fill" => ClaimedAll(book', session')
  PROVE  At(book', bundles'[session'], session', phase', todo', short')
<1>0. At(book, bundles[session], session, phase, todo, short)
  BY DEF Resumed, Stage
<1>00. short # NoShortfall => phase = "place"
  BY <1>0 DEF At
<1>1. CASE FundBook
  BY <1>1, <1>00 DEF FundBook, After, At
<1>2. CASE SettleOne
  BY <1>2, <1>00 DEF SettleOne, At, process
<1>3. CASE SettledAll
  BY <1>3, <1>00 DEF SettledAll, After, At
<1>4. CASE ApplyCorporateActions
  <2>1. /\ phase' = "fill" /\ phase = "actions" /\ short' = short /\ session' = session
    BY <1>4 DEF ApplyCorporateActions, After
  <2>2. DueFills(book', session) = {}
    BY <1>0, <2>1, DoneStays DEF At
  <2> QED
    BY <1>00, <2>1, <2>2 DEF At
<1>5. CASE FillOne
  <2>1. /\ phase' = "fill" /\ phase = "fill" /\ short' = short /\ session' = session
    BY <1>5 DEF FillOne, process
  <2>2. DueFills(book', session) = {}
    BY <1>0, <2>1, DoneStays DEF At
  <2> QED
    BY <1>00, <2>1, <2>2 DEF At
<1>6. CASE RaiseOverClose
  BY <1>6, <1>00 DEF RaiseOverClose, At
<1>7. CASE FilledAll
  <2>1. /\ phase' = "decide" /\ phase = "fill" /\ short' = short /\ session' = session
        /\ book' = book /\ DueOrders(book, session) = {}
    BY <1>7 DEF FilledAll, After
  <2> QED
    BY <1>0, <1>00, <2>1 DEF At
<1>8. CASE Decide
  <2>1. PICK intents \in Decisions :
          bundles' = [bundles EXCEPT ![session] = intents] /\ todo' = intents
    BY <1>8 DEF Decide
  <2>2. /\ phase' = "place" /\ phase = "decide" /\ short' = short /\ session' = session
        /\ book' = book
    BY <1>8 DEF Decide, After
  <2>3. bundles'[session] = intents
    BY <2>1 DEF Shape
  <2>4. intents # NotSealed
    <3>1. intents \subseteq Instrument \X {"BUY", "SELL"}
      BY RunAssumption
    <3>2. << >> \notin Instrument \X {"BUY", "SELL"}
      OBVIOUS
    <3> QED
      BY <3>1, <3>2 DEF NotSealed
  <2> QED
    BY <1>0, <1>00, <2>1, <2>2, <2>3, <2>4 DEF At
<1>9. CASE LoadSealed
  <2>1. /\ phase' = "place" /\ phase = "decide" /\ short' = short /\ session' = session
        /\ book' = book /\ bundles' = bundles /\ todo' = bundles[session]
        /\ bundles[session] # NotSealed
    BY <1>9 DEF LoadSealed, After
  <2> QED
    BY <1>0, <1>00, <2>1 DEF At
<1>10. CASE DecideMissing
  BY <1>10 DEF DecideMissing
<1>11. CASE PlaceOne
  <2>1. bundles' = bundles /\ session' = session /\ phase' = "place"
    BY <1>11 DEF PlaceOne
  <2> QED
    BY <1>11, <2>1, StagePlace
<1>12. CASE RejectShort
  <2>1. /\ bundles' = bundles /\ session' = session /\ phase' = phase /\ todo' = todo
        /\ short' = NoShortfall
    BY <1>12 DEF RejectShort
  <2> QED
    BY <1>12, <2>1, StageReject
<1>13. CASE PlacedAll
  <2>1. /\ phase' = "done" /\ phase = "place" /\ short' = short /\ session' = session
        /\ book' = book /\ bundles' = bundles /\ todo' = todo
        /\ todo = {} /\ short = NoShortfall
    BY <1>13 DEF PlacedAll, After
  <2> QED
    BY <1>0, <2>1 DEF At
<1>14. CASE NextSession
  <2>1. phase' = "settle" /\ short' = NoShortfall
    BY <1>00, <1>14 DEF NextSession
  <2> QED
    BY <2>1 DEF At
<1>15. CASE Finish
  <2>1. /\ phase' = "over" /\ phase = "done" /\ short' = short /\ session' = session
        /\ book' = book /\ bundles' = bundles /\ todo' = todo
    BY <1>15 DEF Finish
  <2> QED
    BY <1>0, <2>1 DEF At
<1>16. CASE RunAgain
  <2>1. phase' = "fund" /\ short' = NoShortfall
    BY <1>16 DEF RunAgain
  <2> QED
    BY <2>1 DEF At
<1>17. CASE UNCHANGED vars
  BY <1>0, <1>17 DEF vars
<1> QED
  BY <1>1, <1>2, <1>3, <1>4, <1>5, <1>6, <1>7, <1>8, <1>9, <1>10, <1>11, <1>12, <1>13,
     <1>14, <1>15, <1>16, <1>17 DEF Next, Step

-----------------------------------------------------------------------------
(* The rest of a cycle, from wherever it was left. *)

\* Applying a cycle to a book that it has been applied to changes nothing.
LEMMA UpToDecisionIs ==
  ASSUME world \in Worlds, NEW b, NEW s \in Session, DueFills(b, s) = {}
  PROVE  /\ UpToDecision(b, s) = FillAll(ApplyActions(b, s), s)
         /\ ClaimedAll(b, s) => UpToDecision(b, s) = FillAll(b, s)
         /\ ClaimedAll(b, s) /\ DueOrders(b, s) = {} => UpToDecision(b, s) = b
<1>1. SettleAll(b, s) = b
  BY NothingDue
<1>2. ClaimedAll(b, s) => ApplyActions(b, s) = b
  BY NothingToApply
<1>3. DueOrders(b, s) = {} => FillAll(b, s) = b
  BY NothingDue
<1> QED
  BY <1>1, <1>2, <1>3 DEF UpToDecision

LEMMA CycleOver ==
  ASSUME Shape, NEW b, IsBook(b), NEW s \in Session, Over(b, s, Sealed(s))
  PROVE  Cycle(b, s) = b
<1>1. UpToDecision(b, s) = b
  BY UpToDecisionIs, ShapeIs DEF Over
<1>2. PlaceAll(b, s) = b
  BY PlacedBefore, SealedIs DEF Over
<1> QED
  BY <1>1, <1>2, CycleIs

\* What the next step of the furthest session does, the rest of the cycle does not do
\* again.
LEMMA SettlingKeeps ==
  ASSUME Shape, Resumed, SettleOne
  PROVE  Cycle(book', session) = Cycle(book, session)
<1>1. book' = Settle(book, NextFill(book, session)) /\ DueFills(book, session) # {}
  BY DEF SettleOne
<1>2. SettleAll(book, session) = SettleAll(book', session)
  BY <1>1, SettlesOne, ShapeIs
<1> QED
  BY <1>2 DEF Cycle

LEMMA ApplyingKeeps ==
  ASSUME SettlesLater, Shape, Resumed, ApplyCorporateActions, ClaimedAll(book', session)
  PROVE  Cycle(book', session) = Cycle(book, session)
<1>1. book' = ApplyActions(book, session) /\ DueFills(book, session) = {}
  BY DEF ApplyCorporateActions, Resumed, Stage, At
<1>2. DueFills(book', session) = {}
  <2>1. [Next]_vars
    BY DEF Next, Step
  <2> QED
    BY <1>1, <2>1, DoneStays
<1>3. UpToDecision(book', session) = UpToDecision(book, session)
  BY <1>1, <1>2, UpToDecisionIs, ShapeIs
<1> QED
  BY <1>3, CycleIs

LEMMA FillingKeeps ==
  ASSUME SettlesLater, Shape, Resumed, FillOne
  PROVE  Cycle(book', session) = Cycle(book, session)
<1>1. /\ book' = Execute(book, NextOrder, session) /\ phase = "fill"
      /\ DueOrders(book, session) # {}
  BY DEF FillOne
<1>2. DueFills(book, session) = {} /\ ClaimedAll(book, session)
  BY <1>1 DEF Resumed, Stage, At
<1>3. DueFills(book', session) = {} /\ ClaimedAll(book', session)
  <2>1. [Next]_vars
    BY DEF Next, Step
  <2> QED
    BY <1>2, <2>1, DoneStays
<1>4. NextOrder \in DueOrders(book, session)
  BY <1>1, NextOrderIs DEF DueOrders
<1>5. NextOrder = FirstDue(DueOrders(book, session)) /\ OrdersOnce(book)
  BY DEF NextOrder, Resumed
<1>6. FillAll(book, session) = FillAll(book', session)
  BY <1>1, <1>4, <1>5, FillsOne, ShapeIs
<1>7. UpToDecision(book', session) = UpToDecision(book, session)
  BY <1>2, <1>3, <1>6, UpToDecisionIs, ShapeIs
<1> QED
  BY <1>7, CycleIs

LEMMA PlacingKeeps ==
  ASSUME SettlesLater, Shape, Resumed, PlaceOne \/ RejectShort
  PROVE  Cycle(book', session) = Cycle(book, session)
<1>0. [Next]_vars
  BY DEF Next, Step
<1>1. phase = "place" /\ (RejectShort => short # NoShortfall)
  BY DEF PlaceOne, RejectShort, Resumed, Stage, At
<1>2. /\ DueFills(book, session) = {} /\ ClaimedAll(book, session)
      /\ DueOrders(book, session) = {}
      /\ bundles[session] # NotSealed /\ todo \subseteq bundles[session]
      /\ short # NoShortfall =>
           \E intent \in bundles[session] :
             /\ short = <<IntentId(session, intent), Shortfall(book, intent[2], session)>>
             /\ IsShort(book, session, intent)
  BY <1>1 DEF Resumed, Stage, At
<1>3. /\ DueFills(book', session) = {} /\ ClaimedAll(book', session)
      /\ DueOrders(book', session) = {}
  BY <1>0, <1>2, DoneStays, PlacingStays
<1>4. UpToDecision(book', session) = book' /\ UpToDecision(book, session) = book
  BY <1>2, <1>3, UpToDecisionIs, ShapeIs
<1>5. /\ IsBook(book) /\ IsFiniteSet(Sealed(session)) /\ Sealed(session) \subseteq Pairs
      /\ bundles[session] = Sealed(session)
  BY <1>2, SealedIs, ShapeIs DEF Sound
<1>6. PlaceAll(book', session) = PlaceAll(book, session)
  <2>1. CASE PlaceOne
    <3>1. PICK intent \in todo : book' = RecordOrder(book, NewOrder(book, intent, session))
      BY <2>1 DEF PlaceOne
    <3> QED
      BY <1>2, <1>5, <3>1, PlacedOne
  <2>2. CASE RejectShort
    <3>1. book' = Reject(book, short[1], short[2])
      BY <2>2 DEF RejectShort
    <3>2. PICK intent \in Sealed(session) :
            /\ short = <<IntentId(session, intent), Shortfall(book, intent[2], session)>>
            /\ IsShort(book, session, intent)
      BY <1>1, <1>2, <1>5, <2>2
    <3>3. book' = Reject(book, IntentId(session, intent), Shortfall(book, intent[2], session))
      BY <3>1, <3>2
    <3> QED
      BY <1>5, <3>2, <3>3, RejectedOne
  <2> QED
    BY <2>1, <2>2
<1> QED
  BY <1>4, <1>6, CycleIs

\* Whatever the step, what the cycle of the furthest session will leave is the same.
LEMMA StepKeeps ==
  ASSUME SettlesLater, Shape, Resumed, [Next]_vars,
         phase' = "fill" => ClaimedAll(book', session')
  PROVE  Cycle(Fund(book'), reached) = Cycle(Fund(book), reached)
<1>1. CASE book' = book
  BY <1>1
<1>2. CASE FundBook
  <2>1. book' = Fund(book)
    BY <1>2 DEF FundBook
  <2>2. Fund(Fund(book)) = Fund(book)
    BY FundIs, ShapeIs DEF Funded
  <2> QED
    BY <2>1, <2>2
<1>3. CASE book' # book /\ ~FundBook
  <2>1. SettleOne \/ ApplyCorporateActions \/ FillOne \/ PlaceOne \/ RejectShort
    BY <1>3 DEF Next, Step, SettledAll, RaiseOverClose, FilledAll, Decide, LoadSealed,
                DecideMissing, PlacedAll, NextSession, Finish, RunAgain, vars
  <2>2. session = reached
    BY <1>3, BookStep, ShapeIs
  <2>3. Fund(book) = book /\ Fund(book') = book'
    <3>1. phase # "fund" /\ phase' # "fund"
      BY <2>1 DEF SettleOne, ApplyCorporateActions, FillOne, PlaceOne, RejectShort,
                  After, process, Resumed, Stage, At
    <3> QED
      BY <3>1, FundedStep DEF Resumed, Funded
  <2>4. ApplyCorporateActions => ClaimedAll(book', session)
    BY DEF ApplyCorporateActions, After
  <2>5. Cycle(book', session) = Cycle(book, session)
    BY <2>1, <2>4, SettlingKeeps, ApplyingKeeps, FillingKeeps, PlacingKeeps
  <2> QED
    BY <2>2, <2>3, <2>5
<1> QED
  BY <1>1, <1>2, <1>3

-----------------------------------------------------------------------------
(* What an uninterrupted run would have left, as more is sealed. *)

Start == Fund(EmptyBook)

LEMMA BeforeIs ==
  \A b : \A n \in Nat : /\ Before(b, 0) = b /\ CyclesThrough(b, n) = Before(b, n + 1)
                        /\ Before(b, n + 1) = Cycle(Before(b, n), n)
BY CyclesAre

LEMMA BeforeLater ==
  (\A b : \A n \in Nat : /\ Before(b, 0) = b /\ CyclesThrough(b, n) = Before(b, n + 1)
                         /\ Before(b, n + 1) = Cycle(Before(b, n), n))'
BY BeforeIs, PTL

LEMMA CycleLater ==
  (\A b, s : Cycle(b, s) = PlaceAll(UpToDecision(b, s), s))'
<1>1. \A b, s : Cycle(b, s) = PlaceAll(UpToDecision(b, s), s)
  BY CycleIs
<1> QED
  BY <1>1, PTL

\* Sealing what a session decided changes nothing of the sessions before it.
LEMMA SameBefore ==
  ASSUME world' = world, NEW b, NEW m \in Nat, \A s \in 0..(m - 1) : bundles'[s] = bundles[s]
  PROVE  Before(b, m)' = Before(b, m)
<1> DEFINE Kept == {n \in 0..m : Before(b, n)' = Before(b, n)}
<1>1. 0 \in Kept
  BY BeforeIs, BeforeLater
<1>2. ASSUME NEW n \in 0..(m - 1), n \in Kept PROVE n + 1 \in Kept
  <2>1. Before(b, n)' = Before(b, n) /\ n \in Nat /\ n + 1 \in 0..m
    BY <1>2
  <2>2. \A c : Cycle(c, n)' = Cycle(c, n)
    BY SameCycle
  <2>3. Before(b, n + 1) = Cycle(Before(b, n), n)
    BY <2>1, BeforeIs
  <2>4. (Before(b, n + 1) = Cycle(Before(b, n), n))'
    BY <2>1, BeforeLater
  <2>5. Before(b, n + 1)' = Before(b, n + 1)
    BY <2>1, <2>2, <2>3, <2>4
  <2> QED
    BY <2>1, <2>5
<1> HIDE DEF Kept
<1>3. \A n \in 0..m : n \in Kept
  BY <1>1, <1>2, Induct
<1> QED
  BY <1>3 DEF Kept

LEMMA RebuiltIs ==
  ASSUME NEW n \in Nat
  PROVE  /\ Rebuilt(n) = Before(Start, n + 1)
         /\ Rebuilt(n) = Cycle(Before(Start, n), n)
         /\ (Rebuilt(n) = Before(Start, n + 1))'
<1>1. (\A k \in Nat : Rebuilt(k) = Before(Start, k + 1))'
  <2>1. \A k \in Nat : Rebuilt(k) = Before(Start, k + 1)
    BY BeforeIs DEF Rebuilt, Start
  <2> QED
    BY <2>1, PTL
<1> QED
  BY <1>1, BeforeIs DEF Rebuilt, Start

LEMMA SameRebuilt ==
  ASSUME world' = world, NEW n \in Nat, \A s \in 0..n : bundles'[s] = bundles[s]
  PROVE  Rebuilt(n)' = Rebuilt(n)
<1>1. \A b : Before(b, n + 1)' = Before(b, n + 1)
  <2> TAKE b
  <2>1. n + 1 \in Nat /\ (n + 1) - 1 = n
    OBVIOUS
  <2> QED
    BY <2>1, SameBefore
<1>2. Before(Start, n + 1)' = Before(Start, n + 1)
  BY <1>1 DEF Start, Fund, Post, EmptyBook
<1> QED
  BY <1>2, RebuiltIs

LEMMA RebuiltLater ==
  \A e : e = Start => (\A k \in Nat : Rebuilt(k) = Cycle(Before(e, k), k))'
<1>1. (\A k \in Nat : Rebuilt(k) = Cycle(Before(Start, k), k))'
  <2>1. \A k \in Nat : Rebuilt(k) = Cycle(Before(Start, k), k)
    BY RebuiltIs
  <2> QED
    BY <2>1, PTL
<1>2. Start' = Start
  BY DEF Start, Fund, Post, EmptyBook
<1> QED
  BY <1>1, <1>2

\* Until a session has sealed its decision, the cycles of an uninterrupted run leave
\* what it has come to; then they place what it sealed.
LEMMA SameDecided ==
  ASSUME SettlesLater, Shape, Resumed, Decide
  PROVE  Same'
<1>0. [Next]_vars
  BY DEF Next, Step
<1>1. /\ phase = "decide" /\ bundles[session] = NotSealed
      /\ book' = book /\ reached' = reached /\ world' = world
  BY DEF Decide
<1>2. session = reached
  <2>1. ~(session < reached)
    BY <1>1, EarlierIsOver DEF Resumed
  <2> QED
    BY <2>1, ShapeIs
<1>3. PICK r \in Session : r = reached
  BY ShapeIs
<1>4. PICK e : e = Start
  OBVIOUS
<1>5. r \in Nat /\ world \in Worlds /\ session = r
  BY <1>2, <1>3, ShapeIs
<1>6. \A s \in 0..(r - 1) : bundles'[s] = bundles[s]
  <2>1. PICK intents : bundles' = [bundles EXCEPT ![session] = intents]
    BY DEF Decide
  <2>2. \A s \in 0..(r - 1) : s \in Session /\ s # session
    <3>1. r \in 0..LAST /\ LAST \in Nat
      BY RunAssumption DEF Session
    <3> QED
      BY <1>5, <3>1 DEF Session
  <2> QED
    BY <2>1, <2>2 DEF Shape
<1>7. Before(e, r)' = Before(e, r)
  BY <1>1, <1>5, <1>6, SameBefore
<1>8. /\ DueFills(book, r) = {} /\ ClaimedAll(book, r) /\ DueOrders(book, r) = {}
  BY <1>1, <1>5 DEF Resumed, Stage, At
<1>9. Fund(book) = book /\ UpToDecision(book, r) = book
  <2>1. Fund(book) = book
    BY <1>1 DEF Resumed, Funded
  <2> QED
    BY <1>5, <1>8, <2>1, UpToDecisionIs
<1>10. book = UpToDecision(Before(e, r), r)
  <2>1. Cycle(book, r) = Cycle(Before(e, r), r)
    BY <1>3, <1>4, <1>5, <1>9, RebuiltIs DEF Resumed, Same
  <2>2. \A b : Cycle(b, r) = UpToDecision(b, r)
    BY <1>1, <1>5, CycleIs, PlaceNone
  <2> QED
    BY <1>9, <2>1, <2>2
<1>11. (\A k \in Nat : Rebuilt(k) = Cycle(Before(e, k), k))'
  BY <1>4, RebuiltLater
<1>12. \A b, s : UpToDecision(b, s)' = UpToDecision(b, s)
  BY <1>1, SameUpToDecision
<1>13. (Rebuilt(r) = Cycle(Before(e, r), r))'
  BY <1>5, <1>11
<1>14. (\A b : Cycle(b, r) = PlaceAll(UpToDecision(b, r), r))'
  BY CycleLater
<1>15. (Rebuilt(r) = Cycle(book, r))'
  BY <1>1, <1>7, <1>9, <1>10, <1>12, <1>13, <1>14
<1>16. Fund(book)' = book'
  BY <1>1, <1>9 DEF Fund, Post
<1> QED
  BY <1>1, <1>3, <1>15, <1>16 DEF Same

LEMMA SameStep ==
  ASSUME SettlesLater, Shape, Resumed, [Next]_vars,
         phase' = "fill" => ClaimedAll(book', session')
  PROVE  Same'
<1>1. world' = world /\ (~Decide => bundles' = bundles)
  BY SealStep
<1>2. Cycle(Fund(book'), reached) = Rebuilt(reached)
  BY StepKeeps DEF Resumed, Same
<1>3. CASE ~Decide
  <2>1. \A n \in Nat : Rebuilt(n)' = Rebuilt(n)
    BY <1>1, <1>3, SameRebuilt
  <2>2. \A s, b : Cycle(b, s)' = Cycle(b, s)
    BY <1>1, <1>3, SameCycle
  <2>3. Fund(book)' = Fund(book')
    BY DEF Fund, Post
  <2>4. CASE reached' = reached
    BY <1>2, <2>1, <2>2, <2>3, <2>4, ShapeIs DEF Same
  <2>5. CASE NextSession /\ session = reached /\ reached' = reached + 1
    <3>1. phase = "done" /\ book' = book
      BY <2>5 DEF NextSession
    <3>2. Over(book, session, Sealed(session)) /\ Fund(book) = book
      BY <3>1, DoneIsOver, SealedIs, ShapeIs DEF Resumed, Funded
    <3>3. Cycle(book, session) = book
      BY <3>2, CycleOver, ShapeIs DEF Sound
    <3>4. book = Before(Start, reached + 1)
      BY <1>2, <2>5, <3>1, <3>2, <3>3, RebuiltIs, ShapeIs
    <3>5. reached + 1 \in Nat
      BY ShapeIs
    <3>6. Rebuilt(reached + 1) = Cycle(book, reached + 1)
      BY <3>4, <3>5, RebuiltIs
    <3> QED
      BY <2>2, <2>3, <2>5, <3>1, <3>2, <3>5, <3>6, <2>1 DEF Same
  <2> QED
    BY <2>4, <2>5, ReachedStep
<1>4. CASE Decide
  BY <1>4, SameDecided
<1> QED
  BY <1>3, <1>4

-----------------------------------------------------------------------------
(* The invariant, and what it says of a run and of its replay. *)

LEMMA ResumedInit == Init /\ Shape => Resumed
<1> SUFFICES ASSUME Init, Shape PROVE Resumed
  OBVIOUS
<1>1. /\ book = EmptyBook /\ session = 0 /\ reached = 0 /\ phase = "fund"
      /\ short = NoShortfall
  BY DEF Init
<1>2. OrdersOnce(book)
  BY <1>1, FS_EmptySet DEF OrdersOnce, EmptyBook
<1>3. Dated(book, reached)
  <2>1. \A i \in Instrument : book.lots[i] = << >>
    BY <1>1 DEF EmptyBook
  <2>2. Table!KnownBy(<< >>, 0)
    BY DEF Table!KnownBy, Table!Sorted, Table!Tables, Table!ToSet
  <2> QED
    BY <1>1, <2>1, <2>2 DEF Dated
<1>4. Passed
  <2>1. \A s \in Session : ~(s < reached)
    BY <1>1, RunAssumption DEF Session
  <2> QED
    BY <2>1 DEF Passed
<1>5. Stage
  BY <1>1 DEF Stage, At
<1>6. Same
  BY <1>1, RebuiltIs, BeforeIs DEF Same, Start
<1> QED
  BY <1>1, <1>2, <1>3, <1>4, <1>5, <1>6 DEF Resumed

LEMMA ResumedNext ==
  ASSUME SettlesLater, ProviderFails = FALSE
  PROVE  Shape /\ Resumed /\ EveryActionApplies' /\ [Next]_vars => Resumed'
<1> SUFFICES ASSUME Shape, Resumed, EveryActionApplies', [Next]_vars PROVE Resumed'
  OBVIOUS
<1>1. world' = world
  BY SealStep
<1>2. phase' = "fill" => ClaimedAll(book', session')
  BY <1>1, SameOver DEF EveryActionApplies
<1>3. OrdersOnce(book)'
  BY OrdersStep DEF OrdersOnce, OrderId
<1>4. Dated(book, reached)'
  BY DatedStep DEF Dated
<1>5. (Funded(book) \/ (phase = "fund" /\ reached = 0))'
  BY FundedStep DEF Funded, Fund, Post
<1>6. Passed'
  BY <1>1, PassedStep, SameOver DEF Passed
<1>7. Stage'
  BY <1>1, <1>2, StageStep, SameAt DEF Stage
<1>8. Same'
  BY <1>2, SameStep
<1> QED
  BY <1>3, <1>4, <1>5, <1>6, <1>7, <1>8 DEF Resumed

LEMMA ResumedAlways ==
  ASSUME SettlesLater, ProviderFails = FALSE
  PROVE  Spec /\ []EveryActionApplies => []Resumed
<1>1. Init => Shape /\ Resumed
  BY ShapeInit, ResumedInit
<1>2. Shape /\ Resumed /\ EveryActionApplies' /\ [Next]_vars => Resumed'
  BY ResumedNext
<1> QED
  BY <1>1, <1>2, ShapeAlways, PTL DEF Spec

\* Where the furthest session is over, the books are the replayed ones.
LEMMA DoneIsRebuilt ==
  ASSUME Shape, Resumed, phase \in {"done", "over"}, session = reached
  PROVE  book = Rebuilt(reached) /\ Opening \in book.ledger
<1>1. Over(book, session, Sealed(session))
  BY DoneIsOver, SealedIs, ShapeIs DEF Resumed
<1>2. Cycle(book, session) = book
  BY <1>1, CycleOver, ShapeIs DEF Sound
<1>3. Funded(book)
  BY DEF Resumed
<1> QED
  BY <1>2, <1>3, FundIs, ShapeIs DEF Resumed, Same, Funded

\* Study.run always starts from the first session and relies on the rows it finds.  If
\* settlement takes at least a session, the model always answers, and no corporate action
\* falls on a position that is not held, then wherever runs were stopped and however
\* often, the books of a finished session are the ones that an uninterrupted run with the
\* same decisions leaves.
THEOREM ResumedRunsReplay ==
  ASSUME SettlesLater, ProviderFails = FALSE
  PROVE  Spec /\ []EveryActionApplies => []ResumedBooksReplay
<1>1. Shape /\ Resumed => ResumedBooksReplay
  BY DoneIsRebuilt DEF ResumedBooksReplay
<1> QED
  BY <1>1, ResumedAlways, ShapeAlways, PTL

\* The same without the hypothesis on the run, for markets without corporate actions.
COROLLARY QuietRunsReplay ==
  ASSUME SettlesLater, ProviderFails = FALSE, \A w \in Worlds : w.actions = << >>
  PROVE  Spec => []ResumedBooksReplay
<1>1. Shape => EveryActionApplies
  BY DEF Shape, EveryActionApplies, ClaimedAll, Actions, ToSet
<1> QED
  BY <1>1, ResumedRunsReplay, ShapeAlways, PTL

\* A run that goes over sessions an earlier one has finished writes nothing: it neither
\* settles, fills, pays nor places anything twice.
THEOREM RerunsWriteNothing ==
  ASSUME SettlesLater, ProviderFails = FALSE
  PROVE  Spec /\ []EveryActionApplies => [][session < reached => book' = book]_vars
<1>1. Shape /\ Resumed /\ [Next]_vars => [session < reached => book' = book]_vars
  BY BookStep
<1> QED
  BY <1>1, ResumedAlways, ShapeAlways, PTL DEF Spec

-----------------------------------------------------------------------------
(* The replay. *)

\* A book is funded once: the opening balance is the one that Study.run posts.
FundedOnce == \A t \in book.ledger : t.type = "OPENING_BALANCE" => t = Opening

LEMMA FundedOnceNext ==
  ASSUME SettlesLater
  PROVE  Shape /\ Resumed /\ FundedOnce /\ [Next]_vars => FundedOnce'
<1> SUFFICES ASSUME Shape, Resumed, FundedOnce, [Next]_vars PROVE FundedOnce'
  OBVIOUS
<1>1. \A t \in book'.ledger : t \in book.ledger \/ t = Opening \/ t.type # "OPENING_BALANCE"
  BY BookStep DEF Grows
<1>2. Opening' = Opening
  BY DEF Opening, Transaction, Posting, Cash, OpeningEquity
<1> QED
  BY <1>1, <1>2 DEF FundedOnce

\* Replay takes the opening balance from the record, and posts what fund had posted.
LEMMA ReplayFundingIs ==
  ASSUME Shape, CAPITAL > 0, FundedOnce, Opening \in book.ledger
  PROVE  ReplayFunding = Fund(EmptyBook)
<1>1. /\ Opening.type = "OPENING_BALANCE" /\ Opening.at = 0
      /\ Opening.ref = "initial virtual funding"
      /\ Opening.postings = {Posting(Cash, CAPITAL), Posting(OpeningEquity, -CAPITAL)}
  BY DEF Opening, Transaction
<1>2. Amount(Opening, Cash) = CAPITAL
  <2>1. OpeningEquity # Cash
    BY DEF OpeningEquity, Cash
  <2>2. Posting(OpeningEquity, -CAPITAL).account = OpeningEquity
    BY PostingIs
  <2>3. Posting(Cash, CAPITAL) \in Opening.postings
    BY <1>1
  <2>4. \A l \in Opening.postings : l = Posting(Cash, CAPITAL) \/ l.account # Cash
    BY <1>1, <2>1, <2>2
  <2> QED
    BY <2>3, <2>4, PostingSays
<1> DEFINE Openings == {entry \in book.ledger : entry.type = "OPENING_BALANCE"
                                               /\ Amount(entry, Cash) > 0}
           Posted(opening) == Transaction(opening.type, opening.at, opening.ref,
                                {Posting(Cash, Amount(opening, Cash)),
                                 Posting(OpeningEquity, -Amount(opening, Cash))})
<1>3. Openings = {Opening}
  BY <1>1, <1>2 DEF FundedOnce
<1>4. Posted(Opening) = Opening
  BY <1>1, <1>2 DEF Opening
<1>5. {Posted(opening) : opening \in Openings} = {Opening}
  <2> HIDE DEF Openings, Posted
  <2> QED
    BY <1>3, <1>4
<1>6. ReplayFunding = [EmptyBook EXCEPT !.ledger = {Opening}]
  BY <1>5 DEF ReplayFunding
<1>7. Fund(EmptyBook) = [EmptyBook EXCEPT !.ledger = {Opening}]
  <2>1. EmptyBook.ledger \cup {Opening} = {Opening}
    BY DEF EmptyBook
  <2>2. Fund(EmptyBook) = [EmptyBook EXCEPT !.ledger = EmptyBook.ledger \cup {Opening}]
    BY DEF Fund, Post, Opening
  <2> QED
    BY <2>1, <2>2
<1> QED
  BY <1>6, <1>7

LEMMA ReplayedIs ==
  ASSUME Shape, Resumed, CAPITAL > 0, FundedOnce, BetweenCycles
  PROVE  Recomputed = book
<1>1. book = Rebuilt(reached) /\ Opening \in book.ledger
  BY DoneIsRebuilt DEF BetweenCycles
<1>2. Cycles = 0..reached
  <2>1. book # EmptyBook
    BY <1>1 DEF EmptyBook
  <2> QED
    BY <2>1 DEF Cycles
<1>3. Cardinality(Cycles) - 1 = reached
  <2>1. reached \in Nat /\ reached \in Int /\ 0 \in Int
    BY ShapeIs
  <2>2. Cardinality(0..reached) = reached + 1
    BY <2>1, FS_Interval
  <2> QED
    BY <1>2, <2>1, <2>2
<1>4. ReplayFunding = Fund(EmptyBook)
  BY <1>1, ReplayFundingIs
<1> QED
  BY <1>1, <1>3, <1>4 DEF Recomputed, Rebuilt

LEMMA NoneDiffer == ASSUME NEW kind, NEW rows PROVE Differ(kind, rows, rows) = {}
BY DEF Differ

\* "Given what the model said, everything else is reproducible" (docs/REPRODUCIBILITY.md):
\* under the same hypotheses and with something to fund, a replay started between two
\* cycles finds every order, fill, balance and position as it was recorded, and every
\* verdict of a pass that nothing has been added to since.
THEOREM ReplaysAreExact ==
  ASSUME SettlesLater, ProviderFails = FALSE, CAPITAL > 0
  PROVE  ReplaySpec /\ []EveryActionApplies => []ReplayIsExact
<1>1. Shape /\ Resumed /\ FundedOnce => ReplayIsExact
  <2> SUFFICES ASSUME Shape, Resumed, FundedOnce, BetweenCycles, SealedCycles # {},
                      verdicts \in {{}, Elapsed}
               PROVE  IsExact
    BY DEF ReplayIsExact
  <2>1. Recomputed = book
    BY ReplayedIs
  <2>2. ReplayedVerdicts = verdicts
    BY DEF ReplayedVerdicts
  <2>3. Divergences = {}
    BY <2>1, <2>2, NoneDiffer DEF Divergences
  <2> QED
    BY <2>3 DEF IsExact
<1>2. Init => FundedOnce
  BY DEF Init, EmptyBook, FundedOnce
<1>3. Shape /\ Resumed /\ FundedOnce /\ [Next]_vars => FundedOnce'
  BY FundedOnceNext
<1>4. [ReplayNext]_replayVars => [Next]_vars
  BY DEF ReplayNext, replayVars, Resolve
<1>5. ReplayInit => Init
  BY DEF ReplayInit
<1>6. ReplaySpec => Spec
  BY <1>4, <1>5, PTL DEF ReplaySpec, Spec
<1> QED
  BY <1>1, <1>2, <1>3, <1>6, ResumedAlways, ShapeAlways, PTL DEF Spec
=============================================================================
