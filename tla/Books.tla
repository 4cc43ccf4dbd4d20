-------------------------------- MODULE Books --------------------------------
(***************************************************************************)
(* What one portfolio owns and owes: the rows that execution/engine.py and *)
(* execution/corporate.py write, and what they compute from them.          *)
(*                                                                         *)
(* A book is a record of tables.  The engine keeps no other state: an      *)
(* order is pending because it has neither a fill nor a rejection, a fill  *)
(* is unsettled because no settlement names it, an action is not applied   *)
(* because no row claims it.  Every operator below maps a book to the book *)
(* after one commit.                                                       *)
(*                                                                         *)
(* Time is counted in sessions: what happens between two cutoffs happens   *)
(* at the later one.  Money and quantities are whole, in one currency, and *)
(* rounding to cents is not modelled.                                      *)
(***************************************************************************)
EXTENDS Positions

CONSTANTS
  Instrument,
  CAPITAL,        (* what the book is funded with                            *)
  WEIGHT,         (* target_weight, in percent                               *)
  MIN_NOTIONAL,   (* minimum_notional                                        *)
  FEE_MIN,        (* FeeSchedule.minimum                                     *)
  FEE_BPS,        (* FeeSchedule.basis_points                                *)
  Window,         (* the calendar: [Instrument -> [session decided -> first  *)
                  (* session at or after the next execution window]]         *)
  SettleAfter     (* [Instrument -> sessions from fill to settlement]        *)

ASSUME PolicyAssumption ==
  /\ IsFiniteSet(Instrument) /\ SettleAfter \in [Instrument -> Nat]
  /\ WEIGHT \in 1..100
  /\ {CAPITAL, MIN_NOTIONAL, FEE_MIN, FEE_BPS} \subseteq Nat

VARIABLE world    (* what the snapshots say; fixed from the start            *)

(* The bar of a session: what a fill pays, how much of it a fill may take    *)
(* (liquidity_cap of the volume), and whether the instrument is tradable     *)
(* (a fresh bar with both sides of the book, and not suspended).             *)
Quote(i, session) == world.quotes[i][session]
Mid(i, session) == (Quote(i, session).bid + Quote(i, session).ask) \div 2

Least(a, b) == IF a <= b THEN a ELSE b
Most(a, b) == IF a >= b THEN a ELSE b

EmptyBook == [orders |-> {}, fills |-> {}, settled |-> {}, rejections |-> {},
              ledger |-> {}, claims |-> {}, lots |-> [i \in Instrument |-> << >>]]

-----------------------------------------------------------------------------
(* accounting/ledger.py *)

Cash == <<"cash", "">>
Payable == <<"payable", "">>
Receivable == <<"receivable", "">>
Fees == <<"fees", "">>
OpeningEquity == <<"opening_equity", "">>
DividendIncome == <<"dividend_income", "">>
RealizedPnl == <<"realized_pnl", "">>
Position(i) == <<"position", i>>

Posting(account, amount) == [account |-> account, amount |-> amount]

\* The transaction id derives from everything a transaction says, so posting it
\* again posts nothing: a set.
Transaction(type, at, ref, postings) ==
  [type |-> type, at |-> at, ref |-> ref, postings |-> postings]
Post(book, transaction) == [book EXCEPT !.ledger = @ \cup {transaction}]

\* No transaction has two postings to one account.
Amount(transaction, account) ==
  LET legs == {posting \in transaction.postings : posting.account = account}
  IN  IF legs = {} THEN 0 ELSE (CHOOSE leg \in legs : TRUE).amount

Balance(book, account, asOf) ==
  LET known == {transaction \in book.ledger : transaction.at <= asOf}
  IN  SumFunction([transaction \in known |-> Amount(transaction, account)])

-----------------------------------------------------------------------------
(* execution/policy.py and ExecutionEngine._size *)

FeeFor(notional) == Most(FEE_MIN, (notional * FEE_BPS) \div 10000)

Affordable(cash) ==
  IF cash <= FEE_MIN THEN 0 ELSE ((cash - FEE_MIN) * 10000) \div (10000 + FEE_BPS)

Equity(book, session) ==
  Balance(book, Cash, session) + Balance(book, Receivable, session)
    + Balance(book, Payable, session)
    + SumFunction([i \in Instrument |-> quantity_of(book.lots[i], session) * Mid(i, session)])

\* Cash less what is owed for purchases that have not settled; not less what
\* orders that are still pending will cost.
Available(book, session) == Balance(book, Cash, session) + Balance(book, Payable, session)

BuyQuantity(book, i, session) ==
  LET notional == Least((Equity(book, session) * WEIGHT) \div 100,
                        Affordable(Available(book, session)))
  IN  IF Quote(i, session).ask = 0 \/ notional < MIN_NOTIONAL THEN 0
      ELSE notional \div Quote(i, session).ask

SizeByVolume(book, i, side, session) ==
  IF side = "SELL" THEN Quote(i, session).cap ELSE BuyQuantity(book, i, session)
Size(book, i, side, session) ==
  IF side = "SELL" THEN quantity_of(book.lots[i], session)
                   ELSE BuyQuantity(book, i, session)

Shortfall(book, side, session) ==
  IF side = "SELL" THEN "NOTHING_TO_SELL"
  ELSE IF Available(book, session) <= 0 THEN "INSUFFICIENT_CASH" ELSE "BELOW_MINIMUM_SIZE"

-----------------------------------------------------------------------------
(* ExecutionEngine: placing, rejecting *)

\* order_id derives from the bundle (one per session here), instrument and side.
OrderId(order) == <<order.decided, order.instrument, order.side>>

NewOrderForThisBar(book, intent, session) ==
  [decided |-> session, instrument |-> intent[1], side |-> intent[2],
   quantity |-> Size(book, intent[1], intent[2], session), due |-> session]
NewOrder(book, intent, session) ==
  [decided |-> session, instrument |-> intent[1], side |-> intent[2],
   quantity |-> Size(book, intent[1], intent[2], session),
   due |-> Window[intent[1]][session]]

\* An order that is already there is left as it is, whatever its size would be
\* today.
RecordOrder(book, order) ==
  IF \E placed \in book.orders : OrderId(placed) = OrderId(order) THEN book
  ELSE [book EXCEPT !.orders = @ \cup {order}]

Filled(book, id) == \E fill \in book.fills : fill.order = id
Rejected(book, id) == \E rejection \in book.rejections : rejection.order = id

\* A second rejection with another reason meets uq_order_rejections_order, and the
\* retry inside EventStore.append goes on without its row.
Reject(book, id, reason) ==
  IF Rejected(book, id) THEN book
  ELSE [book EXCEPT !.rejections = @ \cup {[order |-> id, reason |-> reason]}]

-----------------------------------------------------------------------------
(* ExecutionEngine.execute_due *)

DueOrdersStrictly(book, session) ==
  {order \in book.orders : /\ order.due < session
                           /\ ~Filled(book, OrderId(order))
                           /\ ~Rejected(book, OrderId(order))}
DueOrders(book, session) ==
  {order \in book.orders : /\ order.due <= session
                           /\ ~Filled(book, OrderId(order))
                           /\ ~Rejected(book, OrderId(order))}

\* Oldest decision first; among those of one decision, in the fixed but
\* arbitrary order of their hashes.
FirstDue(orders) == CHOOSE order \in orders : \A other \in orders : order.decided <= other.decided

Refusal(order, session) ==
  LET quote == Quote(order.instrument, session) IN
  IF ~quote.tradable THEN "NOT_TRADABLE"
  ELSE IF Least(order.quantity, quote.cap) <= 0 THEN "LIQUIDITY_EXHAUSTED" ELSE "none"

FillQuantity(order, session) ==
  Least(order.quantity, Quote(order.instrument, session).cap)

\* PositionBook.close_quantity raises AccountingError.
OverCloses(book, order, session) ==
  /\ order.side = "SELL" /\ Refusal(order, session) = "none"
  /\ FillQuantity(order, session) > quantity_of(book.lots[order.instrument], session)

FillRow(order, quantity, price, session) ==
  [order |-> OrderId(order), side |-> order.side,
   gross |-> quantity * price, fee |-> FeeFor(quantity * price),
   at |-> session, settles |-> session + SettleAfter[order.instrument]]

BookBuy(book, order, session) ==
  LET i == order.instrument
      quantity == FillQuantity(order, session)
      fill == FillRow(order, quantity, Quote(i, session).ask, session)
      posted == Post(book, Transaction("BUY_FILL", session, OrderId(order),
                  {Posting(Position(i), fill.gross), Posting(Fees, fill.fee),
                   Posting(Payable, -(fill.gross + fill.fee))}))
  IN  [posted EXCEPT
         !.fills = @ \cup {fill},
         !.lots[i] = open_lot(@, quantity, Quote(i, session).ask, session, order.decided)]

BookSell(book, order, session) ==
  LET i == order.instrument
      quantity == FillQuantity(order, session)
      fill == FillRow(order, quantity, Quote(i, session).bid, session)
      cost == CostBasis(Consumed(open_lots(book.lots[i], session), quantity))
      posted == Post(book, Transaction("SELL_FILL", session, OrderId(order),
                  {Posting(Receivable, fill.gross - fill.fee), Posting(Fees, fill.fee),
                   Posting(Position(i), -cost), Posting(RealizedPnl, cost - fill.gross)}))
  IN  [posted EXCEPT
         !.fills = @ \cup {fill},
         !.lots[i] = close_quantity(@, quantity, session, order.decided)]

\* _fill_one, for an order that does not over-close.
Execute(book, order, session) ==
  IF Refusal(order, session) # "none"
  THEN Reject(book, OrderId(order), Refusal(order, session))
  ELSE IF order.side = "BUY" THEN BookBuy(book, order, session)
                             ELSE BookSell(book, order, session)

-----------------------------------------------------------------------------
(* ExecutionEngine.settle_due *)

DueFills(book, session) ==
  {fill \in book.fills : fill.settles <= session /\ fill.order \notin book.settled}

SettleWithoutFee(book, fill) ==
  LET sign == IF fill.side = "BUY" THEN 1 ELSE -1
      leg == IF fill.side = "BUY" THEN Payable ELSE Receivable
  IN  [Post(book, Transaction(fill.side, fill.settles, fill.order,
                    {Posting(leg, sign * fill.gross), Posting(Cash, -sign * fill.gross)}))
         EXCEPT !.settled = @ \cup {fill.order}]

\* Dated when it was due, which may be before the session that finds it.
Settle(book, fill) ==
  LET posted ==
        IF fill.side = "BUY"
        THEN Post(book, Transaction("BUY_SETTLEMENT", fill.settles, fill.order,
               {Posting(Payable, fill.gross + fill.fee), Posting(Cash, -(fill.gross + fill.fee))}))
        ELSE Post(book, Transaction("SELL_SETTLEMENT", fill.settles, fill.order,
               {Posting(Cash, fill.gross - fill.fee), Posting(Receivable, fill.fee - fill.gross)}))
  IN  [posted EXCEPT !.settled = @ \cup {fill.order}]

-----------------------------------------------------------------------------
(* CorporateActionApplier.apply_to_portfolio *)

PayDividend(book, action, held) ==
  IF action.amount * held = 0 THEN book
  ELSE [Post(book, Transaction("CASH_DIVIDEND", action.at, <<action.ref, action.instrument>>,
               {Posting(Cash, action.amount * held),
                Posting(DividendIncome, -(action.amount * held))}))
          EXCEPT !.claims = @ \cup {action.ref}]

SplitPosition(book, action) ==
  [book EXCEPT !.claims = @ \cup {action.ref},
               !.lots[action.instrument] =
                  apply_split(@, action.num, action.den, action.at, action.ref)]

\* An action on a position that is not held is not claimed either.
ApplyUnclaimed(book, action) ==
  LET held == quantity_of(book.lots[action.instrument], action.at) IN
  IF held <= 0 THEN book
  ELSE IF action.type = "CASH_DIVIDEND" THEN PayDividend(book, action, held)
                                        ELSE SplitPosition(book, action)
ApplyAction(book, action) ==
  IF action.ref \in book.claims THEN book ELSE ApplyUnclaimed(book, action)

\* Effective in this session only, in the order of their evidence ids; one
\* event announces them all, so they are one commit.
ApplyActions(book, session) ==
  FoldLeft(ApplyAction, book, Sift(world.actions, LAMBDA action : action.at = session))

-----------------------------------------------------------------------------
(* ExecutionEngine.fund *)

Fund(book) == Post(book, Transaction("OPENING_BALANCE", 0, "initial virtual funding",
                          {Posting(Cash, CAPITAL), Posting(OpeningEquity, -CAPITAL)}))
=============================================================================
