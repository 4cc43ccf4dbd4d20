----------------------------- MODULE CycleDriver -----------------------------
(***************************************************************************)
(* Study.run and experiments/driver.py over one portfolio: fund the book,  *)
(* then for every session settle, apply corporate actions, fill, decide    *)
(* and place, in that order.                                               *)
(*                                                                         *)
(* Every action that changes the book is one commit.  The process may stop *)
(* after any of them, by a crash or an exception, and a run that was       *)
(* stopped or has ended may be run again: always from the first session,   *)
(* relying on the rows of the book to skip what was done.                  *)
(***************************************************************************)
EXTENDS Books

CONSTANTS
  LAST,             (* bound: sessions are 0..LAST                           *)
  Worlds,           (* what the snapshots may say                            *)
  Decisions,        (* the sets of intents a decision may seal               *)
  ProviderFails,    (* whether the model provider may fail a decision        *)
  MAX_RUNS          (* bound: how often the run is started again             *)

Session == 0..LAST

\* An order is due "strictly after" the decision (next_eligible_execution).
ASSUME RunAssumption ==
  /\ LAST \in Nat /\ MAX_RUNS \in Nat /\ ProviderFails \in BOOLEAN
  /\ Decisions \subseteq SUBSET (Instrument \X {"BUY", "SELL"})
  /\ \A i \in Instrument : \A s \in Session : Window[i][s] \in Nat /\ Window[i][s] > s

Action == [ref : Nat, instrument : Instrument, at : Nat, type : {"CASH_DIVIDEND", "STOCK_SPLIT"},
           amount : Nat, num : Nat \ {0}, den : Nat \ {0}]

ASSUME WorldsAssumption ==
  \A w \in Worlds :
    /\ w.actions \in Seq(Action)
    /\ \A i \in Instrument : \A s \in Session :
         w.quotes[i][s] \in [bid : Nat, ask : Nat, cap : Nat, tradable : BOOLEAN]

VARIABLES
  book,       (* committed rows                                              *)
  bundles,    (* session -> sealed intents, or NotSealed                     *)
  session,    (* which cutoff the process is at                              *)
  phase,      (* and how far into it                                         *)
  todo,       (* intents the process has yet to place                        *)
  short,      (* the order just placed that has to be rejected, if any       *)
  reached,    (* the furthest session any run has come to                    *)
  runs        (* how often the run was started again                         *)

process == <<session, phase, todo, short>>
vars == <<world, book, bundles, session, phase, todo, short, reached, runs>>

NotSealed == {<<>>}
NoShortfall == <<>>

Phase == {"fund", "settle", "actions", "fill", "decide", "place", "done", "raised", "over"}

\* The one supported order of a cycle's steps.
AfterFillingFirst(p) ==
  CASE p = "fund" -> "settle" [] p = "settle" -> "fill" [] p = "fill" -> "actions"
    [] p = "actions" -> "decide" [] p = "decide" -> "place" [] p = "place" -> "done"
After(p) ==
  CASE p = "fund" -> "settle" [] p = "settle" -> "actions" [] p = "actions" -> "fill"
    [] p = "fill" -> "decide" [] p = "decide" -> "place" [] p = "place" -> "done"

Init ==
  /\ world \in Worlds
  /\ book = EmptyBook
  /\ bundles = [s \in Session |-> NotSealed]
  /\ session = 0 /\ phase = "fund" /\ todo = {} /\ short = NoShortfall
  /\ reached = 0 /\ runs = 0

-----------------------------------------------------------------------------
(* The steps of a run.                                                       *)

FundBook ==
  /\ phase = "fund"
  /\ book' = Fund(book)
  /\ phase' = After(phase)
  /\ UNCHANGED <<world, bundles, session, todo, short, reached, runs>>

NextFill(b, s) == CHOOSE fill \in DueFills(b, s) : TRUE

SettleOne ==
  /\ phase = "settle" /\ DueFills(book, session) # {}
  /\ book' = Settle(book, NextFill(book, session))
  /\ UNCHANGED <<world, bundles, process, reached, runs>>

SettledAll ==
  /\ phase = "settle" /\ DueFills(book, session) = {}
  /\ phase' = After(phase)
  /\ UNCHANGED <<world, book, bundles, session, todo, short, reached, runs>>

ApplyCorporateActions ==
  /\ phase = "actions"
  /\ book' = ApplyActions(book, session)
  /\ phase' = After(phase)
  /\ UNCHANGED <<world, bundles, session, todo, short, reached, runs>>

NextOrder == FirstDue(DueOrders(book, session))

FillOne ==
  /\ phase = "fill" /\ DueOrders(book, session) # {}
  /\ \E order \in {NextOrder} :
       /\ ~OverCloses(book, order, session)
       /\ book' = Execute(book, order, session)
  /\ UNCHANGED <<world, bundles, process, reached, runs>>

\* AccountingError leaves Study.run; session_scope rolls back.
RaiseOverClose ==
  /\ phase = "fill" /\ DueOrders(book, session) # {}
  /\ OverCloses(book, NextOrder, session)
  /\ phase' = "raised"
  /\ UNCHANGED <<world, book, bundles, session, todo, short, reached, runs>>

FilledAll ==
  /\ phase = "fill" /\ DueOrders(book, session) = {}
  /\ phase' = After(phase)
  /\ UNCHANGED <<world, book, bundles, session, todo, short, reached, runs>>

DecideAfresh ==
  /\ phase = "decide"
  /\ \E intents \in Decisions :
       bundles' = [bundles EXCEPT ![session] = intents] /\ todo' = intents
  /\ phase' = After(phase)
  /\ UNCHANGED <<world, book, session, short, reached, runs>>

\* The model is asked only when nothing was sealed; what it answers is sealed
\* before anything acts on it.
Decide ==
  /\ phase = "decide" /\ bundles[session] = NotSealed
  /\ \E intents \in Decisions :
       bundles' = [bundles EXCEPT ![session] = intents] /\ todo' = intents
  /\ phase' = After(phase)
  /\ UNCHANGED <<world, book, session, short, reached, runs>>

LoadSealed ==
  /\ phase = "decide" /\ bundles[session] # NotSealed
  /\ todo' = bundles[session]
  /\ phase' = After(phase)
  /\ UNCHANGED <<world, book, bundles, session, short, reached, runs>>

\* ModelProviderError: the condition is recorded as missing, and the cycle
\* goes on without it.
DecideMissing ==
  /\ phase = "decide" /\ ProviderFails /\ bundles[session] = NotSealed
  /\ phase' = After(phase)
  /\ UNCHANGED <<world, book, bundles, session, todo, short, reached, runs>>

PlaceOne ==
  /\ phase = "place" /\ short = NoShortfall
  /\ \E intent \in todo : \E order \in {NewOrder(book, intent, session)} :
       /\ book' = RecordOrder(book, order)
       /\ todo' = todo \ {intent}
       /\ short' = IF order.quantity > 0 THEN NoShortfall
                   ELSE <<OrderId(order), Shortfall(book, intent[2], session)>>
  /\ UNCHANGED <<world, bundles, session, phase, reached, runs>>

RejectShort ==
  /\ short # NoShortfall
  /\ book' = Reject(book, short[1], short[2])
  /\ short' = NoShortfall
  /\ UNCHANGED <<world, bundles, session, phase, todo, reached, runs>>

PlacedAll ==
  /\ phase = "place" /\ todo = {} /\ short = NoShortfall
  /\ phase' = After(phase)
  /\ UNCHANGED <<world, book, bundles, session, todo, short, reached, runs>>

NextSession ==
  /\ phase = "done" /\ session < LAST
  /\ session' = session + 1 /\ phase' = "settle"
  /\ reached' = Most(reached, session + 1)
  /\ UNCHANGED <<world, book, bundles, todo, short, runs>>

Finish ==
  /\ phase = "done" /\ session = LAST
  /\ phase' = "over"
  /\ UNCHANGED <<world, book, bundles, session, todo, short, reached, runs>>

\* A crash, an exception or the end of a run, and then `run` once more.
RunAgain ==
  /\ runs < MAX_RUNS
  /\ runs' = runs + 1
  /\ session' = 0 /\ phase' = "fund" /\ todo' = {} /\ short' = NoShortfall
  /\ UNCHANGED <<world, book, bundles, reached>>

Step ==
  \/ FundBook \/ SettleOne \/ SettledAll \/ ApplyCorporateActions
  \/ FillOne \/ RaiseOverClose \/ FilledAll
  \/ Decide \/ LoadSealed \/ DecideMissing
  \/ PlaceOne \/ RejectShort \/ PlacedAll
  \/ NextSession \/ Finish

Next == Step \/ RunAgain

Spec == Init /\ [][Next]_vars

\* A process that is running keeps running.
FairSpec == Spec /\ WF_vars(Step)

-----------------------------------------------------------------------------
(* An uninterrupted run over the sealed decisions: what replay rebuilds.     *)

SettleAll(b, s) ==
  LET due == Cardinality(DueFills(b, s))
      settled[n \in 0..due] == IF n = 0 THEN b
                               ELSE LET now == settled[n - 1] IN Settle(now, NextFill(now, s))
  IN  settled[due]

FillAll(b, s) ==
  LET due == Cardinality(DueOrders(b, s))
      filled[n \in 0..due] == IF n = 0 THEN b
                              ELSE LET now == filled[n - 1]
                                   IN  Execute(now, FirstDue(DueOrders(now, s)), s)
  IN  filled[due]

PlaceIntent(b, intent, s) ==
  LET order == NewOrder(b, intent, s)
      placed == RecordOrder(b, order)
  IN  IF order.quantity > 0 THEN placed
      ELSE Reject(placed, OrderId(order), Shortfall(b, intent[2], s))

PlaceAll(b, s) == FoldSet(LAMBDA intent, acc : PlaceIntent(acc, intent, s), b,
                          IF bundles[s] = NotSealed THEN {} ELSE bundles[s])

Cycle(b, s) == PlaceAll(FillAll(ApplyActions(SettleAll(b, s), s), s), s)

\* The cycles of the sessions up to one, over a book that was funded.
CyclesThrough(b, last) ==
  LET cycled[n \in 0..last + 1] == IF n = 0 THEN b ELSE Cycle(cycled[n - 1], n - 1)
  IN  cycled[last + 1]

Rebuilt(through) == CyclesThrough(Fund(EmptyBook), through)

-----------------------------------------------------------------------------
TypeOK ==
  /\ world \in Worlds
  /\ \A order \in book.orders : order.quantity \in Nat /\ order.due > order.decided
  /\ \A fill \in book.fills : fill.gross \in Nat /\ fill.at \in Session
  /\ \A id \in book.settled : Filled(book, id)
  /\ bundles \in [Session -> Decisions \cup {NotSealed}]
  /\ session \in Session /\ phase \in Phase /\ reached \in session..LAST
  /\ todo \subseteq Instrument \X {"BUY", "SELL"} /\ runs \in 0..MAX_RUNS

\* The two halves of the books tell one story: what the ledger carries an
\* instrument at is what its open lots cost, after every fill, partial sale,
\* split and resumption.
PositionAccountMatchesLots ==
  \A i \in Instrument :
    Balance(book, Position(i), LAST) = CostBasis(Fold(book.lots[i]))

\* What the book owes and is owed is exactly its unsettled fills: no leg is
\* settled twice, lost, or settled for another amount than was booked.
LegsAreUnsettledFills ==
  LET Unsettled(side) == {fill \in book.fills : fill.side = side /\ fill.order \notin book.settled}
  IN  /\ Balance(book, Payable, LAST) =
           -SumFunction([fill \in Unsettled("BUY") |-> fill.gross + fill.fee])
      /\ Balance(book, Receivable, LAST) =
           SumFunction([fill \in Unsettled("SELL") |-> fill.gross - fill.fee])

\* The existence of rows is the order's only status: it never has two outcomes,
\* and has one once the session it was due in has been filled.
AnsweredOnce ==
  \A order \in book.orders :
    LET outcomes == Cardinality({fill \in book.fills : fill.order = OrderId(order)})
                      + Cardinality({r \in book.rejections : r.order = OrderId(order)})
    IN  /\ outcomes <= 1
        /\ phase \in {"decide", "place", "done"} /\ order.due <= session => outcomes = 1

\* experiments/driver.py: "buying on the ex-date does not earn the dividend".  A
\* dividend pays on what was held when the session before closed.
DividendsAreEntitled ==
  \A n \in DOMAIN world.actions : LET action == world.actions[n] IN
    \A paid \in book.ledger :
      paid.type = "CASH_DIVIDEND" /\ paid.ref = <<action.ref, action.instrument>>
        => Amount(paid, Cash) =
             action.amount * quantity_of(book.lots[action.instrument], action.at - 1)

\* A sale is sized when it is decided and filled later: it must still be covered
\* then, or the run cannot get past it.
NoOverClose == phase # "raised"

\* Whatever was interrupted and run again, the books are the ones an
\* uninterrupted run with the same decisions would have left.
ResumedBooksReplay ==
  phase = "done" /\ session = reached => book = Rebuilt(reached)

\* Every run that is left alone gets to the end of the study.
RunCompletes == <>(phase = "over")
=============================================================================
