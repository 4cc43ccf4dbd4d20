-------------------------------- MODULE Replay --------------------------------
(***************************************************************************)
(* replay/verifier.py over the run of CycleDriver, and the verdicts that   *)
(* Study.resolve records beside it.                                        *)
(*                                                                         *)
(* verify() reads the recorded database in one transaction and writes to   *)
(* another one only, so it changes nothing here: what it would report at   *)
(* any moment is a function of the state.  A decision carries one forecast *)
(* HORIZON sessions ahead; Resolution says what its verdict is, here it    *)
(* matters only whether it is there.                                       *)
(***************************************************************************)
EXTENDS CycleDriver

CONSTANT HORIZON

ASSUME HorizonAssumption == HORIZON \in Nat \ {0}

VARIABLE verdicts     (* sessions whose forecast has a recorded verdict      *)

replayVars == <<vars, verdicts>>

-----------------------------------------------------------------------------
(* Study.resolve, a command that may be given at any time. *)

Cycles == IF book = EmptyBook THEN {} ELSE 0..reached
SealedCycles == {s \in Cycles : bundles[s] # NotSealed}
Elapsed == {s \in SealedCycles : s + HORIZON \in Cycles}

Resolve ==
  /\ Cycles # {}
  /\ verdicts' = verdicts \cup Elapsed
  /\ UNCHANGED vars

ReplayInit == Init /\ verdicts = {}
ReplayNext == (Next /\ UNCHANGED verdicts) \/ Resolve
ReplaySpec == ReplayInit /\ [][ReplayNext]_replayVars

-----------------------------------------------------------------------------
(* The replayed database.  What is carried across: funding and what the      *)
(* model said.  The rest is computed again.                                  *)

\* _replay_funding: the recorded opening balances are posted again.
ReplayFunding ==
  [EmptyBook EXCEPT !.ledger =
     {Transaction(opening.type, opening.at, opening.ref,
                  {Posting(Cash, Amount(opening, Cash)),
                   Posting(OpeningEquity, -Amount(opening, Cash))})
        : opening \in {entry \in book.ledger : entry.type = "OPENING_BALANCE"
                                              /\ Amount(entry, Cash) > 0}}]

\* open_cycle and place over every recorded snapshot, in the order of cutoffs.
Recomputed == CyclesThrough(ReplayFunding, Cardinality(Cycles) - 1)

ReplayedVerdictsAlways == Elapsed
\* _replay_resolutions: skipped when the recorded run resolved nothing.
ReplayedVerdicts == IF verdicts = {} THEN {} ELSE Elapsed

-----------------------------------------------------------------------------
(* What is compared, by key and field; a difference in either set diverges.  *)

Differ(kind, recorded, recomputed) ==
  {kind} \X ((recorded \ recomputed) \cup (recomputed \ recorded))

\* execute_after is the order's due session here, like decided in whole sessions.
OrderRows(rows) == {<<OrderId(order), order.quantity, order.due>> : order \in rows.orders}
FillRows(rows) == {<<fill.order, fill.gross, fill.fee, fill.at, fill.settles>> : fill \in rows.fills}

Accounts(rows) == UNION {{leg.account : leg \in entry.postings} : entry \in rows.ledger}
LedgerTotals(rows) ==
  {<<account, MapThenSumSet(LAMBDA entry : Amount(entry, account), rows.ledger)>>
     : account \in Accounts(rows)}

PositionTotals(rows) ==
  {<<i, quantity_of(rows.lots[i], LAST)>> : i \in {j \in Instrument : rows.lots[j] # << >>}}

Divergences ==
  LET copy == Recomputed IN
       Differ("ORDER", OrderRows(book), OrderRows(copy))
  \cup Differ("FILL", FillRows(book), FillRows(copy))
  \cup Differ("LEDGER", LedgerTotals(book), LedgerTotals(copy))
  \cup Differ("POSITION", PositionTotals(book), PositionTotals(copy))
  \cup Differ("RESOLUTION", verdicts, ReplayedVerdicts)

\* An empty source is an error, not an exact replay.
IsExact == SealedCycles # {} /\ Divergences = {}

-----------------------------------------------------------------------------
BetweenCycles == phase \in {"done", "over"} /\ session = reached

\* However often the run was stopped, and wherever, a replay started between two
\* of its cycles, or after the last, finds every order, fill, balance, position
\* and verdict as it was recorded; provided the verdicts are those of a pass that
\* nothing has been added to since.
ReplayIsExact ==
  BetweenCycles /\ SealedCycles # {} /\ verdicts \in {{}, Elapsed} => IsExact

\* docs/REPRODUCIBILITY.md: "given what the model said, everything else is
\* reproducible", and any divergence means that it was not.
HonestRunsReplay ==
  phase = "over" /\ session = reached => IsExact
=============================================================================
