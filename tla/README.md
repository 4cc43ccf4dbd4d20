# MarketLab in TLA+

MarketLab (`src/src/marketlab`) runs controlled experiments on model-driven
trading agents: synthetic market data is ingested and frozen into snapshots,
every condition of a study (an arm and a repetition) decides from the same
snapshot with the memory its arm grants, its orders are filled against the next
session's prices, and everything that happened is kept in immutable rows and a
hash-chained event log, so that a run that was interrupted can be run again and
a finished one can be replayed.

There are hardly any threads in this program. What is hard about it is the
sentence that `study/pipeline.py` rests on: *every step underneath is idempotent
on a derived identifier, so a resumed study continues rather than duplicating*.
A run may stop after any commit, always starts again from its first session, and
has no cursor: what is done is found out from the rows that exist. The project
models the state those rows make up, the commits as atomic steps, and asks of
every interleaving of stops, restarts, outages and concurrent sessions whether
the result is the one an uninterrupted run would have left.

Paths below are relative to `src/src/marketlab/`.

## Inventory

| Component | State | Operations | What makes it correct |
|---|---|---|---|
| Event log, `storage/events.py` | `events` rows keyed by `seq` | `append`, `verify_chain`, `events` | one chain, no gaps, no event twice, whoever races; an append returns |
| Sessions, `storage/database.py` | one SQLite file in WAL mode; a unit of work per process | begin on first read, flush, commit, rollback | rows and the event explaining them are one commit |
| Blobs, `storage/blobs.py` | content-addressed files and their metadata rows | `put`, `get` | whatever a snapshot holds goes back to one ingestion event |
| Ledger, `accounting/ledger.py`, `accounts.py` | balanced transactions, identified by what they say | `post`, `balance` as of an instant | posting again posts nothing |
| Positions, `accounting/positions.py` | `position_events`, folded into lots | `open_lot`, `close_quantity`, `apply_split`, `open_lots` | first in, first out; cost basis survives splits |
| Engine, `execution/engine.py`, `policy.py` | orders, fills, rejections, settlements | `fund`, `place_orders`, `execute_due`, `settle_due` | one outcome per order, one settlement per fill, no overdraft |
| Corporate actions, `execution/corporate.py` | claims | `apply_to_reference_data`, `apply_to_portfolio` | each action once per book, on what was held before the session |
| Driver and study, `experiments/driver.py`, `study/pipeline.py` | none of their own | `declare`, `ingest`, `run`, `resolve` | the order of the steps; a resumed run equals an uninterrupted one |
| Runner, `experiments/runner.py` | decision bundles | `run_cycle`, `load_execution` | every condition accounted for, decided once, failures observed |
| Materials, arms, ordering, `experiments/` | none | `materials_for`, `execution_order` | a condition sees its own history only |
| Memory, reflection, `memory/store.py`, `reflection/engine.py` | episodes and reflections, flushed | `record`, `recall`, `reflect` | strictly before the cycle, as an uninterrupted run would recall |
| Panel, `agents/panel.py`, `evaluation/panels.py` | panel bundles | `elicit`, `record` | asked with the material of the decision, exactly once |
| Decision agent, `agents/decision.py`, `retrieval/` | a budget, a turn counter, the failures observed | `decide`, `elicit`, the six tools | it ends and says how, never passes its allowance, keeps only what the snapshot can vouch for |
| Snapshots, instruments, ingestion, `snapshots/`, `instruments/`, `ingestion/` | snapshots, instrument versions, metadata, reference claims | `build`, `search`, `record_ticker_change`, `ingest_*` | a snapshot holds what was seen by its cutoff, for ever |
| Resolution, collection, `evaluation/` | forecast resolutions | `resolve`, `collect` | a terminal verdict stays the verdict as the record grows; nothing sealed is dropped |
| Pairing, `analysis/pairing.py` | none | `pair_scores` | arms are compared on the same questions and the same outcomes |
| Audit, `audit/` | daily roots, interventions | `seal`, `verify_all` | a sealed root fails exactly when its day gained an event |
| Study registry, `study/config.py` | registered configurations | `declare`, `load` | one configuration per study |
| Replay, `replay/verifier.py` | a second database | `verify` | rebuilds what the run recorded, interrupted or not |
| Synthetic market, `ingestion/synthetic.py` | none | `fetch_*` | the same records for the same session, in every run |
| Scoring, estimators, power, models, CLI, `core/` | none | pure functions | numerical; see *Not modelled* |

How they interact. `Study.run` funds every portfolio and then, for each session,
builds the snapshot, lets the driver *open the cycle* (settle, apply corporate
actions, fill, in that order and for each portfolio), has the runner *decide*
for every condition, *places* what was decided and *remembers* it. All of it
shares one database session. `EventStore.append` is called by every component
and is the commit: rows are added or flushed, and the event that narrates them
carries them along. When the event already exists nothing is committed, and the
rows wait for the next append. A provider that cannot be reached raises
`ModelProviderError` out of the agent.

The behaviours that are hard, each with its line, are the `hazards` of
`PROJECT.json`: a head of the chain that two sessions read at once; a rollback
inside `append`; the gap between sealing a decision and reporting its failures,
and between a decision and its panel; sizes computed when an order is placed and
used sessions later; entitlement read from a book that a stopped session has
already changed; memory that was flushed but not committed; a text column that
orders rows; a universe that changes as of the cutoff it was frozen at; records
first seen after the moment they are about; a pass over the forecasts that reads
at one moment and writes at a later one; a budget that is used up in the middle
of a response; and a model that may answer anything.

## Modules

| Module | Models | State | Composed with |
|---|---|---|---|
| `AppendOnlyLog` | what the event log promises: a sequence that grows by one new event at a time | `chain` | abstract specification of `EventLog` |
| `EventLog` | `storage/events.py` on sessions of `storage/database.py` | `log`, `table`, `version`, `session` | refines `AppendOnlyLog` |
| `EventLog_proofs` | the theorems about `EventLog` | | extends `EventLog`, `TLAPS` |
| `Tables` | an append-only table of `storage/database.py` as a function from keys to rows | | used by `CycleRunner`, `Snapshots` |
| `Sifting` | what a comprehension keeps of a list, in order | | used by `Positions`, `Retrieval` |
| `Positions` | `accounting/positions.py` as operators on a table of rows | | used by `PositionBook`, `Books` |
| `FifoLots` | what a position promises: a queue of parcels | `queue` | abstract specification of `PositionBook` |
| `PositionBook` | one position under the calls a run makes | `rows`, `held`, `now`, `filling`, `calls` | refines `FifoLots` |
| `PositionBook_proofs` | the theorems about `PositionBook`, and the lemmas about any table of `Positions` | | extends `PositionBook`, `Order_proofs` |
| `Books` | ledger, engine, policy and corporate actions of one portfolio as operators from a book to the book after one commit | `world` | used by `CycleDriver` |
| `CycleDriver` | `Study.run` and `experiments/driver.py` over one portfolio, with stops and reruns | `book`, `bundles`, `session`, `phase`, `todo`, `short`, `reached`, `runs` | extends `Books` |
| `CycleDriver_proofs` | the theorems about `CycleDriver` and `Replay` | | extends `Replay`, `Order_proofs`; instantiates `PositionBook_proofs` |
| `CycleRunner` | `experiments/runner.py` with materials, memory and reflection over all conditions | `chain`, `bundles`, `panels`, `memory`, `durable`, and where the process is | extends `Tables` |
| `CycleRunner_proofs` | the theorems about `CycleRunner` | | extends `CycleRunner`, `Order_proofs` |
| `Retrieval` | `retrieval/types.py`, `retrieval/tools.py`, `forecasting/panel.py` as operators on a frozen index | | used by `DecisionLoop` |
| `DecisionLoop` | `agents/decision.py`, `agents/panel.py`, `retrieval/budget.py`: one decision or panel of one condition | `task`, `phase`, `turn`, `calls`, `results`, `budget`, `failures`, `decision`, `outcome` | extends `Retrieval` |
| `DecisionLoop_proofs` | the theorems about `DecisionLoop` | | extends `DecisionLoop`, `Order_proofs` |
| `SyntheticMarket` | `ingestion/synthetic.py`: what every session offers | | used by `Snapshots` |
| `Snapshots` | ingestion, instruments, snapshot builder, reference data of corporate actions, daily roots, over the sessions of a study with stops and reruns | `blobs`, `metadata`, `versions`, `claims`, `snapshots`, `chain`, `roots`, and where the process is | extends `SyntheticMarket`, `Tables` |
| `Snapshots_proofs` | the theorems about `Snapshots` | | extends `Snapshots`, `Order_proofs` |
| `Resolution` | `evaluation/resolution.py`, `evaluation/collection.py`, `Study.resolve`, `analysis/pairing.py` beside a study that goes on | `world`, `snapshots`, `decisions`, `panels`, `verdicts`, `pass`, `report`, `passes` | |
| `Resolution_proofs` | the theorems about `Resolution` | | extends `Resolution`, `Order_proofs` |
| `Replay` | `replay/verifier.py` over any state of a run | `verdicts`, beside the variables of `CycleDriver` | extends `CycleDriver` |
| `Order_proofs` | lemmas on numbers, finite sets, sums, lists and folds | | used by the proofs |
| `MC*` | instances for TLC | | |

### EventLog

A writer is a database session. `Open` pins its snapshot, `Stage` adds a row
that its snapshot does not show, `Flush` takes the write lock, `CallAppend`
enters `EventStore.append`, whose loop is `ReturnExisting`, `ReadHead`, and then
one of `Commit`, `Retry`, `Exhaust`, `Locked`. `PlainCommit` is a commit without
an event, `Abandon` a rollback by the caller or a crash. A hash is modelled by
the history it commits to, which is exactly what a collision-free hash chain
distinguishes. `StaleWrite` chooses what a write on an overtaken snapshot meets:
`"constraint"` is what the comments of `database.py` describe, `"locked"` what
SQLite in WAL mode does (`SQLITE_BUSY`, an `OperationalError`). Both are checked.

### Positions and PositionBook

The table is the sequence its query returns, so that the order of rows is part
of the model: by instant, rank, and the *text* of the sequence column. A lot is
named by what made it. `held` caches what `open_lots` answers, which is the
refinement mapping to the queue of `FifoLots`. The calls follow the order that
`open_cycle` gives them: splits before fills in a session, and sales of at most
what was held before the session's purchases, because a sale was sized earlier.

### Books and CycleDriver

A book is a record of tables, as in the database: orders, fills, settlements,
rejections, ledger transactions, claims and position rows. Nothing has a status
column, here as there. Each operator of `Books` is one commit. `CycleDriver`
walks the phases of a session; the actions named `...One` are the bodies of the
engine's loops. `RunAgain` stands for a crash, an uncaught exception, or a
finished run, followed by `run` once more: the process variables are lost, the
book stays. `Rebuilt` computes what an uninterrupted run over the sealed
decisions leaves, the oracle of `ResumedBooksReplay`: its loops settle and fill as
often as something was due (`SettleAll`, `FillAll`), and a `Cycle` follows another
(`CyclesThrough`, which `Replay` uses as well).

### CycleRunner

Each condition of a cycle is `LoadSealed`, `DecideAndSeal` or `RecordMissing`;
then one `ObserveFailure` for every failure; then `ElicitPanel` or
`PanelOutage`. `memory` is what the session sees and `durable` what is
committed: `Emit` moves one to the other, and only when the event is new.
`Material` is computed as `GrantedMaterialsProvider` computes it, with genuine
and placebo grants. Contents of answers are abstract values.

### Retrieval and DecisionLoop

A decision and a panel go through the same loop; `task` tells them apart.
`Ask` is one turn, and its five disjuncts are the ways `decide` treats a
response: refused, both deciding and calling, deciding, empty, calling. A
response with calls is dispatched call by call: `RejectCall` is a schema failure
and the next call follows, `ExhaustBudget` drops the rest and ends the loop,
`AnswerCall` charges and hands over, `EscapeCall` is the exception that is
neither. `Judge` is `_validate` with, for a panel, the matching of answers to
questions. Length in characters stands for the serialised text, words for the
text a query is matched with. The arguments of a call fit, do not fit, or are
of the wrong type; the model may send any.

### SyntheticMarket and Snapshots

Cutoffs are even instants; a late item is seen at the odd instant after its
cutoff. Ingesting one record is three steps, `StoreNew`, `LogIngestion` and
`Describe`, because `put`, the event and the metadata row are three commits;
`StoreKnown` is the record that is found. `Freeze`, `ReturnFrozen` and
`RefuseDivergent` are the three ways out of `SnapshotBuilder.build`.
`ApplyChange` commits the claim with the new version, and `AnnounceChanges` is
the event after it: `Stop` between the two is what `unsaid` remembers. The rest
of a cycle is reduced to the events it dates, which is what a daily root covers.
`RecordStatus` and `Seal` are commands given by hand between two runs;
`record_status_change` has no caller in the repository, but is public.

### Resolution

The study and the resolver are two processes on one database. `StartResolve`
reads the grid and the sealed forecasts, `FinishResolve` writes: between the two
the study may freeze another snapshot or seal another answer. `through` is the
length of the grid that a `now` leaves. A return is kept as the two amounts it
is the ratio of. `Everything` is the record of the complete study, the oracle of
`VerdictIsFinal`; `ReturnIsHolders` computes the return a second way, as what a
holder of one unit gets day by day. `Paired` is the rule of `pair_scores`.

### Replay

`verify` reads the recorded run and writes to a database of its own, so for the
recorded run it is a function of the state: `Divergences` is its report.
`Recomputed` funds and then opens and places every recorded session in order,
with the operators of `Books` that the run used. `Resolve` adds verdicts at any
time.

## Runs

| Run | Properties | What it shows |
|---|---|---|
| `log` | `TypeOK`, `VerifyChain`, `NoEventTwice`, `RetriesHaveRivals`, `ImplementsLog`, `AppendReturns` | any interleaving of two sessions leaves a chain that verifies and a one-writer log; an event lands once, a retry always has a rival's commit behind it, and an append comes back |
| `book_fifo` | `TypeOK`, `ImplementsFifo`, `SplitKeepsCostBasis` | the rows implement a first-in first-out queue through splits and partial sales |
| `driver_sessions` | `TypeOK`, `PositionAccountMatchesLots`, `DividendsAreEntitled` | an uninterrupted run through dividends, splits, consolidations and thin markets |
| `driver_resume` | `LegsAreUnsettledFills`, `AnsweredOnce`, `ResumedBooksReplay`, `ReplayIsExact` | a run stopped after any commit, twice, ends with the books of one that was not, and a replay from its sealed decisions recomputes every order, fill, balance, position and verdict |
| `driver_completes` | `RunCompletes` | halts, dry markets, missing decisions and a restart do not keep a run from its end |
| `runner` | `TypeOK`, `MaterialIsReplayable`, `HolesAreFilled`, `EveryConditionAccounted`, `OneDecisionEach` | outages, agent failures, stops and reruns: nothing is silently absent, a finished run has no hole, the log tells of one decision of each condition, and while the provider answers a condition is asked with what an uninterrupted run would have given it |
| `decision` | `TypeOK`, `BudgetRespected`, `EndingExplained`, `OnlyFoundedClaims`, `PanelAccounted`, `NewsIsRecent`, `DecisionEnds` | whatever a model answers, the loop ends, says why it ended without a decision, stays within both caps, and keeps exactly what can be founded on the snapshot |
| `evidence` | `TypeOK`, `PointInTime`, `IngestionExplained`, `RefusedOnlyByOwnChange`, `ChangesAnnounced`, `SealedDaysHold` | stops between any two commits of ingestion, freezing and reference data leave every snapshot point-in-time and explained; one cause makes a rerun refuse, one makes an announcement missing, one makes a sealed day diverge |
| `resolution` | `TypeOK`, `VerdictIsFinal`, `ReturnIsHolders`, `NothingIsLost`, `ComparisonIsSound` | passes given at any time, and for an earlier time, write what the complete record says; splits, dividends and late evidence are counted as a holder would; arms with equal answers are compared on all of them |
| `driver_overclose`, `evidence_rebuild`, `resolution_horizon` | one each | see *What the code does otherwise* |

Bounds. Two sessions are enough for the log: the interesting conflicts are
between one that reads and one that commits, and the properties constrain pairs
of entries; two events let both append the same one, and two bodies under one
key let business rows clash as two rejections of one order do. Three purchases,
two splits and two sales over three instants contain every order of a split
between partial sales. Quantities and costs are whole, where the code has
decimals: `Divides` keeps `PositionBook` to the splits that leave whole units at
whole costs, and the worlds of `CycleDriver` are chosen so that theirs do. Four or
five sessions are enough for a decision to be placed, filled a session later, settled one or two after that, and be overtaken
by a split or a dividend in between. Two reruns let a rerun be interrupted in
turn. Two conditions of opposite grants rotate through both orders; three cycles
with a reflection interval of two and a recall limit of one make a reflection
that is recalled and an episode that no longer is. Markets are small worlds of
even prices in which a bar is halted, thin or dry in one session, and in one of which
a dividend and a split fall on the same session.

`decision` has two turns of up to two calls, a budget of two calls and three
characters, and an index of four pieces over two instruments of which one is
suspended: each cap can be the one that is passed, by the first call or the
second, and by a call that would have fitted alone. Its model answers anything
that can be made of seven calls, five forecasts and two intents. `evidence` has
three sessions, so that the one with the ticker change has one before it and one
after it, two runs, and one status change; the late item is offered in the
first. `resolution` asks in the second of four sessions, so that there is a
record before the anchor and one beyond the target; two arms of two repetitions,
of which three are sealed, make equal and unequal numbers of answers; in one world a
dividend and a split fall on the same session; two passes
let the second meet the rows of the first. The horizon of a replayed verdict is
one session: some have elapsed and some have not when a run stops. The numbers of
runs, passes, outages and status changes are bounds of the models; everything
else a run could repeat is bounded by the code.

Deadlock is checked in the runs of `EventLog`, `DecisionLoop` and `Snapshots`,
whose ends are actions of their own. The other specifications stop: a book whose
calls are used up, a study that is over.

### What the code does otherwise

`findings` in `PROJECT.json` quotes for each the sentence of the repository that
the behaviour contradicts. Three are runs of the project; the others have a
configuration beside the modules that shows them, as in
`tlc -config MCEventLog_rows.cfg MCEventLog`.

| Configuration | The counterexample |
|---|---|
| `driver_overclose` (a run) | a consolidation between the sizing and the filling of a sale makes it larger than the position; the run cannot get past it |
| `evidence_rebuild` (a run) | a study run again builds the snapshot of the session with the ticker change, finds the new ticker in its universe and is refused as divergent, so no rerun gets past it |
| `resolution_horizon` (a run) | a decision whose forecast has a horizon of zero is sealed, and every later resolve pass raises on it |
| `MCEventLog_rows.cfg` | an order that was rejected is rejected again for another reason; the clash of the two rows rolls back the second and the retried append commits its event without it |
| `MCPositionBook_eleven.cfg` | with eleven lots, a split orders lot 10 between lots 1 and 2 |
| `MCCycleDriver_bonus.cfg` | a session stopped after its fills applies its unclaimed dividend again, now to what it has just bought |
| `MCCycleRunner_observed.cfg` | failures between the sealing and the reporting commit are never reported |
| `MCCycleRunner_treatment.cfg` | after an outage, a panel filled in by a rerun is asked with memory its decision did not have |
| `MCDecisionLoop_escape.cfg` | a search whose query is no string fails in `strip` and leaves the loop as an exception |
| `MCReplay_honest.cfg` | verdicts of a pass in the middle of the study make the replay of the finished study diverge |

Further behaviour of this kind is in the models but has no configuration of its
own:

- `storage/database.py:30-34` says the loser of a race for the head meets the
  primary key and retries; SQLite in WAL mode refuses it as locked, which
  `append` does not catch. `StaleWrite` admits both.
- `driver_resume` settles a session after the fill. With settlement in the same
  session (`SettleAfter <- AtOnce`) a run stopped between two placements sizes
  the remaining orders on other cash, and `ResumedBooksReplay` fails.
- With `ProviderFails = TRUE` and a rerun, a decision that was missing is made
  later; a filled order of a later session may then be placed again, sized to
  zero and rejected as well, and `AnsweredOnce` fails.
- Two purchases decided together are each sized on all the cash and overdraw it.
- A condition reported missing is asked again by the next run and then has a
  bundle too, which `docs/FAILURE_POLICY.md:58-60` excludes.
  The event of that decision reopens a day that was sealed (`SealedDaysHold`
  says that nothing else of a rerun does), and with `ProviderFails = TRUE` the
  books of a run that filled such a hole are not those a replay computes.
- A stop between a ticker change and its announcement is not made good by any
  later run (`unsaid` in `ChangesAnnounced`).
- A corporate action first seen after the session it takes effect in is neither
  applied nor resolved: books, reference data and grid all take only what is
  dated at the cutoff of the snapshot that first shows it.
- Of a dividend and a split of one session, resolution takes the dividend first;
  the books take them in the order of their evidence ids.
- `Study.resolve` on a study without snapshots reports a clean zero where its
  docstring has it raise; for an instant before the anchor of a sealed forecast
  it raises (`ResolveRaises`).
- A replay compares net quantities: rejections, lots and cost basis that differ
  go unnoticed, against `docs/REPRODUCIBILITY.md:84-87`.
- An outage during a panel is not caught by `_run_unit` (`PanelOutage`): it ends
  the run instead of costing one condition (`docs/FAILURE_POLICY.md:167`).

## Fairness

`EventLog!FairSpec` is weakly fair to every writer's steps inside `append` and to
nothing else: the loop is ordinary code that keeps executing once entered, and
the environment may or may not go on. `CycleDriver!FairSpec` is weakly fair to
the steps of the running process and not to `RunAgain`: a process that is not
stopped gets to the next commit, and nobody is obliged to restart one.
`DecisionLoop!FairSpec` is weakly fair to the loop as a whole, not to any one
way it may go: the provider answers or raises, and the code after it runs. No
action is assumed strongly fair.

## Proofs

Hardly any of the properties is inductive as it stands. Each proof module states the
strengthening it needs, proves it step by step (one step per action, and under it
one per conjunct the action can disturb), and ends in the temporal theorems. All
assumptions are the named `ASSUME`s of the modules, which TLC evaluates in every
run; they say what the configuration of a study and the types of the code admit
(whole bounds, lists that are lists, distinct identifiers) and nothing about
behaviour.

| Module | Theorems (with the property each states) |
|---|---|
| `EventLog_proofs` | `TypeCorrect` (`TypeOK`), `ChainVerifies` (`VerifyChain`), `EventsAreUnique` (`NoEventTwice`), `RetriesAlwaysHaveRivals` (`RetriesHaveRivals`), `Implements` (`ImplementsLog`) |
| `PositionBook_proofs` | `StaysKept` (the inductive invariant), `TypesKept` (`TypeOK`), `SplitsKeepCost` (`SplitKeepsCostBasis`), `QueueUpToTen` (`ImplementsFifo` while no more than ten lots are open), `TenPurchases` (`ImplementsFifo` up to ten purchases) |
| `CycleDriver_proofs` | `ShapesHold` (`TypeOK`), `LegsAlwaysUnsettledFills` (`LegsAreUnsettledFills`), `DueOrdersAreAnswered` (`NoneIsPassedOver`, half of `AnsweredOnce`), `FirstRunAnswersOnce` (`AnsweredOnce` until the first rerun), `PositionsMatchLots` (`PositionAccountMatchesLots` until then, where splits come out even), `DividendsPayHolders` (`DividendsAreEntitled` until then), `ResumedRunsReplay` and `QuietRunsReplay` (`ResumedBooksReplay`), `RerunsWriteNothing`, `ReplaysAreExact` (`ReplayIsExact`) |
| `CycleRunner_proofs` | `TypeCorrect` (`TypeOK`), `AlwaysAccounted` (`EveryConditionAccounted`), `HolesAlwaysFilled` (`HolesAreFilled`), `MaterialAlwaysReplayable` (`MaterialIsReplayable`), `OneDecisionForEach` (`OneDecisionEach`) |
| `DecisionLoop_proofs` | `ShapesHold` (`TypeOK`), `BudgetAlwaysRespected` (`BudgetRespected`), `EndingsAreExplained` (`EndingExplained`), `ClaimsAreFounded` (`OnlyFoundedClaims`), `PanelsAreAccounted` (`PanelAccounted`), `NewsIsAlwaysRecent` (`NewsIsRecent`) |
| `Snapshots_proofs` | `ShapesHold` (`TypeOK`), `SnapshotsArePointInTime` (`PointInTime`), `IngestionAlwaysExplained` (`IngestionExplained`), `OnlyTheChangeDiverges` (`RefusedOnlyByOwnChange`), `ChangesAlwaysAnnounced` (`ChangesAnnounced`), `SealedDaysAlwaysHold` (`SealedDaysHold`) |
| `Resolution_proofs` | `ShapesHold` (`TypeOK`), `VerdictsAreFinal` (`VerdictIsFinal`), `NothingIsEverLost` (`NothingIsLost`), `ArmsAlwaysAgree` (`ArmsAgree`), `ComparisonsAreSound` (`ComparisonIsSound`), `ReturnsAreHolders` (`ReturnIsHolders`) |

**The log**, for any sets of writers, events and rows, any `APPEND_ATTEMPTS` above
zero and both values of `StaleWrite`. `VerifyChain` alone is not inductive: an
append writes the successor of the head it *read*, so the proof must know what a
session may have read. `IInv` adds `SessionsFit`: what a session has seen is a
prefix of the log, of the length it recorded. From it, a commit that violates no
key has seen all of the log (otherwise its sequence number is taken), so its entry
names the last entry's history, and its event is not there. `Implements` maps the
log to the sequence of its identifiers. That a retry has a rival needs
`RivalsInv`: an append about to read has been sent round at most once per commit of
another session, one less while it has not met the newest of them, and once more
while rows of its own are pending, which is at the first attempt only.
Assumptions: `StaleWriteAssumption`, `AttemptsAssumption`, `NoneAssumption`.

**A position**, for any quantities, costs, split ratios and bounds. What a table
means is a fold over its rows, and its operations insert rows in the middle of the
order that the fold goes through. The fold is first said without a fold: it leaves
one lot for each row that is the first of its lot (`Leads`) and whose lot has units
left (`Live`), in the order of those rows, with the sum of the lot's deltas
(`Units`) as its quantity (`FoldPictured`). What they cost together is a sum over
all rows (`Worth`). Sums do not care where a row was put (`Puts`), and where a first
row is put decides the order of the lots. From this follow, for any table in which
each lot has one cost and none is short of units (`Whole`), what `open_lot`,
`close_quantity` and `apply_split` do to the lots: one more at the end, the front
taken away, the same lots re-denominated. `Kept` is the invariant: the table is
`Whole`, its rows are of the past (`Dated`), and no reference in it is one still to
be given (`Fresh`), so that a purchase or a split opens lots that are not there.

The re-denominated lots stay in their order only because their sequence numbers,
compared as text, follow their numbers. `Narrow` says so of a table: its numbers are
single digits. A table stays narrow while a split finds ten lots at most, which
is the hypothesis of `QueueUpToTen` and what `TenPurchases` guarantees by counting;
with eleven the code does otherwise (`MCPositionBook_eleven.cfg`), so neither
theorem can do without its bound. The costs of a split need no such bound.
Assumptions: `BoundsAssumption`, `TradesAssumption`.

**The books of a run**, for any worlds of quotes and actions, windows, settlement
delays, fees, decisions, and any number of stops and reruns. The payable of a book is
a sum over its ledger, and the unsettled fills are a sum over another table; that
they are equal is `LegsFit`, and it is preserved only because every posting is new
when it is made. `Sound` says why: a row of a fill in the ledger has its fill, a row
of a settlement is of a fill that is settled, fills are one per order, orders fall
due after they are decided (`OrdersFit`, `FillsFit`, `LedgerFits`, `LotsFit`).
Dividends and splits leave both legs alone, purchases and sales add to one what they
add to the unsettled fills, a settlement removes one fill from both. `Answers` is
about outcomes: past the filling of a session every order due by then has one, in
every run (`NoneIsPassedOver`). That it has *only* one holds until the process is
started again (`FirstRun`: what is filled was decided before this session, and what
is turned down in this one); in reruns it is not a theorem, as the counterexample
under *What the code does otherwise* shows, and `driver_resume` checks it where the
provider answers. Assumptions: `PolicyAssumption`, `RunAssumption`,
`WorldsAssumption`.

The ledger's account of a position and the lots of its table are kept by different
code from the same fills. `Accounted` relates them for every instrument: the rows of
the table are those of purchases, sales and claimed splits the book knows, each named
by what made it (`Traced`), and the account's balance is what the lots cost. A
purchase adds its gross amount to both; a sale takes out of the ledger the cost of
just the lots that `close_quantity` takes from the front of the queue; a split, a
dividend, a settlement or the funding touches neither. `Traced` is what makes the next row
of any of these the first with its reference, and it is `Sound` that tells that no
fill is booked twice. The hypothesis of `PositionsMatchLots` is `ExactSplits`: where a
session applies a split, its lots come to whole units at whole costs, which the model
needs because its money is whole. The theorem is about the first run: in a rerun the
rows of later sessions are there already, and an operation of an earlier one would
put its rows between them.

That a dividend is paid on what was held when the session before closed needs, beside
`Sound`, that the rows a session adds are of its own instant, so that no
`quantity_of` before it changes again (`Entitled`), and that until the session's
first split of an instrument, no row of that instrument is of the session
(`Untouched`, which is true because corporate actions come before fills). The
hypotheses of `DividendsPayHolders` are about the evidence of a world: actions have
ids of their own (`OwnRefs`), as evidence has, and a dividend does not come behind a
split of the same instrument and session (`DividendsFirst`). The second is not a
matter of course. The books apply the actions of a session in the order of their
evidence ids, and TLC finds `DividendsAreEntitled` violated as soon as a world has the
two the other way round: the dividend per old share is then paid on new shares.

**A run that is started again**, for any number of stops, anywhere. Three facts
about a state make `Resumed`, beside `Sound`. `Passed`: a session before the furthest
one is over, that is, nothing in it is due to settle or to fill, its actions are
claimed and its intents are placed or turned down (`Over`). `Stage`: how much of this
is so in the session the process is at. `Same`: the cycle of the furthest session,
applied to the funded book as it is now, leaves what an uninterrupted run leaves.
That `Over` survives later sessions is because they only add rows of their own
(`Grows`): orders that are due later, fills that settle later, ledger entries and
position rows of their own instant, so that what an order of an earlier session was
sized on (`SizedBefore`) and what it was held against does not change. `Same` survives
the steps of the furthest session because each does first what the rest of the cycle
would do at some time: one turn of the settling or filling loop may be taken before
the loop (`SettlesOne`, `FillsOne`, from `LoopedFirst`), actions that are claimed are
not applied again (`NothingToApply`), and the intents of a decision add the same rows
in any order, since none of them moves what the others are sized on (`PlaceAllIs`,
`PlacedOne`, `RejectedOne`). A decision that is sealed changes the oracle of its own
session only (`SameBefore`). Where a session is done its cycle does nothing more
(`CycleOver`), and `Same` says that the book is the oracle. Once that is known, a
replay starts from the same funding (`ReplayFundingIs`), comes to the same book
(`ReplayedIs`), and every comparison is of a set with itself.

Four hypotheses; without any one of them TLC has a counterexample.
`SettlesLater`: settlement in the session of the fill lets a rerun settle before
it sizes. `ProviderFails = FALSE`: a decision that was missing is made in a
rerun, beside orders of later sessions. `EveryActionApplies`: an action on a
position that is not held leaves no claim, and a rerun applies it to what the
session has bought since, which is the finding about `DividendsAreEntitled`; TLC
finds the invariant of these theorems kept in the worlds of `EventfulWorlds` as
long as this holds. It is a hypothesis on the run rather than on the world,
since what is held is decided by the model; `QuietRunsReplay` is the instance in
which it is a fact. `CAPITAL > 0`, for `ReplaysAreExact` only: a replay does not
carry over an opening balance of nothing, and `study/config.py` asks for capital
but not for how much.

**The runner**, for any conditions, grants, answers and bounds. `RunnerInv` adds

- `PassFits`: every unit behind the turn counter is sealed or missing, and the
  missing ones are reported. With it, `CompleteCycle` accounts for every
  condition, because the rotating order reaches each (`EveryUnitHasItsTurn`,
  which rests on the arithmetic of `OneRemainder`);
- `PanelsFollow`: a decision without panel is the one at hand or one the pass has
  not come to yet; earlier cycles have none, because a run always starts from its
  first cycle. With it, a run that is over has none;
- `StoresFit`: the chain is a sequence and the memories are records.

`EmitExtends` is the lemma about `EventStore.append` that all of them cite.
`OneDecisionForEach` rests on `_run_unit` looking for a sealed decision before it
asks: a second answer would not replace the row, but its failures would be observed
under the first one's name. `LogSaysWhatIsSealed` says that a cell is sealed exactly
when the log says so, and that no more failures are owed than the sealed decision
has; both fail when the check is dropped. For
`MaterialAlwaysReplayable` the oracle is `Ideal`, what a run that was never stopped
would recall: the window of the last `RECALL_LIMIT` cycles and the newest reflection
due by then. `MemoryIsWhole` says that while the provider answered, what an
interrupted run remembers of the cycles behind it is all of that, and whatever it
remembers beyond, of cycles an earlier run had got to, is what this one will come to
itself. `RecallIsWindow` then shows that a recall with its limit takes the window,
by counting the cycles after each. Assumption: `RunnerAssumption`.

**The decision loop**, for any index, any set of responses and any caps. For the
budget, that one result more adds its cost needs the set of all handed-over
characters to be finite, and the calls still to be dispatched to be those of a
response (`LoopInv`). The failures of a decision are one list in which turns, the
ending, the judgement and the panel write one after another; `Observed` says what
may stand in it before anything is judged, and `Reported` how it is then divided, so
that the endings are counted in the first part, the blames in the second and the
missing questions in the third (`JudgeReports`). Assumptions: `RetrievalAssumption`
(an index in order of time, instruments with distinct identifiers),
`DecisionAssumption` (responses are lists; a panel asks about each horizon once).

**The evidence**, for any schedule of the market's events and any number of
sessions, runs and status changes. `ChangesAnnounced` needs `EvidenceInv`:

- `VersionsFit`: an instrument that was admitted has a version, and from the first
  session's ingestion on both are admitted;
- `EvidenceFits`: a ticker change that is a candidate, or in the evidence of a
  snapshot, is the one the feed scripts (`FeedIsSound`), and reference data are
  applied from a snapshot that was frozen;
- `ClaimsFit`: what is applied is claimed, and is neither announced nor unsaid; it
  is only held between the change and its event; and whoever was renamed has a
  claim. A rerun finds the claim and changes nothing, so a change that a stop
  kept from being announced stays unsaid, which is what `ChangesAnnounced` allows.

`RebuildInv` is the invariant of everything that is ingested and frozen.
`IngestionFits` and `ChainFits` follow a process through its feed: what it has been
offered is described, what is described is logged, what is logged is stored, and
nothing is logged before all that came earlier is described, so that one record at
most is without its row whatever was stopped. `SnapshotsFit` says that sessions are
frozen in order with what was seen by their cutoff, and `HistoryFits` that each
version is later than all that is frozen, except the one of the ticker change, which
is dated at its own cutoff: with it every universe is found again but that one
(`OnlyTheChangeDiverges`). For the roots, `SealInv` adds that a day gains nothing
after its outcome but what a decision that had been missing brings (`ClosedDays`),
and that a root is what the chain said when it was sealed (`RootsFit`).
Assumptions: `SnapshotsAssumption`, `MarketAssumption`.

**The resolver**, for any worlds, sessions, answers, arms and passes. A verdict does
not say what it was read from, so `ResolutionInv` adds that the snapshots are the
first ones of the world and that a pass reads no further than there are. The heart
is `VerdictEarly`: a forecast whose target has been reached gets from a beginning of
the record what the whole record gives, because prices, events and statuses are
looked up session by session and in none beyond the target. `RecordInv` adds what a
pass collects: each sealed bundle in full or not at all (`IsCollection`), and all
that has a verdict already (`Covers`), since nothing sealed is ever withdrawn. With
it a question the arms answered equally often is scored with all its answers: they
became due together, so either all of them are resolved or none. Assumption:
`ResolutionAssumption` (finitely many arms; a panel answers each question once).

For `ReturnsAreHolders` two ways to a return are compared: the code's, which goes
through the events and changes units and cash as it meets them, and the holder's,
which multiplies the ratios of the splits up to a day (`UnitsOf`) and adds up what the
dividends pay on them (`PaidIn`). `UnitsAre` says that a product does not depend on
the order of its factors, `PaidIs` that what is paid is a sum, and `LastAccrues` is
the induction step: the last event, if it is a split, multiplies the units and leaves
what all dividends so far were paid on; if it is a dividend, all the splits so far are
of earlier sessions. The second is where the order of two events of one instant
matters, and only there. `EvidenceAssumption` says that evidence is finite and whole;
the hypothesis of the theorem, that a session has one close of an instrument
(`OneClose`), is what makes "the close" one number.

**Support.** `Order_proofs` holds what the other modules keep needing. An induction
over the numbers, over finite sets or over lists is stated there as a first-order
fact about a *set* that contains what it starts from and is closed under its step
(`Induct`, `FiniteInduct`, `ListInduct`), so that it can be cited; `FiniteRecursion`
is the same for definitions, that a recursion which takes a finite set apart has a
solution. From these come the
least element of a set of numbers, sums over a finite function (`Sums`, `SumsNat`),
the elements of a flattened list (`FlattenSays`) and of a sifted one (`ChosenIs`,
`ChosenSays`). A fold over a list takes an operation as its parameter, so its step is
made a function: `Folded` is the value of the run of such a function through the list
(`FoldedIs`), and the recursion by which `FoldLeft` is defined comes to that value
(`Iterated`). The models use operators these facts speak of: `Sift` of `Sifting` is
`SelectSeq` said without recursion, sums are `SumFunction`, and the legs of a
transaction are a set of postings.

### What is only model-checked

- Liveness, which no installed prover can do under fairness: `AppendReturns`,
  `RunCompletes`, `DecisionEnds`.
- `PositionAccountMatchesLots`, `DividendsAreEntitled` and `AnsweredOnce` in reruns.
  The last two do not hold there for every instance, see *What the code does
  otherwise*; the first would need what an operation does to a table that has rows of
  later instants.
- `ImplementsFifo` with more than ten lots, which is false.
- `ResumedBooksReplay` and `ReplayIsExact` are proved under the hypotheses above and
  are false without them; `driver_resume` is an instance of them.

## Plan

Done, each described above: `EventLog` with its abstract specification;
`Positions`, `FifoLots`, `PositionBook`; `Books` and `CycleDriver` for one
portfolio in one currency; `CycleRunner` with memory and reflection; `Retrieval`
and `DecisionLoop`; `SyntheticMarket` and `Snapshots` with daily roots;
`Resolution` with pairing; `Replay`; and the theorems of *Proofs*.

Left, in this order:

1. Currencies: FX clearing in the ledger, conversion in the valuation.
2. The execution window of a calendar against a reference definition; Holm's
   step-down.
3. The study registry, and a database that holds two studies: they share
   instruments and the claims of reference data, so one study's ticker change is
   the other's.
4. Proofs: `PositionAccountMatchesLots`, `DividendsAreEntitled` and `AnsweredOnce` in
   reruns, now that `RerunsWriteNothing` leaves only the furthest session to argue
   about.

## Not modelled, and why

Estimators, power and scoring (`analysis/`, `power/`, `evaluation/scoring.py`)
are floating-point numerics without state; of `analysis/` only the pairing is
here. Of the synthetic market the schedule of records is modelled and the seeded
prices are not. `models/` is the boundary to a provider, which may answer
anything or nothing. Rendering, canonical JSON, hashing and the command line are
data formats; identities derived from content are modelled as the content. Money
is whole and in one currency, so rounding and FX clearing are out. Calendars are
date arithmetic, of which the models take the resulting window as a constant. The
study registry is one row per study, written once and compared with a
fingerprint. Rows of mapped tables are taken as immutable, which
`storage/database.py` enforces with triggers. The remaining parts are listed in
`PROJECT.json` with their status.
