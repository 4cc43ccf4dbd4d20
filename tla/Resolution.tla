------------------------------ MODULE Resolution ------------------------------
(***************************************************************************)
(* What became of the forecasts of a study: evaluation/resolution.py and   *)
(* evaluation/collection.py over the snapshots, decisions and panels of    *)
(* Study.run, and the pairing of analysis/pairing.py over what they        *)
(* recorded.                                                               *)
(*                                                                         *)
(* The study freezes its snapshots in order and seals an answer per        *)
(* condition, some of them only when it is run again.  Study.resolve is a  *)
(* command of its own: it reads the frozen record and the sealed           *)
(* forecasts at one moment and writes its verdicts at a later one, and may *)
(* be called whenever, also for an earlier instant, and may stop.          *)
(*                                                                         *)
(* Sessions are numbered from 1; prices, ratios and amounts are whole.     *)
(***************************************************************************)
EXTENDS Integers, SequencesExt

CONSTANTS
  Instrument,
  Arm,
  Repetition,
  LAST,             (* bound: sessions of the study                          *)
  Asked,            (* bound: sessions whose cycle asks the conditions       *)
  MAX_SEALED,       (* bound: conditions that ever get to answer             *)
  MAX_PASSES,       (* bound: calls of Study.resolve                         *)
  Worlds,           (* what providers publish: evidence and statuses         *)
  Opinions,         (* what a decision may forecast: sequences               *)
  Answers           (* what a panel may answer: sets                         *)

ASSUME ResolutionAssumption ==
  /\ LAST \in Nat /\ Asked \subseteq 1..LAST
  /\ MAX_SEALED \in Nat /\ MAX_PASSES \in Nat
  /\ \A opinion \in Opinions : opinion \in Seq(UNION {ToSet(o) : o \in Opinions})
  /\ IsFiniteSet(Arm)
  /\ \A answers \in Answers :      (* a panel answers each of its questions once *)
       /\ IsFiniteSet(answers)
       /\ \A x, y \in answers : x.instrument = y.instrument /\ x.horizon = y.horizon => x = y

ASSUME EvidenceAssumption ==
  \A w \in Worlds :
    /\ IsFiniteSet(w.evidence)
    /\ \A item \in w.evidence : /\ item.kind \in {"PRICE_BAR", "CASH_DIVIDEND", "STOCK_SPLIT"}
                                /\ item.at \in Int /\ item.value \in Int

VARIABLES
  world,
  snapshots,    (* snapshot rows, in the order of their cutoffs              *)
  decisions,    (* decision bundles                                          *)
  panels,       (* panel bundles                                             *)
  verdicts,     (* forecast_resolutions                                      *)
  pass,         (* what the running Study.resolve has read, or Idle          *)
  report,       (* the last ResolutionReport, or None                        *)
  passes        (* how often Study.resolve was called                        *)

study == <<world, snapshots, decisions, panels>>
vars == <<study, verdicts, pass, report, passes>>

Session == 1..LAST
Unit == [cycle : Asked, arm : Arm, repetition : Repetition]
Idle == <<>>
None == <<>>

-----------------------------------------------------------------------------
(* MarketRecord: a record is the sequence of the snapshots frozen so far.    *)

\* A snapshot is cumulative: what was visible by its cutoff, however old.
Snapshot(s) == [universe |-> world.statuses[s],
                evidence |-> {item \in world.evidence : item.seen <= s}]

\* _collect takes only what is dated at the snapshot's own cutoff.
Collected(record, s, instrument) ==
  {item \in record[s].evidence : item.at = s /\ item.about = instrument}

Closes(record, s, instrument) ==
  {bar.value : bar \in {item \in Collected(record, s, instrument) : item.kind = "PRICE_BAR"}}

EventsFromAnchor(record, instrument, anchor, target) ==
  UNION {{item \in Collected(record, s, instrument) : item.kind # "PRICE_BAR"} : s \in anchor..target}
EventsToDate(record, instrument, anchor, target) ==
  UNION {{item \in Collected(record, s, instrument) : item.kind # "PRICE_BAR"}
           : s \in (anchor + 1)..Len(record)}
\* events_between: the half-open interval after the anchor, through the target.
EventsBetween(record, instrument, anchor, target) ==
  UNION {{item \in Collected(record, s, instrument) : item.kind # "PRICE_BAR"}
           : s \in (anchor + 1)..target}

\* Sorted by instant and then kind, so that a dividend precedes a split that
\* takes effect with it.
NotAfter(event, other) ==
  \/ event.at < other.at
  \/ event.at = other.at /\ (event.kind = "CASH_DIVIDEND" \/ other.kind = "STOCK_SPLIT")
Latest(events) == CHOOSE event \in events : \A other \in events : NotAfter(other, event)

-----------------------------------------------------------------------------
(* resolve_forecast *)

Target(forecast) == forecast.anchor + forecast.horizon
Raises(record, forecast) == forecast.horizon < 1 \/ forecast.anchor \notin DOMAIN record
Pending(record, forecast) == Target(forecast) \notin DOMAIN record

Censored(record, s, instrument) ==
  /\ instrument \in DOMAIN record[s].universe
  /\ record[s].universe[instrument] \in {"DELISTED", "EXPIRED"}

\* What one unit held since the anchor has become, and what it was paid.
Accrue(event, holding) ==
  IF event.kind = "STOCK_SPLIT"
  THEN [holding EXCEPT !.units = @ * event.value]
  ELSE [holding EXCEPT !.cash = @ + event.value * holding.units]
Holding(events) ==
  MapThenFoldSet(Accrue, [units |-> 1, cash |-> 0], LAMBDA event : event, Latest, events)

StatusOf(record, forecast, events) ==
  LET i == forecast.instrument
      anchor == Closes(record, forecast.anchor, i)
      target == Closes(record, Target(forecast), i)
  IN  IF Censored(record, Target(forecast), i) THEN "CENSORED_BY_DELISTING"
      ELSE IF {} \in {anchor, target} THEN "UNRESOLVABLE"
      ELSE IF \/ \E close \in anchor \cup target : close <= 0
              \/ \E event \in events : event.kind = "STOCK_SPLIT" /\ event.value <= 0
           THEN "INVALID_SOURCE_DATA" ELSE "RESOLVED"

\* Only of a forecast that is not pending.  paid and held are what the total
\* return is the ratio of.
Verdict(record, forecast) ==
  LET i == forecast.instrument
      events == EventsBetween(record, i, forecast.anchor, Target(forecast))
      status == StatusOf(record, forecast, events)
      holding == Holding(events)
      paid == CHOOSE close \in Closes(record, forecast.anchor, i) : TRUE
      close == CHOOSE price \in Closes(record, Target(forecast), i) : TRUE
  IN  IF status # "RESOLVED" THEN [status |-> status]
      ELSE [status |-> status, paid |-> paid, held |-> holding.units * close + holding.cash]

Rose(verdict) == verdict.held > verdict.paid

-----------------------------------------------------------------------------
(* ForecastCollector.collect *)

Forecast(source, bundle, key, opinion) ==
  [source |-> source, unit |-> bundle.unit, key |-> key, anchor |-> bundle.unit.cycle,
   instrument |-> opinion.instrument, horizon |-> opinion.horizon,
   probability |-> opinion.probability]

FromPanels ==
  UNION {{Forecast("PANEL", panel, <<answer.instrument, answer.horizon>>, answer)
            : answer \in panel.answers} : panel \in panels}

\* The ordinal tells two forecasts of one question apart.
FromDecisions ==
  UNION {{Forecast("DECISION", bundle, <<ordinal>>, bundle.forecasts[ordinal])
            : ordinal \in DOMAIN bundle.forecasts} : bundle \in decisions}

\* forecast_id_for
IdOfQuestion(forecast) ==
  <<forecast.source, forecast.unit, forecast.instrument, forecast.horizon>>
IdOfCycle(forecast) == <<forecast.source, forecast.anchor, forecast.key>>
Id(forecast) == <<forecast.source, forecast.unit, forecast.key>>

-----------------------------------------------------------------------------
Init ==
  /\ world \in Worlds
  /\ snapshots = << >> /\ decisions = {} /\ panels = {}
  /\ verdicts = {} /\ pass = Idle /\ report = None /\ passes = 0

(* The study. *)

Freeze ==
  /\ Len(snapshots) < LAST
  /\ snapshots' = Append(snapshots, Snapshot(Len(snapshots) + 1))
  /\ UNCHANGED <<world, decisions, panels, verdicts, pass, report, passes>>

Sealed(unit) == \E bundle \in decisions : bundle.unit = unit

SealAhead(unit) ==
  /\ ~Sealed(unit) /\ Cardinality(decisions) < MAX_SEALED
  /\ \E opinion \in Opinions :
       decisions' = decisions \cup {[unit |-> unit, forecasts |-> opinion]}
  /\ UNCHANGED <<world, snapshots, panels, verdicts, pass, report, passes>>

\* A condition that was missing may be sealed by a later run.
Seal(unit) ==
  /\ unit.cycle \in DOMAIN snapshots /\ ~Sealed(unit)
  /\ Cardinality(decisions) < MAX_SEALED
  /\ \E opinion \in Opinions :
       decisions' = decisions \cup {[unit |-> unit, forecasts |-> opinion]}
  /\ UNCHANGED <<world, snapshots, panels, verdicts, pass, report, passes>>

SealPanel(unit) ==
  /\ Sealed(unit) /\ ~\E panel \in panels : panel.unit = unit
  /\ \E answers \in Answers : panels' = panels \cup {[unit |-> unit, answers |-> answers]}
  /\ UNCHANGED <<world, snapshots, decisions, verdicts, pass, report, passes>>

(* Study.resolve. *)

\* now = None reads up to the last cutoff.  A study without snapshots is not
\* refused: it has an empty grid and nothing to collect.
StartResolve ==
  /\ pass = Idle /\ passes < MAX_PASSES
  /\ passes' = passes + 1
  /\ \E through \in 0..Len(snapshots) :
       pass' = [through |-> through, forecasts |-> FromPanels \cup FromDecisions]
  /\ UNCHANGED <<study, verdicts, report>>

Read == SubSeq(snapshots, 1, pass.through)

\* One ConfigurationError loses the whole pass.
ResolveRaises ==
  /\ pass # Idle /\ \E forecast \in pass.forecasts : Raises(Read, forecast)
  /\ pass' = Idle
  /\ UNCHANGED <<study, verdicts, report, passes>>

Terminal == {forecast \in pass.forecasts : ~Pending(Read, forecast)}

Row(forecast) == [forecast |-> forecast, verdict |-> Verdict(Read, forecast)]

\* _persist leaves a row that is there alone: one verdict for an id.
New ==
  {forecast \in Terminal :
     /\ ~\E row \in verdicts : Id(row.forecast) = Id(forecast)
     /\ forecast = CHOOSE other \in Terminal : Id(other) = Id(forecast)}

\* Committed with FORECASTS_RESOLVED, or by the commit that follows.
FinishResolve ==
  /\ pass # Idle /\ ~\E forecast \in pass.forecasts : Raises(Read, forecast)
  /\ verdicts' = verdicts \cup {Row(forecast) : forecast \in New}
  /\ report' = [resolved |-> Terminal, pending |-> pass.forecasts \ Terminal]
  /\ pass' = Idle
  /\ UNCHANGED <<study, passes>>

\* The command is stopped; its flushed rows are rolled back.
StopResolve ==
  /\ pass # Idle
  /\ pass' = Idle
  /\ UNCHANGED <<study, verdicts, report, passes>>

Next ==
  \/ Freeze
  \/ \E unit \in Unit : Seal(unit) \/ SealPanel(unit)
  \/ StartResolve \/ ResolveRaises \/ FinishResolve \/ StopResolve

Spec == Init /\ [][Next]_vars

-----------------------------------------------------------------------------
(* analysis/pairing.py: pair_scores over the panel rows of all arms.         *)

Cell(forecast) ==
  [anchor |-> forecast.anchor, instrument |-> forecast.instrument, horizon |-> forecast.horizon]

PanelRows == {row \in verdicts : row.forecast.source = "PANEL"}
Candidates == {Cell(row.forecast) : row \in PanelRows}

Scored(cell) ==
  {row \in PanelRows : Cell(row.forecast) = cell /\ row.verdict.status = "RESOLVED"}
ScoredBy(cell, arm) == {row \in Scored(cell) : row.forecast.unit.arm = arm}

MissingArm(cell) == \E arm \in Arm : ScoredBy(cell, arm) = {}
UnequalRepetitions(cell) ==
  Cardinality({Cardinality(ScoredBy(cell, arm)) : arm \in Arm}) > 1

Paired == {cell \in Candidates : ~MissingArm(cell) /\ ~UnequalRepetitions(cell)}

\* pair_scores raises IntegrityError.
Disagreed(cell) == Cardinality({Rose(row.verdict) : row \in Scored(cell)}) > 1

-----------------------------------------------------------------------------
TypeOK ==
  /\ world \in Worlds /\ Len(snapshots) <= LAST
  /\ \A bundle \in decisions : bundle.unit \in Unit /\ bundle.unit.cycle \in DOMAIN snapshots
  /\ \A panel \in panels : Sealed(panel.unit)
  /\ \A row \in verdicts : /\ row.forecast.source \in {"PANEL", "DECISION"}
                           /\ Target(row.forecast) \in DOMAIN snapshots
                           /\ row.verdict.status # "PENDING"
  /\ pass # Idle => pass.through \in 0..Len(snapshots)

Everything == [s \in Session |-> Snapshot(s)]

\* resolution.py: a verdict is written "exactly once".  Whenever it was written,
\* while the study was still running or after, it is the one that the complete
\* record of the study gives.
VerdictIsFinal ==
  \A row \in verdicts : row.verdict = Verdict(Everything, row.forecast)

\* The total return of a resolved forecast is that of a holder of one unit from
\* the close of the anchor to that of the target, from what was published on
\* each day: every dividend pays on the units that the splits before it left.
ReturnIsHolders ==
  \A row \in verdicts : row.verdict.status = "RESOLVED" =>
    LET f == row.forecast
        Published(kind) == {item \in world.evidence :
          item.kind = kind /\ item.about = f.instrument /\ item.seen <= item.at}
        Of(kind, from, to) == {item \in Published(kind) : item.at \in from..to}
        Close(s) == (CHOOSE bar \in Of("PRICE_BAR", s, s) : TRUE).value
        Units(s) == FoldSet(LAMBDA split, n : n * split.value, 1, Of("STOCK_SPLIT", f.anchor + 1, s))
    IN  /\ row.verdict.paid = Close(f.anchor)
        /\ row.verdict.held = Units(Target(f)) * Close(Target(f))
              + MapThenSumSet(LAMBDA paid : paid.value * Units(paid.at - 1),
                              Of("CASH_DIVIDEND", f.anchor + 1, Target(f)))

\* Nothing that was sealed is dropped on the way: a pass sees all or nothing of
\* a decision, two opinions on one question included, and what it calls
\* resolved has a verdict of its own.
NothingIsLost ==
  report # None =>
    /\ \A bundle \in decisions :
         Cardinality({f \in report.resolved \cup report.pending :
                        f.source = "DECISION" /\ f.unit = bundle.unit}) \in {0, Len(bundle.forecasts)}
    /\ \A f \in report.resolved : \E row \in verdicts : row.forecast = f

\* What happened is the same for all arms, whichever pass found it, so that
\* pairing never meets an outcome that contradicts another.
ArmsAgree == \A cell \in Candidates : ~Disagreed(cell)

\* Arms are compared on what happened, and a question that they had answered
\* equally often enters the comparison with all of its answers.
ComparisonIsSound ==
  /\ ArmsAgree
  /\ report # None =>
       \A cell \in Candidates :
         LET answers == {f \in report.resolved : f.source = "PANEL" /\ Cell(f) = cell} IN
         /\ answers # {}
         /\ Cardinality({Cardinality({f \in answers : f.unit.arm = arm}) : arm \in Arm}) = 1
         /\ \A f \in answers : Verdict(Everything, f).status = "RESOLVED"
         => cell \in Paired /\ {row.forecast : row \in Scored(cell)} = answers

\* agents/decision.py: whatever a model answers is checked before it is sealed;
\* a pass over what was sealed does not fail on it.
NoForecastBreaksThePass ==
  pass # Idle /\ pass.through = Len(snapshots) =>
    \A forecast \in pass.forecasts :
      forecast.anchor <= pass.through => ~Raises(Read, forecast)
=============================================================================
