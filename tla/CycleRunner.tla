----------------------------- MODULE CycleRunner -----------------------------
(***************************************************************************)
(* experiments/runner.py with the memory it feeds: every condition of a    *)
(* cycle is asked for its decision and then for its panel, what it answers *)
(* is sealed, and once the cycle is over each decision becomes an episode  *)
(* that the same condition may recall in later cycles.                     *)
(*                                                                         *)
(* Appending an event commits the session; an event that is already in the *)
(* chain is not appended again, and then nothing is committed.  Episodes   *)
(* and reflections are only flushed: a crash takes the ones no later event *)
(* has carried along.  A run is started again from its first cycle.        *)
(***************************************************************************)
EXTENDS Integers, SequencesExt, Tables

CONSTANTS
  Units,            (* sequence: the (arm, repetition) pairs, as declared    *)
  Grants,           (* [unit -> [memory, reflection]], each none, genuine or *)
                    (* placebo                                               *)
  Answers,          (* what a decision may say                               *)
  MAX_FAILURES,     (* bound: agent failures observed in one decision        *)
  LAST,             (* bound: cycles are 0..LAST                             *)
  INTERVAL,         (* reflection_interval                                   *)
  MIN_EPISODES,     (* MIN_EPISODES_TO_REFLECT                               *)
  RECALL_LIMIT,     (* DEFAULT_RECALL_LIMIT                                  *)
  MAX_OUTAGES,      (* bound: how often the provider is unreachable          *)
  MAX_RUNS          (* bound: how often the run is started again             *)

ASSUME RunnerAssumption ==
  /\ {MAX_FAILURES, LAST, INTERVAL, RECALL_LIMIT, MAX_OUTAGES, MAX_RUNS} \subseteq Nat
  /\ MIN_EPISODES \in Nat \ {0}
  /\ Units \in Seq(ToSet(Units)) /\ Len(Units) > 0
  /\ \A unit \in ToSet(Units) : {Grants[unit].memory, Grants[unit].reflection}
                                 \subseteq {"none", "genuine", "placebo"}

VARIABLES
  chain,      (* the event log                                               *)
  bundles,    (* decision_bundles: sealed cell -> decision and its material  *)
  panels,     (* panel_bundles: cell -> the material it was asked with       *)
  memory,     (* episodes and reflections as the session sees them           *)
  durable,    (* and as they are committed                                   *)
  cycle,      (* where the process is                                        *)
  turn,       (* which unit of the cycle's order is next                     *)
  phase,
  owed,       (* failures of the bundle just sealed, not yet observed        *)
  missing,    (* units this pass over the cycle did without                  *)
  outages,
  runs

stored == <<chain, bundles, panels>>
process == <<cycle, turn, phase, owed, missing>>
vars == <<chain, bundles, panels, memory, durable, cycle, turn, phase, owed,
          missing, outages, runs>>

Unit == ToSet(Units)
Cycle == 0..LAST
Cell == Cycle \X Unit
Sealed == DOMAIN bundles

\* LATIN_SQUARE: the declared order, rotated by one each cycle.
InTurn(c, n) == Units[((n - 1 + c) % Len(Units)) + 1]

Recorded(event) == Contains(chain, event)

\* EventStore.append: with the event, everything flushed so far is committed.
EmitAgain(event, now) == chain' = Append(chain, event) /\ durable' = now
Emit(event, now) ==
  IF Recorded(event) THEN UNCHANGED <<chain, durable>>
  ELSE chain' = Append(chain, event) /\ durable' = now

-----------------------------------------------------------------------------
(* memory/store.py, reflection/engine.py and experiments/materials.py        *)

Before(unit, c) == {e \in memory.episodes : e.unit = unit /\ e.cycle < c}

\* The RECALL_LIMIT most recent episodes of the condition itself.
RecallOldest(unit, c) ==
  {e \in Before(unit, c) :
     Cardinality({x \in Before(unit, c) : x.cycle < e.cycle}) < RECALL_LIMIT}
Recall(unit, c) ==
  {e \in Before(unit, c) :
     Cardinality({x \in Before(unit, c) : x.cycle > e.cycle}) < RECALL_LIMIT}

Nothing == {}

\* Whatever the answers were, a placebo is made from their shapes, which say no
\* more than whether anything failed.
Shape(e) == [e EXCEPT !.answer = "placebo", !.failures = IF @ > 0 THEN 1 ELSE 0]

MemorySection(unit, c) ==
  CASE Grants[unit].memory = "none" -> Nothing
    [] Grants[unit].memory = "genuine" -> Recall(unit, c)
    [] Grants[unit].memory = "placebo" -> {Shape(e) : e \in Recall(unit, c)}

Latest(unit, c) ==
  LET past == {r \in memory.reflections : r.unit = unit /\ r.cycle < c}
  IN  {r \in past : \A other \in past : other.cycle <= r.cycle}

ReflectionSection(unit, c) ==
  CASE Grants[unit].reflection = "none" -> Nothing
    [] Grants[unit].reflection = "genuine" -> Latest(unit, c)
    [] Grants[unit].reflection = "placebo" ->
         IF Before(unit, c) = {} THEN Nothing ELSE {"placebo"}

Material(unit, c) == <<MemorySection(unit, c), ReflectionSection(unit, c)>>

\* Episodes are identified by their bundle, so recording one again adds nothing.
Episode(unit, c) ==
  LET bundle == bundles[<<c, unit>>]
  IN  [unit |-> unit, cycle |-> c, answer |-> bundle.answer, failures |-> bundle.failures]

WithEpisodes(units, c) ==
  [memory EXCEPT !.episodes = @ \cup {Episode(u, c) : u \in units}]

\* maybe_reflect: on the cadence, from what could be recalled before this cycle,
\* and once.  derive_rules is taken to find something in any such history.
Reflected(unit, c) ==
  {[unit |-> unit, cycle |-> c, from |-> {e.cycle : e \in Recall(unit, c)}] :
     x \in {y \in {unit} : /\ INTERVAL > 0 /\ (c + 1) % INTERVAL = 0
                           /\ Cardinality(Recall(unit, c)) >= MIN_EPISODES
                           /\ ~\E r \in memory.reflections : r.unit = unit /\ r.cycle = c}}

-----------------------------------------------------------------------------
Init ==
  /\ chain = << >>
  /\ bundles = << >> /\ panels = << >>
  /\ memory = [episodes |-> {}, reflections |-> {}] /\ durable = memory
  /\ cycle = 0 /\ turn = 1 /\ phase = "start" /\ owed = 0 /\ missing = {}
  /\ outages = 0 /\ runs = 0

StartCycle ==
  /\ phase = "start"
  /\ Emit(<<"CYCLE_STARTED", cycle>>, memory)
  /\ phase' = "unit" /\ turn' = 1 /\ missing' = {}
  /\ UNCHANGED <<bundles, panels, memory, cycle, owed, outages, runs>>

Asked == phase = "unit" /\ turn <= Len(Units)
Here == <<cycle, InTurn(cycle, turn)>>

\* Resuming must not decide again: a sealed decision is loaded, and only a panel
\* it lacks is asked for.
LoadSealedAsDone ==
  /\ Asked /\ Here \in Sealed
  /\ turn' = turn + 1
  /\ UNCHANGED <<stored, memory, durable, cycle, phase, owed, missing, outages, runs>>
LoadSealed ==
  /\ Asked /\ Here \in Sealed
  /\ IF Here \notin DOMAIN panels THEN phase' = "panel" /\ UNCHANGED turn
                               ELSE turn' = turn + 1 /\ UNCHANGED phase
  /\ UNCHANGED <<stored, memory, durable, cycle, owed, missing, outages, runs>>

\* The decision and the event that seals it are one commit.
DecideAgainAndSeal ==
  /\ Asked
  /\ \E answer \in Answers, failures \in 0..MAX_FAILURES :
       /\ bundles' = WithRow(bundles, Here, [answer |-> answer, failures |-> failures,
                                             material |-> Material(Here[2], cycle)])
       /\ owed' = failures
  /\ Emit(<<"DECISION_SEALED", cycle, Here[2]>>, memory)
  /\ phase' = "failures"
  /\ UNCHANGED <<panels, memory, cycle, turn, missing, outages, runs>>
DecideAndSeal ==
  /\ Asked /\ Here \notin Sealed
  /\ \E answer \in Answers, failures \in 0..MAX_FAILURES :
       /\ bundles' = WithRow(bundles, Here, [answer |-> answer, failures |-> failures,
                                             material |-> Material(Here[2], cycle)])
       /\ owed' = failures
  /\ Emit(<<"DECISION_SEALED", cycle, Here[2]>>, memory)
  /\ phase' = "failures"
  /\ UNCHANGED <<panels, memory, cycle, turn, missing, outages, runs>>

\* ModelProviderError while deciding: one condition of the cycle is missing.
RecordMissingSilently ==
  /\ Asked /\ Here \notin Sealed
  /\ outages < MAX_OUTAGES /\ outages' = outages + 1
  /\ missing' = missing \cup {Here[2]} /\ turn' = turn + 1
  /\ UNCHANGED <<stored, memory, durable, cycle, phase, owed, runs>>
RecordMissing ==
  /\ Asked /\ Here \notin Sealed
  /\ outages < MAX_OUTAGES /\ outages' = outages + 1
  /\ Emit(<<"CONDITION_MISSING", cycle, Here[2]>>, memory)
  /\ missing' = missing \cup {Here[2]} /\ turn' = turn + 1
  /\ UNCHANGED <<bundles, panels, memory, cycle, phase, owed, runs>>

\* One event, and one commit, for each failure of the decision.
ObserveFailure ==
  /\ phase = "failures" /\ owed > 0
  /\ LET sequence == bundles[Here].failures - owed
     IN  Emit(<<"AGENT_FAILURE_OBSERVED", cycle, Here[2], sequence>>, memory)
  /\ owed' = owed - 1
  /\ UNCHANGED <<bundles, panels, memory, cycle, turn, phase, missing, outages, runs>>

ObservedAll ==
  /\ phase = "failures" /\ owed = 0
  /\ phase' = "panel"
  /\ UNCHANGED <<stored, memory, durable, cycle, turn, owed, missing, outages, runs>>

\* A second elicitation, with a model and a budget of its own.
ElicitPanel ==
  /\ phase = "panel"
  /\ panels' = WithRow(panels, Here, Material(Here[2], cycle))
  /\ Emit(<<"PANEL_SEALED", cycle, Here[2]>>, memory)
  /\ phase' = "unit" /\ turn' = turn + 1
  /\ UNCHANGED <<bundles, memory, cycle, owed, missing, outages, runs>>

\* The same error is not caught here: it leaves Study.run.
PanelOutage ==
  /\ phase = "panel"
  /\ outages < MAX_OUTAGES /\ outages' = outages + 1
  /\ phase' = "raised"
  /\ UNCHANGED <<stored, memory, durable, cycle, turn, owed, missing, runs>>

CompleteCycle ==
  /\ phase = "unit" /\ turn > Len(Units)
  /\ Emit(<<"CYCLE_COMPLETED", cycle, Unit \ missing>>, memory)
  /\ phase' = "remember"
  /\ UNCHANGED <<bundles, panels, memory, cycle, turn, owed, missing, outages, runs>>

\* CycleDriver.remember, after every decision of the cycle and for those only.
Executed == Unit \ missing
Remembered ==
  [WithEpisodes(Executed, cycle) EXCEPT
     !.reflections = @ \cup UNION {Reflected(u, cycle) : u \in Executed}]

Remember ==
  /\ phase = "remember" /\ phase' = "done"
  /\ memory' = Remembered
  /\ UNCHANGED <<stored, durable, cycle, turn, owed, missing, outages, runs>>

\* What the next session ingests and settles may commit before its cycle starts.
NextCycle ==
  /\ phase = "done" /\ cycle < LAST
  /\ cycle' = cycle + 1 /\ phase' = "start"
  /\ durable' \in {durable, memory}
  /\ UNCHANGED <<stored, memory, turn, owed, missing, outages, runs>>

Finish ==
  /\ phase = "done" /\ cycle = LAST
  /\ phase' = "over"
  /\ durable' = memory
  /\ UNCHANGED <<stored, memory, cycle, turn, owed, missing, outages, runs>>

\* A crash, an exception or the end of a run, and then `run` once more.
RunAgain ==
  /\ runs < MAX_RUNS /\ runs' = runs + 1
  /\ memory' = durable
  /\ cycle' = 0 /\ turn' = 1 /\ phase' = "start" /\ owed' = 0 /\ missing' = {}
  /\ UNCHANGED <<stored, durable, outages>>

Next ==
  \/ StartCycle \/ LoadSealed \/ DecideAndSeal \/ RecordMissing
  \/ ObserveFailure \/ ObservedAll \/ ElicitPanel \/ PanelOutage
  \/ CompleteCycle \/ Remember \/ NextCycle \/ Finish \/ RunAgain

Spec == Init /\ [][Next]_vars

-----------------------------------------------------------------------------
TypeOK ==
  /\ DOMAIN panels \subseteq Sealed /\ Sealed \subseteq Cell
  /\ \A cell \in Sealed : /\ bundles[cell].answer \in Answers
                          /\ bundles[cell].failures \in 0..MAX_FAILURES
  /\ \A n \in DOMAIN chain : chain[n][2] \in Cycle
  /\ IsInjective(chain)
  /\ \A e \in memory.episodes : <<e.cycle, e.unit>> \in Sealed
  /\ durable.episodes \subseteq memory.episodes
  /\ cycle \in Cycle /\ turn \in 1..(Len(Units) + 1) /\ missing \subseteq Unit
  /\ phase \in {"start", "unit", "failures", "panel", "remember", "done", "over", "raised"}
  /\ owed \in 0..MAX_FAILURES /\ outages \in 0..MAX_OUTAGES /\ runs \in 0..MAX_RUNS

\* The material of an uninterrupted run in which every condition answered.
Uninterrupted(unit, c) ==
  LET Recalled(n) == {Episode(unit, k) : k \in Max({0, n - RECALL_LIMIT})..(n - 1)}
      Reflects(n) == (n + 1) % INTERVAL = 0 /\ Cardinality(Recalled(n)) >= MIN_EPISODES
      due == {n \in 0..(c - 1) : INTERVAL > 0 /\ Reflects(n)}
      reflection == IF due = {} THEN {}
                    ELSE {[unit |-> unit, cycle |-> Max(due),
                           from |-> {e.cycle : e \in Recalled(Max(due))}]}
      grant == Grants[unit]
  IN  << CASE grant.memory = "none" -> {}
           [] grant.memory = "genuine" -> Recalled(c)
           [] grant.memory = "placebo" -> {Shape(e) : e \in Recalled(c)},
         CASE grant.reflection = "none" -> {}
           [] grant.reflection = "genuine" -> reflection
           [] grant.reflection = "placebo" -> IF c = 0 THEN {} ELSE {"placebo"} >>

\* Wherever it was interrupted, as long as the provider answers, a condition
\* decides with the memory an uninterrupted run would have given it: nothing of a
\* later cycle, of another condition, or lost with the session that crashed.
MaterialIsReplayable == outages = 0 =>
  \A cell \in Sealed : bundles[cell].material = Uninterrupted(cell[2], cell[1])

\* An interruption between a decision and its panel leaves a hole, which the next
\* run fills before it is over.
HolesAreFilled ==
  phase = "over" => Sealed = DOMAIN panels

\* A cycle that is complete has an outcome for every condition: a decision or a
\* missing one that was reported.  Silence is never read as an answer.
EveryConditionAccounted ==
  \A n \in DOMAIN chain : chain[n][1] = "CYCLE_COMPLETED" =>
    \A u \in Unit : \/ <<chain[n][2], u>> \in Sealed
                    \/ Recorded(<<"CONDITION_MISSING", chain[n][2], u>>)

SealedBefore(events, n, cell) ==
  \E m \in 1..(n - 1) : events[m] = <<"DECISION_SEALED", cell[1], cell[2]>>

\* However often a condition is asked, the log tells of one decision, the one that is
\* sealed: it is not reported missing once it has decided, and every failure observed
\* of it is one the sealed decision has.
OneDecisionEach ==
  \A n \in DOMAIN chain :
    LET event == chain[n]
        cell == <<event[2], event[3]>>
    IN  /\ event[1] = "CONDITION_MISSING" => ~SealedBefore(chain, n, cell)
        /\ event[1] = "AGENT_FAILURE_OBSERVED" =>
             /\ SealedBefore(chain, n, cell) /\ cell \in Sealed
             /\ event[4] \in 0..(bundles[cell].failures - 1)

-----------------------------------------------------------------------------
(* What the documents promise and the code does not keep. *)

\* runner.py: "the panel receives the same granted material", so that the treatment
\* is measured on the condition that was treated.
PanelSharesMaterial ==
  \A cell \in DOMAIN panels : panels[cell] = bundles[cell].material

\* runner.py, _seal: dropping a failure is "under-reporting exactly the
\* observations" the events exist to keep.
FailuresAreObserved ==
  \A cell \in Sealed : Recorded(<<"PANEL_SEALED", cell[1], cell[2]>>) =>
    \A sequence \in 0..(bundles[cell].failures - 1) :
      Recorded(<<"AGENT_FAILURE_OBSERVED", cell[1], cell[2], sequence>>)
=============================================================================
