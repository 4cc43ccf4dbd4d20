----------------------------- MODULE DecisionLoop -----------------------------
(***************************************************************************)
(* agents/decision.py and agents/panel.py with retrieval/budget.py: one    *)
(* decision, or one panel elicitation, of one condition.  The model is     *)
(* asked for a response until it decides, gives up or runs out of turns;   *)
(* its tool calls are dispatched one by one against a budget; what it      *)
(* claims is judged against the frozen index.                              *)
(*                                                                         *)
(* A response is [refused, decision, calls], decision being NONE or        *)
(* [forecasts, intents].  A call adds to what Retrieval says of it how its *)
(* arguments fit: "fits", "unfit" (a missing or unknown one) or "not_text" *)
(* (a query that is no string).                                            *)
(***************************************************************************)
EXTENDS Retrieval

CONSTANTS
  Responses,      (* what the model may answer in one turn                   *)
  Horizons,       (* sequence: the horizons a panel asks about               *)
  MAX_TURNS,      (* max_model_turns                                         *)
  MAX_CALLS,      (* max_calls                                               *)
  MAX_CHARS,      (* max_evidence_chars                                      *)
  NONE

\* What a model can send: lists of calls and claims, none of them nothing.
IsDecision(said) ==
  /\ said.forecasts \in Seq(ToSet(said.forecasts)) /\ NONE \notin ToSet(said.forecasts)
  /\ said.intents \in Seq(ToSet(said.intents))
  /\ \A claim \in ToSet(said.forecasts) \cup ToSet(said.intents) :
       claim.cites \in Seq(ToSet(claim.cites))

ASSUME DecisionAssumption ==
  /\ {MAX_TURNS, MAX_CALLS, MAX_CHARS} \subseteq Nat \ {0}
  /\ \A response \in Responses :
       /\ response.calls \in Seq(ToSet(response.calls))
       /\ \A call \in ToSet(response.calls) : call.tool # NONE /\ call.limit \in Int
       /\ response.decision # NONE => IsDecision(response.decision)
  \* DEFAULT_HORIZONS: a panel asks about each horizon once.
  /\ Horizons \in Seq(ToSet(Horizons)) /\ IsInjective(Horizons)

VARIABLES
  task,       (* "decision", or "panel": what the condition is asked for     *)
  phase,      (* asking, calling, judging, then done, missing or escaped     *)
  turn,
  calls,      (* tool calls of the last response still to be dispatched      *)
  results,    (* what the tools handed over: [call, items], in order         *)
  budget,     (* [calls, chars] used                                         *)
  failures,   (* agent failures observed: [kind, what], in order             *)
  decision,   (* the model's decision, or NONE                               *)
  outcome     (* once done: the claims kept, and the panel's answers         *)

vars == <<task, phase, turn, calls, results, budget, failures, decision, outcome>>

Nothing == [forecasts |-> <<>>, intents |-> <<>>, answers |-> <<>>]
Panel == BuildPanel(Horizons)

Failure(kind, what) == [kind |-> kind, what |-> what]
Observe(kind, what) == failures' = Append(failures, Failure(kind, what))

-----------------------------------------------------------------------------
Init ==
  /\ task \in {"decision", "panel"}
  \* An empty panel is answered without asking anybody.
  /\ phase = IF task = "panel" /\ Panel = <<>> THEN "done" ELSE "asking"
  /\ turn = 0 /\ calls = <<>> /\ results = <<>> /\ failures = <<>>
  /\ budget = [calls |-> 0, chars |-> 0]
  /\ decision = NONE /\ outcome = Nothing

\* Nothing more is asked: what there is, if anything, is judged next.
Stop(kind) ==
  /\ Observe(kind, NONE)
  /\ phase' = "judging"
  /\ UNCHANGED <<calls, decision>>

HandleResponse(response) ==
  \/ response.refused /\ Stop("REFUSAL")
  \/ /\ ~response.refused /\ response.decision # NONE /\ response.calls # <<>>
     /\ Stop("SCHEMA_VIOLATION")
  \/ /\ ~response.refused /\ response.decision # NONE /\ response.calls = <<>>
     /\ decision' = response.decision
     /\ phase' = "judging"
     /\ UNCHANGED <<calls, failures>>
  \/ /\ ~response.refused /\ response.decision = NONE /\ response.calls = <<>>
     /\ Stop("MALFORMED_JSON")
  \/ /\ ~response.refused /\ response.decision = NONE /\ response.calls # <<>>
     /\ calls' = response.calls
     /\ phase' = "calling"
     /\ UNCHANGED <<decision, failures>>

AskOnceMore(response) ==
  /\ phase = "asking" /\ turn <= MAX_TURNS
  /\ turn' = turn + 1
  /\ HandleResponse(response)
  /\ UNCHANGED <<task, results, budget, outcome>>

\* One turn: the model is asked, and answers.
Ask(response) ==
  /\ phase = "asking" /\ turn < MAX_TURNS
  /\ turn' = turn + 1
  /\ HandleResponse(response)
  /\ UNCHANGED <<task, results, budget, outcome>>

\* The provider cannot be reached: the whole decision is missing.
Unreachable ==
  /\ phase = "asking" /\ turn < MAX_TURNS
  /\ turn' = turn + 1
  /\ phase' = "missing"
  /\ UNCHANGED <<task, calls, results, budget, failures, decision, outcome>>

RunOutOfTurnsLate ==
  /\ phase = "asking" /\ turn > MAX_TURNS
  /\ Stop("TRUNCATED_OUTPUT")
  /\ UNCHANGED <<task, turn, results, budget, outcome>>

RunOutOfTurns ==
  /\ phase = "asking" /\ turn = MAX_TURNS
  /\ Stop("TRUNCATED_OUTPUT")
  /\ UNCHANGED <<task, turn, results, budget, outcome>>

-----------------------------------------------------------------------------
(* The tool calls of one response *)

Exceeds(chars) == budget.calls + 1 > MAX_CALLS \/ budget.chars + chars > MAX_CHARS

\* A query is stripped before anything is looked up.
Strips(call) == call.tool \in {"search_news", "search_instruments"}

Misfit(call) == call.tool \notin Tools \/ call.arguments = "unfit"
Raises(call) == ~Misfit(call) /\ call.arguments = "not_text" /\ Strips(call)

\* Costs nothing, and the next call is dispatched all the same.
RejectCall ==
  /\ phase = "calling" /\ calls # <<>> /\ Misfit(Head(calls))
  /\ Observe("SCHEMA_VIOLATION", Head(calls).tool)
  /\ calls' = Tail(calls)
  /\ UNCHANGED <<task, phase, turn, results, budget, decision, outcome>>

\* An AttributeError is neither a budget nor a schema failure to the loop.
EscapeCall ==
  /\ phase = "calling" /\ calls # <<>> /\ Raises(Head(calls))
  /\ phase' = "escaped"
  /\ UNCHANGED <<task, turn, calls, results, budget, failures, decision, outcome>>

Charge(chars) ==
  budget' = [calls |-> budget.calls + 1, chars |-> budget.chars + chars]

AnswerCall ==
  /\ phase = "calling" /\ calls # <<>> /\ ~Misfit(Head(calls)) /\ ~Raises(Head(calls))
  /\ LET call == Head(calls)
         items == Result(call)
     IN  /\ ~Exceeds(CharCost(items))
         /\ Charge(CharCost(items))
         /\ results' = Append(results, [call |-> call, items |-> items])
  /\ calls' = Tail(calls)
  /\ UNCHANGED <<task, phase, turn, failures, decision, outcome>>

ExhaustBudgetCharged ==
  /\ phase = "calling" /\ calls # <<>> /\ ~Misfit(Head(calls)) /\ ~Raises(Head(calls))
  /\ Exceeds(CharCost(Result(Head(calls))))
  /\ Stop("BUDGET_EXHAUSTED") /\ Charge(0)
  /\ UNCHANGED <<task, turn, results, outcome>>
ExhaustBudgetGoOn ==
  /\ phase = "calling" /\ calls # <<>> /\ ~Misfit(Head(calls)) /\ ~Raises(Head(calls))
  /\ Exceeds(CharCost(Result(Head(calls))))
  /\ Observe("BUDGET_EXHAUSTED", NONE)
  /\ calls' = Tail(calls)
  /\ UNCHANGED <<task, phase, turn, results, budget, decision, outcome>>

\* The call is refused before anything is charged; the rest are dropped.
ExhaustBudget ==
  /\ phase = "calling" /\ calls # <<>> /\ ~Misfit(Head(calls)) /\ ~Raises(Head(calls))
  /\ Exceeds(CharCost(Result(Head(calls))))
  /\ Stop("BUDGET_EXHAUSTED")
  /\ UNCHANGED <<task, turn, results, budget, outcome>>

EndOfCalls ==
  /\ phase = "calling" /\ calls = <<>>
  /\ phase' = "asking"
  /\ UNCHANGED <<task, turn, calls, results, budget, failures, decision, outcome>>

-----------------------------------------------------------------------------
(* Judging what was claimed *)

Unfounded(claim) ==
  (IF Resolves(claim.instrument) THEN <<>>
   ELSE <<Failure("UNRESOLVED_INSTRUMENT", claim.instrument)>>)
  \o LET missing == Sift(claim.cites, LAMBDA id : ~Citable(id))
     IN  [k \in DOMAIN missing |-> Failure("NONEXISTENT_EVIDENCE", missing[k])]

\* Forecasts also state a probability, looked at only if the rest holds.
Improbable(forecast) ==
  IF Unfounded(forecast) = <<>> /\ ~forecast.probable
  THEN <<Failure("PROBABILITY_OUT_OF_RANGE", forecast.instrument)>> ELSE <<>>

Faults(forecast) == Unfounded(forecast) \o Improbable(forecast)

JudgedForecastsOnly ==
  IF decision = NONE THEN [forecasts |-> <<>>, intents |-> <<>>, faults |-> <<>>]
  ELSE [forecasts |-> Sift(decision.forecasts, LAMBDA f : Faults(f) = <<>>),
        intents |-> decision.intents,
        faults |-> FlattenSeq([k \in DOMAIN decision.forecasts |-> Faults(decision.forecasts[k])])]

Judged ==
  IF decision = NONE THEN [forecasts |-> <<>>, intents |-> <<>>, faults |-> <<>>]
  ELSE [forecasts |-> Sift(decision.forecasts, LAMBDA f : Faults(f) = <<>>),
        intents |-> Sift(decision.intents, LAMBDA i : Unfounded(i) = <<>>),
        faults |-> FlattenSeq([k \in DOMAIN decision.forecasts |-> Faults(decision.forecasts[k])])
                   \o FlattenSeq([k \in DOMAIN decision.intents |-> Unfounded(decision.intents[k])])]

KeyOf(forecast) == <<forecast.instrument, forecast.horizon>>

FirstAnswerTo(item, forecasts) ==
  LET given == Sift(forecasts, LAMBDA f : KeyOf(f) = item)
  IN  IF given = <<>> THEN NONE ELSE given[1]
\* by_key: of two answers to one question the last one stands.
AnswerTo(item, forecasts) ==
  LET given == Sift(forecasts, LAMBDA f : KeyOf(f) = item)
  IN  IF given = <<>> THEN NONE ELSE given[Len(given)]

Answers(forecasts) ==
  [k \in DOMAIN Panel |-> AnswerTo(Panel[k], forecasts)]

Unanswered(forecasts) ==
  LET open == Sift(Panel, LAMBDA item : AnswerTo(item, forecasts) = NONE)
  IN  [k \in DOMAIN open |-> Failure("MISSING_PANEL_ITEM", open[k])]

\* A decision keeps its intents; a panel drops them and reports what it misses.
Judge ==
  /\ phase = "judging"
  /\ phase' = "done"
  /\ \E judged \in {Judged} :
       \/ /\ task = "decision"
          /\ outcome' = [Nothing EXCEPT !.forecasts = judged.forecasts, !.intents = judged.intents]
          /\ failures' = failures \o judged.faults
       \/ /\ task = "panel"
          /\ outcome' = [Nothing EXCEPT !.answers = Answers(judged.forecasts)]
          /\ failures' = failures \o judged.faults \o Unanswered(judged.forecasts)
  /\ UNCHANGED <<task, turn, calls, results, budget, decision>>

Finished == phase \in {"done", "missing", "escaped"} /\ UNCHANGED vars

Step ==
  \/ \E response \in Responses : Ask(response)
  \/ Unreachable \/ RunOutOfTurns
  \/ RejectCall \/ EscapeCall \/ AnswerCall \/ ExhaustBudget \/ EndOfCalls
  \/ Judge

Next == Step \/ Finished
Spec == Init /\ [][Next]_vars
\* The loop is ordinary code: a step it can take, it takes.
FairSpec == Spec /\ WF_vars(Step)

-----------------------------------------------------------------------------
(* Properties *)

EndingKinds == {"REFUSAL", "MALFORMED_JSON", "TRUNCATED_OUTPUT", "BUDGET_EXHAUSTED"}

\* Everything the loop keeps has the shape the code gives it.
TypeOK ==
  /\ task \in {"decision", "panel"}
  /\ phase \in {"asking", "calling", "judging", "done", "missing", "escaped"}
  /\ turn \in 0..MAX_TURNS
  /\ budget.calls \in Nat /\ budget.chars \in Nat
  /\ phase = "calling" => decision = NONE

HandedOver(given) == UNION {{k} \X Characters(given[k].items) : k \in DOMAIN given}

\* ToolBudget.charge: neither cap is ever passed, and the balance is that of the
\* results the model was given: a call that was refused, malformed or unknown has
\* left no trace in it.
BudgetRespected ==
  /\ budget.calls <= MAX_CALLS /\ budget.chars <= MAX_CHARS
  /\ budget.calls = Len(results)
  /\ budget.chars = Cardinality(HandedOver(results))

Ending(k) == failures[k].kind \in EndingKinds \/ failures[k] = Failure("SCHEMA_VIOLATION", NONE)

\* DecisionAgent.decide: a loop that ended without a decision says why, once, and
\* nothing was dispatched or asked after that; a loop that ended with one has no
\* such failure.
EndingExplained ==
  phase = "done" /\ turn > 0 =>
    /\ Cardinality({k \in DOMAIN failures : Ending(k)}) = IF decision = NONE THEN 1 ELSE 0
    /\ \A k \in DOMAIN failures : Ending(k) =>
         \A j \in (k + 1)..Len(failures) : failures[j].kind = "MISSING_PANEL_ITEM"

\* _validate: what a decision keeps the snapshot can vouch for, and it lost
\* something exactly when one of its own failures says so.
OnlyFoundedClaims ==
  phase = "done" /\ task = "decision" /\ decision # NONE =>
    LET kept == ToSet(outcome.forecasts) \cup ToSet(outcome.intents)
        blamed == {k \in DOMAIN failures : failures[k].kind \in
                     {"UNRESOLVED_INSTRUMENT", "NONEXISTENT_EVIDENCE", "PROBABILITY_OUT_OF_RANGE"}}
    IN  /\ \A claim \in kept : Resolves(claim.instrument) /\ \A id \in ToSet(claim.cites) : Citable(id)
        /\ blamed = {} <=> /\ outcome.forecasts = decision.forecasts
                           /\ outcome.intents = decision.intents

\* PanelAgent.elicit: every question of the panel is answered by the last sound
\* probability given for it, or reported missing, and never both.
PanelAccounted ==
  phase = "done" /\ task = "panel" /\ turn > 0 =>
    /\ outcome.intents = <<>> /\ Len(outcome.answers) = Len(Panel)
    /\ \A k \in DOMAIN Panel :
         LET reported == {j \in DOMAIN failures : failures[j] = Failure("MISSING_PANEL_ITEM", Panel[k])}
         IN  IF outcome.answers[k] = NONE THEN Cardinality(reported) = 1
             ELSE /\ reported = {}
                  /\ \E j \in DOMAIN decision.forecasts :
                       /\ decision.forecasts[j] = outcome.answers[k]
                       /\ KeyOf(decision.forecasts[j]) = Panel[k]
                       /\ \A i \in (j + 1)..Len(decision.forecasts) :
                            KeyOf(decision.forecasts[i]) = Panel[k] => Faults(decision.forecasts[i]) # <<>>

\* search_news keeps the most recent of what matches: nothing it left out is newer
\* than anything it handed over.
NewsIsRecent ==
  \A k \in DOMAIN results : results[k].call.tool = "search_news" =>
    LET call == results[k].call
        given == ToSet(results[k].items)
        all == ToSet(NewsMatching(call.words, call.about))
    IN  /\ given \subseteq all
        /\ call.limit > 0 /\ all # {} => given # {}
        /\ \A e \in given, other \in all \ given : other.asOf <= e.asOf

\* Every decision comes to an end, whatever the model does with its turns.
DecisionEnds == <>(phase \in {"done", "missing", "escaped"})

\* decision.py:6-12: "converts every malformed or out-of-bounds thing the model does
\* into a recorded ObservedAgentFailure instead of letting it propagate as an
\* exception".
NothingEscapes == phase # "escaped"
=============================================================================
