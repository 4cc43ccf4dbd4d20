-------------------------- MODULE DecisionLoop_proofs --------------------------
(***************************************************************************)
(* Whatever a model answers, and for every budget, index and panel: the    *)
(* balance of a decision is that of the results it was given and stays     *)
(* within both caps; a loop that ends without a decision says why, once;   *)
(* what is kept of a claim the index vouches for; every question of a      *)
(* panel is accounted for; and the news left out is no newer than the news *)
(* handed over.                                                            *)
(***************************************************************************)
EXTENDS DecisionLoop, Order_proofs

\* What a model can ask for, and what it can be given.
Asked == UNION {ToSet(response.calls) : response \in Responses}
Given == [call : Asked, items : {Result(call) : call \in Asked}]

LoopType ==
  /\ phase \in {"asking", "calling", "judging", "done", "missing", "escaped"}
  /\ turn \in 0..MAX_TURNS
  /\ calls \in Seq(Asked)
  /\ results \in Seq(Given)
  /\ budget \in [calls : Nat, chars : Nat]

LoopInv == LoopType /\ BudgetRespected

-----------------------------------------------------------------------------
\* The characters of a result are finitely many: a cost is a number.
LEMMA CostIsNatural ==
  ASSUME NEW items
  PROVE  IsFiniteSet(Characters(items)) /\ CharCost(items) \in Nat
<1> DEFINE shelf == DOMAIN Evidence \cup DOMAIN Universe
<1>1. Len(Evidence) \in Nat /\ Len(Universe) \in Nat
      /\ DOMAIN Evidence = 1..Len(Evidence) /\ DOMAIN Universe = 1..Len(Universe)
  BY RetrievalAssumption
<1>2. IsFiniteSet(DOMAIN Evidence) /\ IsFiniteSet(DOMAIN Universe)
  BY <1>1, FS_Interval
<1>3. IsFiniteSet(shelf)
  BY <1>2, FS_Union
<1>4. IsFiniteSet(1..LONGEST)
  BY RetrievalAssumption, FS_Interval
<1>5. IsFiniteSet(shelf \X (1..LONGEST))
  BY <1>3, <1>4, FS_Product
<1>6. Characters(items) \in SUBSET (shelf \X (1..LONGEST))
  BY DEF Characters
<1>7. IsFiniteSet(Characters(items))
  BY <1>5, <1>6, FS_Subset
<1> QED
  BY <1>7, FS_CardinalityType DEF CharCost

\* A result added to the others adds its own characters to theirs.
LEMMA HandedOverGrows ==
  ASSUME NEW given \in Seq(Given), NEW one \in Given, IsFiniteSet(HandedOver(given))
  PROVE  /\ IsFiniteSet(HandedOver(Append(given, one)))
         /\ Cardinality(HandedOver(Append(given, one)))
              = Cardinality(HandedOver(given)) + CharCost(one.items)
<1> DEFINE n == Len(given) + 1
           more == Append(given, one)
           old == HandedOver(given)
           new == {n} \X Characters(one.items)
<1>1. /\ n \in Nat /\ DOMAIN given = 1..Len(given) /\ DOMAIN more = 1..n /\ Len(given) \in Nat
      /\ more[n] = one /\ \A k \in 1..Len(given) : more[k] = given[k]
  OBVIOUS
<1>2. HandedOver(more) = old \cup new
  <2>1. DOMAIN more = DOMAIN given \cup {n}
    BY <1>1
  <2>2. \A k \in DOMAIN given : more[k] = given[k]
    BY <1>1
  <2> QED
    BY <2>1, <2>2, <1>1 DEF HandedOver
<1>3. old \cap new = {}
  <2>1. n \notin DOMAIN given
    BY <1>1
  <2> QED
    BY <2>1 DEF HandedOver
<1>4. IsFiniteSet(Characters(one.items)) /\ CharCost(one.items) \in Nat
  BY CostIsNatural
<1>5. IsFiniteSet(new) /\ Cardinality(new) = CharCost(one.items)
  <2>1. IsFiniteSet({n}) /\ Cardinality({n}) = 1
    BY FS_Singleton
  <2>2. IsFiniteSet(new) /\ Cardinality(new) = Cardinality({n}) * Cardinality(Characters(one.items))
    BY <2>1, <1>4, FS_Product
  <2> QED
    BY <2>1, <2>2, <1>4 DEF CharCost
<1>6. Cardinality(old \cap new) = 0
  BY <1>3, FS_EmptySet
<1>7. /\ IsFiniteSet(old \cup new)
      /\ Cardinality(old \cup new) = Cardinality(old) + Cardinality(new) - Cardinality(old \cap new)
  BY <1>5, FS_Union
<1>8. Cardinality(old) \in Nat
  BY FS_CardinalityType
<1> QED
  BY <1>2, <1>4, <1>5, <1>6, <1>7, <1>8

\* The calls of a response are calls that can be asked for.
LEMMA CallsOfAResponse ==
  ASSUME NEW response \in Responses
  PROVE  response.calls \in Seq(Asked)
<1>1. response.calls \in Seq(ToSet(response.calls))
  BY DecisionAssumption
<1>2. ToSet(response.calls) \subseteq Asked
  BY DEF Asked
<1> QED
  BY <1>1, <1>2

-----------------------------------------------------------------------------
\* At the start nothing was spent and nothing handed over.
LEMMA LoopInit == Init => LoopInv /\ IsFiniteSet(HandedOver(results))
<1> SUFFICES ASSUME Init PROVE LoopInv /\ IsFiniteSet(HandedOver(results))
  OBVIOUS
<1> USE DecisionAssumption
<1>1. HandedOver(results) = {}
  BY DEF Init, HandedOver
<1>2. LoopType
  BY DEF Init, LoopType
<1>3. Cardinality({}) = 0 /\ IsFiniteSet({})
  BY FS_EmptySet
<1>4. budget.calls = 0 /\ budget.chars = 0 /\ Len(results) = 0
  BY DEF Init
<1>5. BudgetRespected
  BY <1>1, <1>3, <1>4 DEF BudgetRespected
<1> QED
  BY <1>1, <1>2, <1>3, <1>5 DEF LoopInv

\* Every step keeps it; only a call that is answered touches the balance.
LEMMA LoopStep ==
  LoopInv /\ IsFiniteSet(HandedOver(results)) /\ [Next]_vars
    => LoopInv' /\ IsFiniteSet(HandedOver(results))'
<1> SUFFICES ASSUME LoopInv, IsFiniteSet(HandedOver(results)), [Next]_vars
             PROVE  LoopInv' /\ IsFiniteSet(HandedOver(results))'
  OBVIOUS
<1> USE DecisionAssumption
<1>0. /\ phase' \in {"asking", "calling", "judging", "done", "missing", "escaped"} /\ turn' \in 0..MAX_TURNS
      /\ calls' \in Seq(Asked) /\ results' = results /\ budget' = budget
      => LoopInv' /\ IsFiniteSet(HandedOver(results))'
  BY DEF LoopInv, LoopType, BudgetRespected
<1>1. ASSUME NEW response \in Responses, Ask(response)
      PROVE  LoopInv' /\ IsFiniteSet(HandedOver(results))'
  <2>1. response.calls \in Seq(Asked)
    BY CallsOfAResponse
  <2>2. turn' \in 0..MAX_TURNS /\ results' = results /\ budget' = budget
    BY <1>1 DEF Ask, LoopInv, LoopType
  <2>3. phase' \in {"judging", "calling"} /\ calls' \in Seq(Asked)
    BY <1>1, <2>1 DEF Ask, HandleResponse, Stop, LoopInv, LoopType
  <2> QED
    BY <2>2, <2>3, <1>0
<1>2. CASE Unreachable
  BY <1>2, <1>0 DEF Unreachable, LoopInv, LoopType
<1>3. CASE RunOutOfTurns
  BY <1>3, <1>0 DEF RunOutOfTurns, Stop, LoopInv, LoopType
<1>4. CASE RejectCall
  <2>1. calls' \in Seq(Asked)
    BY <1>4 DEF RejectCall, LoopInv, LoopType
  <2> QED
    BY <1>4, <2>1, <1>0 DEF RejectCall, LoopInv, LoopType
<1>5. CASE EscapeCall
  BY <1>5, <1>0 DEF EscapeCall, LoopInv, LoopType
<1>6. CASE AnswerCall
  <2> DEFINE call == Head(calls)
             items == Result(call)
             one == [call |-> call, items |-> items]
  <2>1. calls \in Seq(Asked) /\ calls # <<>> /\ results \in Seq(Given)
    BY <1>6 DEF AnswerCall, LoopInv, LoopType
  <2>2. call \in Asked /\ calls' \in Seq(Asked)
    BY <2>1, <1>6 DEF AnswerCall
  <2>3. one \in Given
    BY <2>2 DEF Given
  <2>4. /\ results' = Append(results, one) /\ ~Exceeds(CharCost(items))
        /\ budget' = [calls |-> budget.calls + 1, chars |-> budget.chars + CharCost(items)]
        /\ phase' = phase /\ turn' = turn
    BY <1>6 DEF AnswerCall, Charge
  <2>5. CharCost(items) \in Nat
    BY CostIsNatural
  <2>6. /\ IsFiniteSet(HandedOver(Append(results, one)))
        /\ Cardinality(HandedOver(Append(results, one)))
             = Cardinality(HandedOver(results)) + CharCost(one.items)
    BY <2>1, <2>3, HandedOverGrows
  <2>7. IsFiniteSet(HandedOver(results))' /\ LoopType'
    <3>1. results' \in Seq(Given)
      BY <2>1, <2>3, <2>4
    <3>2. budget' \in [calls : Nat, chars : Nat]
      BY <2>4, <2>5 DEF LoopInv, LoopType
    <3>3. HandedOver(results)' = HandedOver(Append(results, one))
      BY <2>4 DEF HandedOver
    <3> QED
      BY <3>1, <3>2, <3>3, <2>2, <2>4, <2>6 DEF LoopInv, LoopType
  <2>8. budget'.calls <= MAX_CALLS /\ budget'.chars <= MAX_CHARS
    BY <2>4, <2>5 DEF Exceeds, LoopInv, LoopType
  <2>9. budget'.calls = Len(results') /\ budget'.chars = Cardinality(HandedOver(results)')
    <3>1. HandedOver(results)' = HandedOver(Append(results, one))
      BY <2>4 DEF HandedOver
    <3>2. budget.calls = Len(results) /\ budget.chars = Cardinality(HandedOver(results))
      BY DEF LoopInv, BudgetRespected
    <3>3. Len(results') = Len(results) + 1
      BY <2>1, <2>4
    <3> QED
      BY <3>1, <3>2, <3>3, <2>4, <2>6
  <2> QED
    BY <2>7, <2>8, <2>9 DEF LoopInv, BudgetRespected
<1>7. CASE ExhaustBudget
  BY <1>7, <1>0 DEF ExhaustBudget, Stop, LoopInv, LoopType
<1>8. CASE EndOfCalls
  BY <1>8, <1>0 DEF EndOfCalls, LoopInv, LoopType
<1>9. CASE Judge
  <2>1. phase' = "done" /\ UNCHANGED <<turn, calls, results, budget>>
    BY <1>9 DEF Judge
  <2> QED
    BY <2>1, <1>0 DEF LoopInv, LoopType
<1>10. CASE UNCHANGED vars
  BY <1>10, <1>0 DEF vars, LoopInv, LoopType
<1> QED
  BY <1>1, <1>2, <1>3, <1>4, <1>5, <1>6, <1>7, <1>8, <1>9, <1>10 DEF Next, Step, Finished

\* retrieval/budget.py: neither cap is ever passed, and what was spent is what was
\* handed over, for every model and every budget.
THEOREM BudgetAlwaysRespected == Spec => []BudgetRespected
<1>1. Init => LoopInv /\ IsFiniteSet(HandedOver(results))
  BY LoopInit
<1>2. LoopInv /\ IsFiniteSet(HandedOver(results)) /\ [Next]_vars
        => LoopInv' /\ IsFiniteSet(HandedOver(results))'
  BY LoopStep
<1>3. LoopInv => BudgetRespected
  BY DEF LoopInv
<1> QED
  BY <1>1, <1>2, <1>3, PTL DEF Spec
-----------------------------------------------------------------------------
(* What is said of a claim, and what is kept of a decision.               *)

FaultKinds == {"UNRESOLVED_INSTRUMENT", "NONEXISTENT_EVIDENCE", "PROBABILITY_OUT_OF_RANGE"}
Blames(names) == [kind : FaultKinds, what : names]

\* A claim is blamed for what the snapshot does not know of it, and only for that.
LEMMA UnfoundedSays ==
  ASSUME NEW names, NEW claim, claim.instrument \in names,
         claim.cites \in Seq(ToSet(claim.cites)), ToSet(claim.cites) \subseteq names
  PROVE  /\ Unfounded(claim) \in Seq(Blames(names))
         /\ Unfounded(claim) = << >> <=>
              Resolves(claim.instrument) /\ \A id \in ToSet(claim.cites) : Citable(id)
<1> DEFINE cites == claim.cites
           gone == {k \in DOMAIN cites : ~Citable(cites[k])}
           missing == Chosen(cites, gone)
           one == IF Resolves(claim.instrument) THEN << >>
                  ELSE <<Failure("UNRESOLVED_INSTRUMENT", claim.instrument)>>
           rest == [k \in DOMAIN missing |-> Failure("NONEXISTENT_EVIDENCE", missing[k])]
<1>1. Unfounded(claim) = one \o rest
  BY DEF Unfounded, Sift
<1>2. /\ missing \in Seq(ToSet(cites)) /\ (missing = << >> <=> gone = {})
      /\ DOMAIN missing = 1..Cardinality(gone) /\ Cardinality(gone) \in Nat
  BY ChosenIs
<1>3. one \in Seq(Blames(names)) /\ (one = << >> <=> Resolves(claim.instrument))
  <2>1. Failure("UNRESOLVED_INSTRUMENT", claim.instrument) \in Blames(names)
    BY DEF Blames, FaultKinds, Failure
  <2> QED
    BY <2>1, One
<1> HIDE DEF missing, one
<1>4. /\ rest \in Seq(Blames(names)) /\ Len(rest) = Cardinality(gone)
      /\ rest = << >> <=> missing = << >>
  <2>1. \A k \in 1..Cardinality(gone) : missing[k] \in names
    <3>1. \A k \in DOMAIN missing : missing[k] \in ToSet(cites)
      BY <1>2, Something
    <3> QED
      BY <1>2, <3>1
  <2>2. \A k \in 1..Cardinality(gone) : Failure("NONEXISTENT_EVIDENCE", missing[k]) \in Blames(names)
    BY <2>1 DEF Blames, FaultKinds, Failure
  <2>3. rest = [k \in 1..Cardinality(gone) |-> rest[k]]
    BY <1>2
  <2>4. \A k \in 1..Cardinality(gone) : rest[k] \in Blames(names)
    BY <1>2, <2>2
  <2>5. Cardinality(gone) = 0 <=> missing = << >>
    BY <1>2
  <2>6. PICK c \in Nat : c = Cardinality(gone)
    BY <1>2
  <2> HIDE DEF rest, gone
  <2>7. rest \in Seq(Blames(names)) /\ Len(rest) = c /\ (rest = << >> <=> c = 0)
    BY <2>3, <2>4, <2>6, Listed
  <2> QED
    BY <2>5, <2>6, <2>7
<1>5. gone = {} <=> \A id \in ToSet(cites) : Citable(id)
  BY DEF ToSet
<1> HIDE DEF rest, gone, cites
<1>6. /\ one \o rest \in Seq(Blames(names))
      /\ one \o rest = << >> <=> one = << >> /\ rest = << >>
  BY <1>3, <1>4
<1> QED
  BY <1>1, <1>2, <1>3, <1>4, <1>5, <1>6 DEF cites

\* A forecast is blamed for the same, and for its probability only if nothing else.
LEMMA FaultsSay ==
  ASSUME NEW names, NEW claim, claim.instrument \in names,
         claim.cites \in Seq(ToSet(claim.cites)), ToSet(claim.cites) \subseteq names
  PROVE  /\ Faults(claim) \in Seq(Blames(names))
         /\ Faults(claim) = << >> => Unfounded(claim) = << >>
<1>1. Unfounded(claim) \in Seq(Blames(names))
  BY UnfoundedSays
<1>2. Improbable(claim) \in Seq(Blames(names))
  <2>1. Failure("PROBABILITY_OUT_OF_RANGE", claim.instrument) \in Blames(names)
    BY DEF Blames, FaultKinds, Failure
  <2> QED
    BY <2>1, One DEF Improbable
<1> QED
  BY <1>1, <1>2 DEF Faults

Claims(d) == ToSet(d.forecasts) \cup ToSet(d.intents)
Named(d) == {claim.instrument : claim \in Claims(d)} \cup UNION {ToSet(claim.cites) : claim \in Claims(d)}

\* Both lemmas, of a claim of a decision.
LEMMA ClaimSays ==
  ASSUME NEW d, IsDecision(d), NEW claim \in Claims(d)
  PROVE  /\ Unfounded(claim) \in Seq(Blames(Named(d))) /\ Faults(claim) \in Seq(Blames(Named(d)))
         /\ Faults(claim) = << >> => Unfounded(claim) = << >>
         /\ Unfounded(claim) = << >> =>
              Resolves(claim.instrument) /\ \A id \in ToSet(claim.cites) : Citable(id)
<1>1. claim.cites \in Seq(ToSet(claim.cites))
  BY DEF IsDecision, Claims
<1>2. claim.instrument \in Named(d) /\ ToSet(claim.cites) \subseteq Named(d)
  BY DEF Named
<1> QED
  BY <1>1, <1>2, UnfoundedSays, FaultsSay

SoundForecasts(d) == {k \in DOMAIN d.forecasts : Faults(d.forecasts[k]) = << >>}
SoundIntents(d) == {k \in DOMAIN d.intents : Unfounded(d.intents[k]) = << >>}

\* What is judged sound of a decision is what is blamed for nothing.
LEMMA JudgedSays ==
  ASSUME decision # NONE, IsDecision(decision)
  PROVE  /\ Judged.forecasts = Chosen(decision.forecasts, SoundForecasts(decision))
         /\ Judged.intents = Chosen(decision.intents, SoundIntents(decision))
         /\ Judged.faults \in Seq(Blames(Named(decision)))
         /\ Judged.faults = << >> <=> /\ SoundForecasts(decision) = DOMAIN decision.forecasts
                                      /\ SoundIntents(decision) = DOMAIN decision.intents
<1>1. PICK d : d = decision
  OBVIOUS
<1> DEFINE B == Blames(Named(d))
           of == [k \in DOMAIN d.forecasts |-> Faults(d.forecasts[k])]
           oi == [k \in DOMAIN d.intents |-> Unfounded(d.intents[k])]
<1>2. /\ Judged.forecasts = Chosen(d.forecasts, SoundForecasts(d))
      /\ Judged.intents = Chosen(d.intents, SoundIntents(d))
      /\ Judged.faults = FlattenSeq(of) \o FlattenSeq(oi)
  BY <1>1 DEF Judged, Sift, SoundForecasts, SoundIntents
<1>3. d.forecasts \in Seq(ToSet(d.forecasts)) /\ d.intents \in Seq(ToSet(d.intents)) /\ IsDecision(d)
  BY <1>1 DEF IsDecision
<1>4. /\ \A k \in DOMAIN d.forecasts : d.forecasts[k] \in Claims(d)
      /\ \A k \in DOMAIN d.intents : d.intents[k] \in Claims(d)
  BY DEF Claims, ToSet
<1>5. /\ \A k \in DOMAIN d.forecasts : Faults(d.forecasts[k]) \in Seq(B)
      /\ \A k \in DOMAIN d.intents : Unfounded(d.intents[k]) \in Seq(B)
  BY <1>3, <1>4, ClaimSays
<1> HIDE DEF B
<1>6. /\ of \in Seq(Seq(B)) /\ DOMAIN of = DOMAIN d.forecasts
      /\ oi \in Seq(Seq(B)) /\ DOMAIN oi = DOMAIN d.intents
  <2>1. /\ Len(d.forecasts) \in Nat /\ DOMAIN d.forecasts = 1..Len(d.forecasts)
        /\ Len(d.intents) \in Nat /\ DOMAIN d.intents = 1..Len(d.intents)
    BY <1>3
  <2>2. /\ of = [k \in 1..Len(d.forecasts) |-> of[k]]
        /\ \A k \in 1..Len(d.forecasts) : of[k] \in Seq(B)
        /\ oi = [k \in 1..Len(d.intents) |-> oi[k]]
        /\ \A k \in 1..Len(d.intents) : oi[k] \in Seq(B)
    BY <1>5, <2>1
  <2> HIDE DEF of, oi
  <2> QED
    BY <2>1, <2>2, Listed
<1>8. /\ FlattenSeq(of) \in Seq(B)
      /\ FlattenSeq(of) = << >> <=> \A k \in DOMAIN d.forecasts : of[k] = << >>
  <2>1. /\ FlattenSeq(of) \in Seq(B)
        /\ \A x : x \in ToSet(FlattenSeq(of)) <=> \E k \in DOMAIN of : x \in ToSet(of[k])
    BY <1>6, FlattenSays
  <2> HIDE DEF of
  <2>2. \A k \in DOMAIN of : of[k] \in Seq(B)
    BY <1>6
  <2>3. \A k \in DOMAIN of : of[k] = << >> <=> ToSet(of[k]) = {}
    BY <2>2, Something
  <2>4. FlattenSeq(of) = << >> <=> ToSet(FlattenSeq(of)) = {}
    BY <2>1, Something
  <2> QED
    BY <1>6, <2>1, <2>3, <2>4
<1>9. /\ FlattenSeq(oi) \in Seq(B)
      /\ FlattenSeq(oi) = << >> <=> \A k \in DOMAIN d.intents : oi[k] = << >>
  <2>1. /\ FlattenSeq(oi) \in Seq(B)
        /\ \A x : x \in ToSet(FlattenSeq(oi)) <=> \E k \in DOMAIN oi : x \in ToSet(oi[k])
    BY <1>6, FlattenSays
  <2> HIDE DEF oi
  <2>2. \A k \in DOMAIN oi : oi[k] \in Seq(B)
    BY <1>6
  <2>3. \A k \in DOMAIN oi : oi[k] = << >> <=> ToSet(oi[k]) = {}
    BY <2>2, Something
  <2>4. FlattenSeq(oi) = << >> <=> ToSet(FlattenSeq(oi)) = {}
    BY <2>1, Something
  <2> QED
    BY <1>6, <2>1, <2>3, <2>4
<1>10. /\ (\A k \in DOMAIN d.forecasts : of[k] = << >>) <=> SoundForecasts(d) = DOMAIN d.forecasts
       /\ (\A k \in DOMAIN d.intents : oi[k] = << >>) <=> SoundIntents(d) = DOMAIN d.intents
  BY DEF SoundForecasts, SoundIntents
<1>11. /\ FlattenSeq(of) \o FlattenSeq(oi) \in Seq(B)
       /\ FlattenSeq(of) \o FlattenSeq(oi) = << >> <=> FlattenSeq(of) = << >> /\ FlattenSeq(oi) = << >>
  <2> DEFINE s == FlattenSeq(of)
             t == FlattenSeq(oi)
  <2>1. s \in Seq(B) /\ t \in Seq(B)
    BY <1>8, <1>9
  <2> HIDE DEF s, t
  <2>2. s \o t \in Seq(B) /\ (s \o t = << >> <=> s = << >> /\ t = << >>)
    BY <2>1, Joined
  <2> QED
    BY <2>2 DEF s, t
<1> QED
  BY <1>1, <1>2, <1>8, <1>9, <1>10, <1>11 DEF B
-----------------------------------------------------------------------------
\* A panel asks no question twice.
LEMMA PanelAsksOnce ==
  /\ Panel \in Seq(ToSet(Panel))
  /\ \A j, k \in DOMAIN Panel : Panel[j] = Panel[k] => j = k
<1> DEFINE kept == {k \in DOMAIN Universe : Universe[k].status = "ACTIVE" /\ Universe[k].id \in Priced}
           asked == Chosen(Universe, kept)
           size == Len(Horizons)
           item(n) == <<asked[((n - 1) \div size) + 1].id, Horizons[((n - 1) % size) + 1]>>
<1>1. /\ size \in Nat /\ DOMAIN Horizons = 1..size
      /\ \A i, j \in 1..size : Horizons[i] = Horizons[j] => i = j
  <2>1. Horizons \in Seq(ToSet(Horizons)) /\ IsInjective(Horizons)
    BY DecisionAssumption
  <2>2. size \in Nat /\ DOMAIN Horizons = 1..size
    BY <2>1
  <2> QED
    BY <2>1, <2>2 DEF IsInjective
<1>2. /\ Len(asked) \in Nat /\ DOMAIN asked = 1..Len(asked)
      /\ \A i, j \in 1..Len(asked) : asked[i].id = asked[j].id => i = j
  <2>1. Universe \in Seq(ToSet(Universe)) /\ kept \in SUBSET DOMAIN Universe
        /\ \A j, k \in DOMAIN Universe : Universe[j].id = Universe[k].id => j = k
    BY RetrievalAssumption
  <2> HIDE DEF kept
  <2>0. PICK c \in Nat : c = Cardinality(kept)
    <3>1. Cardinality(kept) \in Nat
      BY <2>1, ChosenIs
    <3> QED
      BY <3>1
  <2>2. /\ asked \in Seq(ToSet(Universe)) /\ Len(asked) = c /\ c \in Nat /\ DOMAIN asked = 1..c
        /\ \A i \in 1..c : Nth(kept, i) \in kept /\ asked[i] = Universe[Nth(kept, i)]
        /\ \A i, j \in 1..c : i < j => Nth(kept, i) < Nth(kept, j)
    BY <2>0, <2>1, ChosenIs
  <2> HIDE DEF asked
  <2>3. ASSUME NEW i \in 1..c, NEW j \in 1..c, asked[i].id = asked[j].id PROVE i = j
    <3>1. Nth(kept, i) = Nth(kept, j)
      BY <2>1, <2>2, <2>3
    <3>2. ~(i < j) /\ ~(j < i)
      <4>1. DOMAIN Universe = 1..Len(Universe) /\ Len(Universe) \in Nat
        BY <2>1
      <4>2. Nth(kept, i) \in Nat
        BY <2>1, <2>2, <4>1
      <4> QED
        BY <2>2, <3>1, <4>2
    <3> QED
      BY <2>2, <3>2
  <2> QED
    BY <2>2, <2>3
<1>3. PICK N \in Nat : N = Len(asked) * size
  <2> HIDE DEF asked, size, kept
  <2> QED
    BY <1>1, <1>2
<1>4. Panel = [n \in 1..N |-> item(n)]
  BY <1>3 DEF Panel, BuildPanel, Sift
<1> HIDE DEF asked, size, kept
<1>5. DOMAIN Panel = 1..N /\ \A n \in 1..N : Panel[n] = item(n)
  BY <1>4
<1>6. Panel \in Seq(ToSet(Panel))
  <2>1. Panel = [n \in 1..N |-> Panel[n]]
    BY <1>4
  <2>2. \A n \in 1..N : Panel[n] \in ToSet(Panel)
    BY <1>5 DEF ToSet
  <2> QED
    BY <2>1, <2>2, Listed
<1>7. ASSUME NEW j \in 1..N, NEW k \in 1..N, item(j) = item(k) PROVE j = k
  <2>1. /\ ((j - 1) \div size) + 1 \in 1..Len(asked) /\ ((j - 1) % size) + 1 \in 1..size
        /\ j = size * ((j - 1) \div size) + ((j - 1) % size) + 1
        /\ (j - 1) \div size \in Int /\ (j - 1) % size \in Int
    BY <1>1, <1>2, <1>3, Rows
  <2>2. /\ ((k - 1) \div size) + 1 \in 1..Len(asked) /\ ((k - 1) % size) + 1 \in 1..size
        /\ k = size * ((k - 1) \div size) + ((k - 1) % size) + 1
        /\ (k - 1) \div size \in Int /\ (k - 1) % size \in Int
    BY <1>1, <1>2, <1>3, Rows
  <2>3. /\ asked[((j - 1) \div size) + 1].id = asked[((k - 1) \div size) + 1].id
        /\ Horizons[((j - 1) % size) + 1] = Horizons[((k - 1) % size) + 1]
    BY <1>7
  <2>4. /\ ((j - 1) \div size) + 1 = ((k - 1) \div size) + 1
        /\ ((j - 1) % size) + 1 = ((k - 1) % size) + 1
    BY <1>1, <1>2, <2>1, <2>2, <2>3
  <2>5. (j - 1) \div size = (k - 1) \div size /\ (j - 1) % size = (k - 1) % size
    BY <2>1, <2>2, <2>4
  <2> QED
    BY <2>1, <2>2, <2>5
<1> HIDE DEF item
<1>8. ASSUME NEW j \in DOMAIN Panel, NEW k \in DOMAIN Panel, Panel[j] = Panel[k] PROVE j = k
  BY <1>5, <1>7, <1>8
<1> QED
  BY <1>6, <1>8

\* The answer to a question is the last sound forecast that answers it.
LEMMA AnswerSays ==
  ASSUME NEW d, IsDecision(d), NEW item,
         AnswerTo(item, Chosen(d.forecasts, SoundForecasts(d))) # NONE
  PROVE  \E j \in DOMAIN d.forecasts :
           /\ d.forecasts[j] = AnswerTo(item, Chosen(d.forecasts, SoundForecasts(d)))
           /\ KeyOf(d.forecasts[j]) = item
           /\ \A i \in (j + 1)..Len(d.forecasts) :
                KeyOf(d.forecasts[i]) = item => Faults(d.forecasts[i]) # << >>
<1> DEFINE fs == d.forecasts
           S == ToSet(fs)
           kept == SoundForecasts(d)
           sound == Chosen(fs, kept)
           mine == {k \in DOMAIN sound : KeyOf(sound[k]) = item}
           given == Chosen(sound, mine)
           answer == AnswerTo(item, sound)
<1>1. /\ fs \in Seq(S) /\ kept \in SUBSET DOMAIN fs
      /\ DOMAIN fs = 1..Len(fs) /\ Len(fs) \in Nat
      /\ \A k \in DOMAIN fs : k \in kept <=> Faults(fs[k]) = << >>
  BY DEF IsDecision, SoundForecasts
<1>2. PICK c \in Nat : c = Cardinality(kept)
  BY <1>1, ChosenIs
<1> HIDE DEF fs, S, kept, sound
<1>3. /\ sound \in Seq(S) /\ DOMAIN sound = 1..c
      /\ \A i \in 1..c : Nth(kept, i) \in kept /\ sound[i] = fs[Nth(kept, i)]
      /\ \A k \in kept : \E i \in 1..c : Nth(kept, i) = k /\ sound[i] = fs[k]
      /\ \A i, j \in 1..c : i < j => Nth(kept, i) < Nth(kept, j)
  BY <1>1, <1>2, ChosenIs DEF sound
<1>4. mine \in SUBSET DOMAIN sound /\ mine # {} /\ answer = given[Len(given)]
  <2>1. answer = IF given = << >> THEN NONE ELSE given[Len(given)]
    BY DEF AnswerTo, Sift
  <2>2. given # << >>
    BY <2>1 DEF sound, fs, kept
  <2>3. given = << >> <=> mine = {}
    BY <1>3, ChosenIs
  <2> QED
    BY <2>1, <2>2, <2>3
<1> HIDE DEF given, mine, answer
<1>5. PICK last \in mine : answer = sound[last] /\ \A k \in mine : k <= last
  <2>1. \E last \in mine : given[Len(given)] = sound[last] /\ \A k \in mine : k <= last
    BY <1>3, <1>4, ChosenSays DEF given
  <2> QED
    BY <1>4, <2>1
<1>6. last \in 1..c /\ KeyOf(sound[last]) = item
  BY <1>3, <1>5 DEF mine
<1> DEFINE j == Nth(kept, last)
<1>7. j \in kept /\ j \in DOMAIN fs /\ answer = fs[j] /\ KeyOf(fs[j]) = item
  BY <1>1, <1>3, <1>5, <1>6
<1>8. ASSUME NEW i \in (j + 1)..Len(fs), KeyOf(fs[i]) = item, Faults(fs[i]) = << >>
      PROVE  FALSE
  <2>1. i \in kept /\ j < i /\ i \in Nat /\ j \in Nat
    BY <1>1, <1>7, <1>8
  <2>2. PICK m \in 1..c : Nth(kept, m) = i /\ sound[m] = fs[i]
    BY <1>3, <2>1
  <2>3. m \in mine
    BY <1>3, <1>8, <2>2 DEF mine
  <2>4. m <= last /\ m # last
    BY <1>5, <2>1, <2>2, <2>3
  <2>5. m < last
    BY <1>6, <2>4
  <2>6. Nth(kept, m) < Nth(kept, last)
    BY <1>3, <1>6, <2>5
  <2> QED
    BY <2>1, <2>2, <2>6
<1> QED
  BY <1>1, <1>7, <1>8 DEF fs, kept, sound, answer
-----------------------------------------------------------------------------
(* The failures a decision reports: those of its calls, of its ending, of  *)
(* its claims and of its panel, in that order.                             *)

Rejections == {Failure("SCHEMA_VIOLATION", call.tool) : call \in Asked}
Endings == {Failure(kind, NONE) : kind \in EndingKinds \cup {"SCHEMA_VIOLATION"}}
Misses == {Failure("MISSING_PANEL_ITEM", item) : item \in ToSet(Panel)}

IsEnding(f) == f.kind \in EndingKinds \/ f = Failure("SCHEMA_VIOLATION", NONE)
IsBlame(f) == f.kind \in FaultKinds
IsMiss(f) == f.kind = "MISSING_PANEL_ITEM"

\* Which failure is which.
LEMMA Kinds ==
  /\ \A f \in Rejections : ~IsEnding(f) /\ ~IsBlame(f) /\ ~IsMiss(f)
  /\ \A f \in Endings : IsEnding(f) /\ ~IsBlame(f) /\ ~IsMiss(f)
  /\ \A f \in Misses : ~IsEnding(f) /\ ~IsBlame(f) /\ IsMiss(f)
  /\ \A names : \A f \in Blames(names) : ~IsEnding(f) /\ IsBlame(f) /\ ~IsMiss(f)
<1>1. ASSUME NEW f \in Rejections PROVE ~IsEnding(f) /\ ~IsBlame(f) /\ ~IsMiss(f)
  <2>1. PICK call \in Asked : f = Failure("SCHEMA_VIOLATION", call.tool)
    BY DEF Rejections
  <2>2. call.tool # NONE
    BY DecisionAssumption DEF Asked
  <2> QED
    BY <2>1, <2>2 DEF IsEnding, IsBlame, IsMiss, Failure, EndingKinds, FaultKinds
<1>2. ASSUME NEW f \in Endings PROVE IsEnding(f) /\ ~IsBlame(f) /\ ~IsMiss(f)
  BY DEF Endings, IsEnding, IsBlame, IsMiss, Failure, EndingKinds, FaultKinds
<1>3. ASSUME NEW f \in Misses PROVE ~IsEnding(f) /\ ~IsBlame(f) /\ IsMiss(f)
  BY DEF Misses, IsEnding, IsBlame, IsMiss, Failure, EndingKinds, FaultKinds
<1>4. ASSUME NEW names, NEW f \in Blames(names) PROVE ~IsEnding(f) /\ IsBlame(f) /\ ~IsMiss(f)
  BY DEF Blames, IsEnding, IsBlame, IsMiss, Failure, EndingKinds, FaultKinds
<1> QED
  BY <1>1, <1>2, <1>3, <1>4

\* What was observed before anything is judged.
Observed ==
  /\ phase \in {"asking", "calling"} => failures \in Seq(Rejections)
  /\ phase = "judging" /\ decision # NONE => failures \in Seq(Rejections)
  /\ phase = "judging" /\ decision = NONE =>
       \E before \in Seq(Rejections), last \in Endings : failures = Append(before, last)

Open(forecasts) == {k \in DOMAIN Panel : AnswerTo(Panel[k], forecasts) = NONE}

\* The first a failures are of before, the next b of the claims, the last c of the panel.
Reported(new, a, b, c) ==
  /\ new \in Seq(ToSet(new)) /\ Len(new) = a + b + c /\ DOMAIN new = 1..(a + b + c)
  /\ \A k \in 1..a : ~IsBlame(new[k]) /\ ~IsMiss(new[k])
  /\ decision # NONE => \A k \in 1..a : ~IsEnding(new[k])
  /\ decision = NONE => /\ a > 0 /\ b = 0 /\ IsEnding(new[a])
                        /\ \A k \in 1..(a - 1) : ~IsEnding(new[k])
  /\ \A k \in 1..b : IsBlame(new[a + k]) /\ ~IsMiss(new[a + k]) /\ ~IsEnding(new[a + k])
  /\ \A k \in 1..c : IsMiss(new[a + b + k]) /\ ~IsBlame(new[a + b + k]) /\ ~IsEnding(new[a + b + k])
  /\ b = 0 <=> Judged.faults = << >>
  /\ task = "decision" => c = 0
  /\ task = "panel" =>
       /\ c = Cardinality(Open(Judged.forecasts))
       /\ \A k \in 1..c : new[a + b + k] =
            Failure("MISSING_PANEL_ITEM", Panel[Nth(Open(Judged.forecasts), k)])

LEMMA JudgeReports ==
  ASSUME task \in {"decision", "panel"}, decision # NONE => IsDecision(decision), Observed, Judge
  PROVE  \E a, b, c \in Nat : Reported(failures', a, b, c)
<1> DEFINE more == IF task = "panel" THEN Unanswered(Judged.forecasts) ELSE << >>
           open == Open(Judged.forecasts)
           chosen == Chosen(Panel, open)
<1>0. PICK names : decision # NONE => names = Named(decision)
  OBVIOUS
<1> DEFINE S == Rejections \cup Endings \cup Blames(names) \cup Misses
<1>1. failures' = (failures \o Judged.faults) \o more
  <2>1. CASE task = "panel"
    BY <2>1 DEF Judge
  <2>2. CASE task = "decision"
    <3>1. failures' = failures \o Judged.faults
      BY <2>2 DEF Judge
    <3>2. failures \in Seq(S) /\ Judged.faults \in Seq(S)
      <4>1. CASE decision = NONE
        <5>1. Judged.faults = << >>
          BY <4>1 DEF Judged
        <5>2. PICK before \in Seq(Rejections), last \in Endings : failures = Append(before, last)
          BY <4>1 DEF Judge, Observed
        <5> QED
          BY <5>1, <5>2
      <4>2. CASE decision # NONE
        <5>1. failures \in Seq(Rejections) /\ Judged.faults \in Seq(Blames(names))
          BY <1>0, <4>2, JudgedSays DEF Judge, Observed
        <5> QED
          BY <5>1
      <4> QED
        BY <4>1, <4>2
    <3> QED
      BY <2>2, <3>1, <3>2
  <2> QED
    BY <2>1, <2>2
<1>2. /\ more \in Seq(Misses)
      /\ task = "decision" => Len(more) = 0
      /\ task = "panel" =>
           /\ Len(more) = Cardinality(open)
           /\ \A k \in 1..Len(more) : more[k] = Failure("MISSING_PANEL_ITEM", Panel[Nth(open, k)])
  <2>1. CASE task = "decision"
    BY <2>1
  <2>2. CASE task = "panel"
    <3>1. open \in SUBSET DOMAIN Panel /\ Panel \in Seq(ToSet(Panel))
      BY PanelAsksOnce DEF Open
    <3>2. more = [k \in DOMAIN chosen |-> Failure("MISSING_PANEL_ITEM", chosen[k])]
      BY <2>2 DEF Unanswered, Sift, Open
    <3> HIDE DEF open, more
    <3>3. PICK c \in Nat : c = Cardinality(open)
      <4>1. Cardinality(open) \in Nat
        BY <3>1, ChosenIs
      <4> QED
        BY <4>1
    <3>4. /\ DOMAIN chosen = 1..c /\ \A i \in 1..c : Nth(open, i) \in open /\ chosen[i] = Panel[Nth(open, i)]
      BY <3>1, <3>3, ChosenIs
    <3>5. \A k \in 1..c : Failure("MISSING_PANEL_ITEM", chosen[k]) \in Misses
      BY <3>1, <3>4 DEF Misses, ToSet
    <3> HIDE DEF chosen
    <3>6. /\ more = [k \in 1..c |-> more[k]] /\ \A k \in 1..c : more[k] \in Misses
          /\ \A k \in 1..c : more[k] = Failure("MISSING_PANEL_ITEM", Panel[Nth(open, k)])
      BY <3>2, <3>4, <3>5
    <3>7. more \in Seq(Misses) /\ Len(more) = c
      BY <3>6, Listed
    <3> QED
      BY <2>2, <3>3, <3>6, <3>7
  <2> QED
    BY <2>1, <2>2
<1> HIDE DEF more, open
<1>3. /\ failures \in Seq(S) /\ Judged.faults \in Seq(Blames(names))
      /\ decision # NONE => failures \in Seq(Rejections)
      /\ decision = NONE =>
           /\ Judged.faults = << >> /\ Len(failures) \in Nat \ {0}
           /\ failures[Len(failures)] \in Endings
           /\ \A k \in 1..(Len(failures) - 1) : failures[k] \in Rejections
  <2>1. CASE decision = NONE
    <3>1. Judged.faults = << >>
      BY <2>1 DEF Judged
    <3>2. PICK before \in Seq(Rejections), last \in Endings : failures = Append(before, last)
      BY <2>1 DEF Judge, Observed
    <3> QED
      BY <2>1, <3>1, <3>2
  <2>2. CASE decision # NONE
    <3>1. failures \in Seq(Rejections) /\ Judged.faults \in Seq(Blames(names))
      BY <1>0, <2>2, JudgedSays DEF Judge, Observed
    <3> QED
      BY <2>2, <3>1
  <2> QED
    BY <2>1, <2>2
<1>4. PICK old, blame : old = failures /\ blame = Judged.faults
  OBVIOUS
<1>5. PICK extra : extra = more
  OBVIOUS
<1>6. old \in Seq(S) /\ blame \in Seq(S) /\ extra \in Seq(S)
  <2>1. blame \in Seq(Blames(names)) /\ extra \in Seq(Misses)
    BY <1>2, <1>3, <1>4, <1>5
  <2> QED
    BY <1>3, <1>4, <2>1
<1> DEFINE a == Len(old)
           b == Len(blame)
           c == Len(extra)
           new == (old \o blame) \o extra
<1> HIDE DEF S
<1>7. /\ a \in Nat /\ b \in Nat /\ c \in Nat
      /\ new \in Seq(S) /\ Len(new) = a + b + c /\ DOMAIN new = 1..(a + b + c)
      /\ \A k \in 1..a : k \in DOMAIN old /\ new[k] = old[k]
      /\ \A k \in 1..b : k \in DOMAIN blame /\ new[a + k] = blame[k]
      /\ \A k \in 1..c : k \in DOMAIN extra /\ new[a + b + k] = extra[k]
  BY <1>6, JoinedTwice
<1>8. failures' = new
  BY <1>1, <1>4, <1>5
<1> HIDE DEF new, a, b, c
<1>9. new \in Seq(ToSet(new))
  BY <1>7 DEF ToSet
<1>10. \A k \in 1..b : IsBlame(new[a + k]) /\ ~IsMiss(new[a + k]) /\ ~IsEnding(new[a + k])
  <2> TAKE k \in 1..b
  <2>1. blame[k] \in Blames(names)
    BY <1>3, <1>4, <1>7
  <2> QED
    BY <1>7, <2>1, Kinds
<1>11. \A k \in 1..c : IsMiss(new[a + b + k]) /\ ~IsBlame(new[a + b + k]) /\ ~IsEnding(new[a + b + k])
  <2> TAKE k \in 1..c
  <2>1. extra[k] \in Misses
    BY <1>2, <1>5, <1>7
  <2> QED
    BY <1>7, <2>1, Kinds
<1>12. /\ \A k \in 1..a : ~IsBlame(new[k]) /\ ~IsMiss(new[k])
       /\ decision # NONE => \A k \in 1..a : ~IsEnding(new[k])
       /\ decision = NONE => /\ a > 0 /\ b = 0 /\ IsEnding(new[a])
                             /\ \A k \in 1..(a - 1) : ~IsEnding(new[k])
  <2>1. CASE decision # NONE
    <3>1. \A k \in 1..a : old[k] \in Rejections
      BY <1>3, <1>4, <1>7, <2>1
    <3> QED
      BY <1>7, <2>1, <3>1, Kinds
  <2>2. CASE decision = NONE
    <3>1. /\ a \in Nat \ {0} /\ old[a] \in Endings /\ \A k \in 1..(a - 1) : old[k] \in Rejections
          /\ blame = << >>
      BY <1>3, <1>4, <2>2 DEF a
    <3>2. b = 0
      BY <3>1 DEF b
    <3>3. \A k \in 1..a : k = a \/ k \in 1..(a - 1)
      BY <3>1
    <3>4. a \in 1..a /\ \A k \in 1..(a - 1) : k \in 1..a
      BY <3>1
    <3> QED
      BY <1>7, <2>2, <3>1, <3>2, <3>3, <3>4, Kinds
  <2> QED
    BY <2>1, <2>2
<1>13. b = 0 <=> blame = << >>
  BY <1>6 DEF b
<1>14. /\ task = "decision" => c = 0
       /\ task = "panel" =>
            /\ c = Cardinality(open)
            /\ \A k \in 1..c : new[a + b + k] = Failure("MISSING_PANEL_ITEM", Panel[Nth(open, k)])
  BY <1>2, <1>5, <1>7 DEF c
<1>15. Reported(new, a, b, c)
  BY <1>4, <1>7, <1>9, <1>10, <1>11, <1>12, <1>13, <1>14 DEF Reported, open
<1> QED
  BY <1>7, <1>8, <1>15
\* A position is one of before, of the claims or of the panel.
IsPart(k, a, b, c) == \/ k \in 1..a
                      \/ \E i \in 1..b : k = a + i
                      \/ \E i \in 1..c : k = a + b + i

LEMMA Parts ==
  ASSUME NEW a \in Nat, NEW b \in Nat, NEW c \in Nat, NEW k \in 1..(a + b + c)
  PROVE  IsPart(k, a, b, c)
<1>1. CASE k <= a
  BY <1>1 DEF IsPart
<1>2. CASE a < k /\ k <= a + b
  <2>1. k - a \in 1..b /\ k = a + (k - a)
    BY <1>2
  <2> QED
    BY <2>1 DEF IsPart
<1>3. CASE a + b < k
  <2>1. k - (a + b) \in 1..c /\ k = a + b + (k - (a + b))
    BY <1>3
  <2> QED
    BY <2>1 DEF IsPart
<1> QED
  BY <1>1, <1>2, <1>3

\* Judged, exactly a loop without a decision has one failure of its ending.
LEMMA EndingAtJudge ==
  ASSUME NEW a \in Nat, NEW b \in Nat, NEW c \in Nat, Reported(failures', a, b, c), decision' = decision
  PROVE  EndingExplained'
<1> DEFINE new == failures'
           E == {k \in DOMAIN new : IsEnding(new[k])}
<1>1. /\ DOMAIN new = 1..(a + b + c) /\ Len(new) = a + b + c
      /\ decision # NONE => \A k \in 1..a : ~IsEnding(new[k])
      /\ decision = NONE => /\ a > 0 /\ b = 0 /\ IsEnding(new[a])
                            /\ \A k \in 1..(a - 1) : ~IsEnding(new[k])
      /\ \A k \in 1..b : ~IsEnding(new[a + k])
      /\ \A k \in 1..c : IsMiss(new[a + b + k]) /\ ~IsEnding(new[a + b + k])
  BY DEF Reported
<1> HIDE DEF new
<1>2. CASE decision # NONE
  <2>1. E = {}
    <3>1. ASSUME NEW k \in DOMAIN new, IsEnding(new[k]) PROVE FALSE
      <4>1. k \in 1..(a + b + c)
        BY <1>1
      <4>2. IsPart(k, a, b, c)
        BY <4>1, Parts
      <4> QED
        BY <1>1, <1>2, <3>1, <4>2 DEF IsPart
    <3> QED
      BY <3>1
  <2> HIDE DEF E
  <2>2. Cardinality(E) = 0
    BY <2>1, FS_EmptySet
  <2> QED
    BY <1>2, <2>1, <2>2 DEF E, new, EndingExplained, Ending, IsEnding
<1>3. CASE decision = NONE
  <2>1. a \in DOMAIN new /\ IsEnding(new[a])
    BY <1>1, <1>3
  <2>2. ASSUME NEW k \in DOMAIN new, IsEnding(new[k]) PROVE k = a
    <3>1. k \notin 1..(a - 1)
      BY <1>1, <1>3, <2>2
    <3>2. \A i \in 1..b : k # a + i
      BY <1>1, <1>3
    <3>3. \A i \in 1..c : k # a + b + i
      BY <1>1, <2>2
    <3>4. k \in 1..a
      <4>1. k \in 1..(a + b + c)
        BY <1>1
      <4>2. IsPart(k, a, b, c)
        BY <4>1, Parts
      <4> QED
        BY <3>2, <3>3, <4>2 DEF IsPart
    <3> QED
      BY <3>1, <3>4
  <2>3. E = {a}
    BY <2>1, <2>2
  <2>4. ASSUME NEW j \in (a + 1)..Len(new) PROVE new[j].kind = "MISSING_PANEL_ITEM"
    <3>1. j \in 1..(a + b + c) /\ j \notin 1..a /\ b = 0
      BY <1>1, <1>3
    <3>2. PICK i \in 1..c : j = a + b + i
      BY <3>1, Parts DEF IsPart
    <3> QED
      BY <1>1, <3>2 DEF IsMiss
  <2> HIDE DEF E
  <2>5. Cardinality(E) = 1
    BY <2>3, FS_Singleton
  <2>6. \A k \in DOMAIN new : IsEnding(new[k]) => \A j \in (k + 1)..Len(new) : new[j].kind = "MISSING_PANEL_ITEM"
    BY <2>2, <2>4
  <2> QED
    BY <1>3, <2>5, <2>6 DEF E, new, EndingExplained, Ending, IsEnding
<1> QED
  BY <1>2, <1>3

\* Judged, a decision has kept what is founded, and is blamed for the rest.
LEMMA ClaimsAtJudge ==
  ASSUME NEW a \in Nat, NEW b \in Nat, NEW c \in Nat, Reported(failures', a, b, c),
         decision # NONE => IsDecision(decision), Judge
  PROVE  OnlyFoundedClaims'
<1> SUFFICES ASSUME task = "decision", decision # NONE PROVE OnlyFoundedClaims'
  BY DEF OnlyFoundedClaims, Judge
<1>1. PICK d : d = decision
  OBVIOUS
<1> DEFINE new == failures'
           blamed == {k \in DOMAIN new : IsBlame(new[k])}
<1>2. /\ DOMAIN new = 1..(a + b + c)
      /\ \A k \in 1..a : ~IsBlame(new[k])
      /\ \A k \in 1..b : IsBlame(new[a + k])
      /\ c = 0 /\ (b = 0 <=> Judged.faults = << >>)
  BY DEF Reported
<1> HIDE DEF new
<1>3. blamed = {} <=> Judged.faults = << >>
  <2>1. b # 0 => a + 1 \in DOMAIN new /\ IsBlame(new[a + 1])
    BY <1>2
  <2>2. ASSUME b = 0, NEW k \in DOMAIN new, IsBlame(new[k]) PROVE FALSE
    BY <1>2, <2>2
  <2> QED
    BY <1>2, <2>1, <2>2
<1>4. /\ IsDecision(d) /\ d # NONE /\ decision' = d
      /\ Judged.forecasts = Chosen(d.forecasts, SoundForecasts(d))
      /\ Judged.intents = Chosen(d.intents, SoundIntents(d))
      /\ Judged.faults = << >> <=> /\ SoundForecasts(d) = DOMAIN d.forecasts
                                   /\ SoundIntents(d) = DOMAIN d.intents
  BY <1>1, JudgedSays DEF Judge
<1>5. outcome'.forecasts = Judged.forecasts /\ outcome'.intents = Judged.intents
  BY DEF Judge, Nothing
<1>6. /\ d.forecasts \in Seq(ToSet(d.forecasts)) /\ SoundForecasts(d) \in SUBSET DOMAIN d.forecasts
      /\ d.intents \in Seq(ToSet(d.intents)) /\ SoundIntents(d) \in SUBSET DOMAIN d.intents
  BY <1>4 DEF IsDecision, SoundForecasts, SoundIntents
<1>7. /\ Judged.forecasts = d.forecasts <=> SoundForecasts(d) = DOMAIN d.forecasts
      /\ Judged.intents = d.intents <=> SoundIntents(d) = DOMAIN d.intents
  BY <1>4, <1>6, ChosenIs
<1>8. ASSUME NEW claim \in ToSet(Judged.forecasts) \cup ToSet(Judged.intents)
      PROVE  Resolves(claim.instrument) /\ \A id \in ToSet(claim.cites) : Citable(id)
  <2>1. CASE claim \in ToSet(Judged.forecasts)
    <3>1. PICK k \in SoundForecasts(d) : claim = d.forecasts[k]
      BY <1>4, <1>6, <2>1, ChosenSays
    <3>2. claim \in Claims(d) /\ Faults(claim) = << >>
      BY <3>1 DEF SoundForecasts, Claims, ToSet
    <3> QED
      BY <1>4, <3>2, ClaimSays
  <2>2. CASE claim \in ToSet(Judged.intents)
    <3>1. PICK k \in SoundIntents(d) : claim = d.intents[k]
      BY <1>4, <1>6, <2>2, ChosenSays
    <3>2. claim \in Claims(d) /\ Unfounded(claim) = << >>
      BY <3>1 DEF SoundIntents, Claims, ToSet
    <3> QED
      BY <1>4, <3>2, ClaimSays
  <2> QED
    BY <2>1, <2>2
<1>9. PICK out, said, sure : out = outcome' /\ said = decision' /\ sure = Judged
  OBVIOUS
<1>10. /\ \A claim \in ToSet(out.forecasts) \cup ToSet(out.intents) :
            Resolves(claim.instrument) /\ \A id \in ToSet(claim.cites) : Citable(id)
       /\ blamed = {} <=> out.forecasts = said.forecasts /\ out.intents = said.intents
  BY <1>3, <1>4, <1>5, <1>7, <1>8, <1>9
<1> QED
  BY <1>9, <1>10 DEF OnlyFoundedClaims, new, IsBlame, FaultKinds
\* Judged, a panel has an answer or one report for every question.
LEMMA PanelAtJudge ==
  ASSUME NEW a \in Nat, NEW b \in Nat, NEW c \in Nat, Reported(failures', a, b, c),
         decision # NONE => IsDecision(decision), Judge
  PROVE  PanelAccounted'
<1> SUFFICES ASSUME task = "panel" PROVE PanelAccounted'
  BY DEF PanelAccounted, Judge
<1> DEFINE new == failures'
           open == Open(Judged.forecasts)
<1>1. PICK d, sound : d = decision /\ sound = Judged.forecasts
  OBVIOUS
<1>2. /\ DOMAIN new = 1..(a + b + c)
      /\ \A k \in 1..a : ~IsMiss(new[k])
      /\ \A k \in 1..b : ~IsMiss(new[a + k])
      /\ c = Cardinality(open)
      /\ \A k \in 1..c : new[a + b + k] = Failure("MISSING_PANEL_ITEM", Panel[Nth(open, k)])
  BY DEF Reported
<1>3. /\ Panel \in Seq(ToSet(Panel)) /\ open \in SUBSET DOMAIN Panel
      /\ \A j, k \in DOMAIN Panel : Panel[j] = Panel[k] => j = k
      /\ \A k \in DOMAIN Panel : k \in open <=> AnswerTo(Panel[k], sound) = NONE
  BY <1>1, PanelAsksOnce DEF Open
<1> HIDE DEF new, open
<1>4. /\ \A i \in 1..c : Nth(open, i) \in open
      /\ \A k \in open : \E i \in 1..c : Nth(open, i) = k
      /\ \A i, j \in 1..c : i < j => Nth(open, i) < Nth(open, j)
  BY <1>2, <1>3, ChosenIs
<1>5. /\ outcome'.intents = << >> /\ outcome'.answers = Answers(sound) /\ decision' = d
  BY <1>1 DEF Judge, Nothing
<1>6. /\ DOMAIN Panel = 1..Len(Panel) /\ Len(Panel) \in Nat
      /\ Len(Answers(sound)) = Len(Panel) /\ \A k \in DOMAIN Panel : Answers(sound)[k] = AnswerTo(Panel[k], sound)
  BY <1>3 DEF Answers
<1>7. ASSUME NEW k \in DOMAIN Panel, NEW j \in DOMAIN new, new[j] = Failure("MISSING_PANEL_ITEM", Panel[k])
      PROVE  \E i \in 1..c : j = a + b + i /\ Nth(open, i) = k
  <2>0. j \in 1..(a + b + c)
    BY <1>2
  <2>1. IsMiss(new[j])
    BY <1>2, <1>7 DEF IsMiss, Failure
  <2>2. IsPart(j, a, b, c)
    BY <2>0, Parts
  <2>3. PICK i \in 1..c : j = a + b + i
    BY <1>2, <2>1, <2>2 DEF IsPart
  <2>4. Failure("MISSING_PANEL_ITEM", Panel[k]) = Failure("MISSING_PANEL_ITEM", Panel[Nth(open, i)])
    BY <1>2, <1>7, <2>3
  <2>5. Panel[k] = Panel[Nth(open, i)]
    BY <2>4 DEF Failure
  <2> QED
    BY <1>3, <1>4, <2>3, <2>5
<1> DEFINE reported(k) == {j \in DOMAIN new : new[j] = Failure("MISSING_PANEL_ITEM", Panel[k])}
<1>8. ASSUME NEW k \in DOMAIN Panel, k \in open
      PROVE  Cardinality(reported(k)) = 1
  <2>1. PICK i \in 1..c : Nth(open, i) = k
    BY <1>4, <1>8
  <2>2. a + b + i \in reported(k)
    BY <1>2, <2>1
  <2>3. ASSUME NEW j \in reported(k) PROVE j = a + b + i
    <3>1. PICK m \in 1..c : j = a + b + m /\ Nth(open, m) = k
      BY <1>7, <2>3
    <3>2. k \in Nat
      BY <1>6
    <3>3. ~(m < i) /\ ~(i < m)
      BY <1>4, <2>1, <3>1, <3>2
    <3> QED
      BY <3>1, <3>3
  <2>4. reported(k) = {a + b + i}
    BY <2>2, <2>3
  <2> QED
    BY <2>4, FS_Singleton
<1>9. ASSUME NEW k \in DOMAIN Panel, k \notin open
      PROVE  /\ reported(k) = {}
             /\ \E j \in DOMAIN d.forecasts :
                  /\ d.forecasts[j] = Answers(sound)[k]
                  /\ KeyOf(d.forecasts[j]) = Panel[k]
                  /\ \A i \in (j + 1)..Len(d.forecasts) :
                       KeyOf(d.forecasts[i]) = Panel[k] => Faults(d.forecasts[i]) # << >>
  <2>1. reported(k) = {}
    BY <1>4, <1>7, <1>9
  <2>2. AnswerTo(Panel[k], sound) # NONE
    BY <1>3, <1>9
  <2>3. d # NONE
    <3> SUFFICES ASSUME d = NONE PROVE FALSE
      OBVIOUS
    <3>1. sound = << >>
      BY <1>1 DEF Judged
    <3>2. Chosen(sound, {i \in DOMAIN sound : KeyOf(sound[i]) = Panel[k]}) = << >>
      <4>1. << >> \in Seq({}) /\ {i \in DOMAIN << >> : KeyOf(<< >>[i]) = Panel[k]} = {}
        OBVIOUS
      <4>2. Chosen(<< >>, {}) = << >>
        <5>1. \A s \in Seq({}) : \A kept \in SUBSET DOMAIN s : Chosen(s, kept) = << >> <=> kept = {}
          BY ChosenIs
        <5>2. {} \in SUBSET DOMAIN << >> /\ << >> \in Seq({})
          OBVIOUS
        <5> QED
          BY <5>1, <5>2
      <4> QED
        BY <3>1, <4>1, <4>2
    <3>3. AnswerTo(Panel[k], sound) = NONE
      BY <3>2 DEF AnswerTo, Sift
    <3> QED
      BY <2>2, <3>3
  <2>4. IsDecision(d) /\ sound = Chosen(d.forecasts, SoundForecasts(d))
    BY <1>1, <2>3, JudgedSays
  <2>5. \E j \in DOMAIN d.forecasts :
          /\ d.forecasts[j] = AnswerTo(Panel[k], sound)
          /\ KeyOf(d.forecasts[j]) = Panel[k]
          /\ \A i \in (j + 1)..Len(d.forecasts) :
               KeyOf(d.forecasts[i]) = Panel[k] => Faults(d.forecasts[i]) # << >>
    BY <2>2, <2>4, AnswerSays
  <2> QED
    BY <1>6, <2>1, <2>5
<1>10. PICK out, said, seen : out = outcome' /\ said = decision' /\ seen = new
  OBVIOUS
<1> HIDE DEF reported
<1>11. ASSUME NEW k \in DOMAIN Panel
       PROVE  IF out.answers[k] = NONE THEN Cardinality(reported(k)) = 1
              ELSE /\ reported(k) = {}
                   /\ \E j \in DOMAIN said.forecasts :
                        /\ said.forecasts[j] = out.answers[k]
                        /\ KeyOf(said.forecasts[j]) = Panel[k]
                        /\ \A i \in (j + 1)..Len(said.forecasts) :
                             KeyOf(said.forecasts[i]) = Panel[k] => Faults(said.forecasts[i]) # << >>
  <2>1. out.answers[k] = AnswerTo(Panel[k], sound) /\ out.answers[k] = Answers(sound)[k] /\ said = d
    BY <1>5, <1>6, <1>10
  <2>2. CASE k \in open
    BY <1>3, <1>8, <2>1, <2>2
  <2>3. CASE k \notin open
    BY <1>3, <1>9, <2>1, <2>3
  <2> QED
    BY <2>2, <2>3
<1>12. out.intents = << >> /\ Len(out.answers) = Len(Panel)
  BY <1>5, <1>6, <1>10
<1> QED
  BY <1>10, <1>11, <1>12 DEF PanelAccounted, reported, new
-----------------------------------------------------------------------------
(* What a search of the news leaves out is not newer than what it returns. *)

Sorted(s) == \A i, j \in DOMAIN s : i < j => s[i].asOf <= s[j].asOf

\* The index is in the order of time: every two of it, not only neighbours.
LEMMA EvidenceSorted ==
  /\ Evidence \in Seq(ToSet(Evidence)) /\ Sorted(Evidence)
  /\ \A e \in ToSet(Evidence) : e.asOf \in Int
<1>1. /\ Evidence \in Seq(ToSet(Evidence))
      /\ \A k \in DOMAIN Evidence : Evidence[k].asOf \in Int
      /\ \A k \in 1..(Len(Evidence) - 1) : Evidence[k].asOf <= Evidence[k + 1].asOf
  BY RetrievalAssumption
<1>2. PICK N \in Nat : N = Len(Evidence) /\ DOMAIN Evidence = 1..N
  <2>1. Len(Evidence) \in Nat /\ DOMAIN Evidence = 1..Len(Evidence)
    BY <1>1
  <2> QED
    BY <2>1
<1>3. ASSUME NEW i \in 1..N, NEW j \in 1..N, i < j PROVE Evidence[i].asOf <= Evidence[j].asOf
  <2> DEFINE T == {m \in i..N : Evidence[i].asOf <= Evidence[m].asOf}
  <2>1. i \in T
    BY <1>1, <1>2
  <2>2. ASSUME NEW m \in i..(N - 1), m \in T PROVE m + 1 \in T
    <3>1. /\ Evidence[m].asOf <= Evidence[m + 1].asOf /\ Evidence[i].asOf <= Evidence[m].asOf
          /\ Evidence[i].asOf \in Int /\ Evidence[m].asOf \in Int /\ Evidence[m + 1].asOf \in Int
          /\ m + 1 \in i..N
      BY <1>1, <1>2, <2>2
    <3> QED
      BY <3>1
  <2>3. \A m \in i..N : m \in T
    <3> HIDE DEF T
    <3> QED
      BY <2>1, <2>2, Induct
  <2> QED
    BY <1>3, <2>3
<1>4. \A e \in ToSet(Evidence) : e.asOf \in Int
  BY <1>1 DEF ToSet
<1> QED
  BY <1>1, <1>2, <1>3, <1>4 DEF Sorted

\* What is chosen of it stays in that order.
LEMMA ChosenSorted ==
  ASSUME NEW S, NEW s \in Seq(S), NEW kept \in SUBSET DOMAIN s, Sorted(s)
  PROVE  Chosen(s, kept) \in Seq(S) /\ Sorted(Chosen(s, kept))
<1> DEFINE out == Chosen(s, kept)
<1>1. PICK c \in Nat : c = Cardinality(kept)
  <2>1. Cardinality(kept) \in Nat
    BY ChosenIs
  <2> QED
    BY <2>1
<1>2. /\ out \in Seq(S) /\ DOMAIN out = 1..c
      /\ \A i \in 1..c : Nth(kept, i) \in kept /\ out[i] = s[Nth(kept, i)]
      /\ \A i, j \in 1..c : i < j => Nth(kept, i) < Nth(kept, j)
  BY <1>1, ChosenIs
<1> HIDE DEF out
<1>3. ASSUME NEW i \in 1..c, NEW j \in 1..c, i < j PROVE out[i].asOf <= out[j].asOf
  BY <1>2, <1>3 DEF Sorted
<1> QED
  BY <1>2, <1>3 DEF Sorted, out

\* A search returns the last of what matches, and what matches is in order.
LEMMA NewsSays ==
  ASSUME NEW call, call.tool = "search_news", call.limit \in Int
  PROVE  LET given == ToSet(Result(call))
             all == ToSet(NewsMatching(call.words, call.about))
         IN  /\ given \subseteq all
             /\ call.limit > 0 /\ all # {} => given # {}
             /\ \A e \in given, other \in all \ given : other.asOf <= e.asOf
<1> DEFINE S == ToSet(Evidence)
           k1 == {k \in DOMAIN Evidence : Evidence[k].kind = "NEWS_ITEM"}
           every == Chosen(Evidence, k1)
           k2 == {k \in DOMAIN every : (call.about = {} \/ call.about \cap every[k].about # {})
                                       /\ Found(call.words, every[k].words)}
           found == Chosen(every, k2)
           out == LastOf(found, call.limit)
<1>1. Result(call) = out /\ NewsMatching(call.words, call.about) = found
  BY DEF Result, SearchNews, NewsMatching, EveryOfKind, Sift
<1>2. Evidence \in Seq(S) /\ Sorted(Evidence) /\ \A e \in S : e.asOf \in Int
  BY EvidenceSorted
<1>3. every \in Seq(S) /\ Sorted(every)
  <2>1. k1 \in SUBSET DOMAIN Evidence
    OBVIOUS
  <2> HIDE DEF k1
  <2> QED
    BY <1>2, <2>1, ChosenSorted
<1> HIDE DEF every
<1>4. found \in Seq(S) /\ Sorted(found)
  <2>1. k2 \in SUBSET DOMAIN every
    BY Zenon
  <2> HIDE DEF k2, S
  <2> QED
    BY <1>3, <2>1, ChosenSorted
<1> HIDE DEF found, S
<1>5. PICK limit \in Int, N \in Nat : limit = call.limit /\ N = Len(found) /\ DOMAIN found = 1..N
  <2>1. Len(found) \in Nat /\ DOMAIN found = 1..Len(found)
    BY <1>4
  <2> QED
    BY <2>1
<1>6. /\ \A x : x \in ToSet(found) <=> \E k \in 1..N : x = found[k]
      /\ \A k \in 1..N : found[k].asOf \in Int
      /\ \A i, j \in 1..N : i < j => found[i].asOf <= found[j].asOf
  <2>1. \A x : x \in ToSet(found) <=> \E k \in 1..N : x = found[k]
    BY <1>4, <1>5, Something
  <2>2. \A k \in 1..N : found[k] \in S
    BY <1>4, <1>5
  <2> QED
    BY <1>2, <1>4, <1>5, <2>1, <2>2 DEF Sorted
<1>7. \/ limit > N /\ out = found
      \/ limit <= 0 /\ out = << >>
      \/ /\ limit \in 1..N /\ out = SubSeq(found, N - limit + 1, N)
  <2>1. out = IF limit > N THEN found
              ELSE IF limit > 0 THEN SubSeq(found, N - limit + 1, N) ELSE << >>
    BY <1>5 DEF LastOf, Newest
  <2>2. limit > N \/ limit <= 0 \/ limit \in 1..N
    OBVIOUS
  <2> HIDE DEF out
  <2>3. CASE limit > N
    BY <2>1, <2>3
  <2>4. CASE limit <= 0
    <3>1. ~(limit > N) /\ ~(limit > 0)
      BY <2>4
    <3> QED
      BY <2>1, <2>4, <3>1
  <2>5. CASE limit \in 1..N
    <3>1. ~(limit > N) /\ limit > 0
      BY <2>5
    <3> QED
      BY <2>1, <2>5, <3>1
  <2> QED
    BY <2>2, <2>3, <2>4, <2>5
<1>8. CASE limit > N /\ out = found
  BY <1>1, <1>8
<1>9. CASE limit <= 0 /\ out = << >>
  <2>1. ToSet(out) = {}
    BY <1>9 DEF ToSet
  <2> QED
    BY <1>1, <1>5, <1>9, <2>1
<1>10. CASE limit \in 1..N /\ out = SubSeq(found, N - limit + 1, N)
  <2> DEFINE from == N - limit + 1
  <2>1. from \in 1..N
    BY <1>5, <1>10
  <2>2. /\ out \in Seq(S) /\ DOMAIN out = 1..(N - from + 1)
        /\ \A k \in 1..(N - from + 1) : out[k] = found[from + k - 1]
    <3>1. out = SubSeq(found, from, N)
      BY <1>10
    <3> HIDE DEF from, out
    <3> QED
      BY <1>4, <1>5, <2>1, <3>1, Ended
  <2>3. \A x : x \in ToSet(out) <=> \E k \in from..N : x = found[k]
    <3>1. ASSUME NEW k \in 1..(N - from + 1) PROVE \E m \in from..N : out[k] = found[m]
      <4>1. from + k - 1 \in from..N
        BY <2>1
      <4> QED
        BY <2>2, <4>1
    <3>2. ASSUME NEW m \in from..N PROVE \E k \in 1..(N - from + 1) : out[k] = found[m]
      <4>1. m - from + 1 \in 1..(N - from + 1) /\ from + (m - from + 1) - 1 = m
        BY <2>1
      <4> QED
        BY <2>2, <4>1
    <3>3. \A x : x \in ToSet(out) <=> \E k \in 1..(N - from + 1) : x = out[k]
      BY <2>2, Something
    <3> HIDE DEF from, out
    <3> QED
      BY <3>1, <3>2, <3>3
  <2> HIDE DEF from, out
  <2>4. ToSet(out) \subseteq ToSet(found)
    BY <1>6, <2>1, <2>3
  <2>5. ToSet(out) # {}
    <3>1. N \in from..N
      BY <2>1
    <3> QED
      BY <2>3, <3>1
  <2>6. ASSUME NEW e \in ToSet(out), NEW other \in ToSet(found) \ ToSet(out)
        PROVE  other.asOf <= e.asOf
    <3>1. PICK i \in from..N : e = found[i]
      BY <2>3
    <3>2. PICK j \in 1..N : other = found[j]
      BY <1>6
    <3>3. j \notin from..N
      BY <2>3, <2>6, <3>2
    <3>4. j < i /\ i \in 1..N
      BY <2>1, <3>3
    <3> QED
      BY <1>6, <3>1, <3>2, <3>4
  <2> QED
    BY <1>1, <2>4, <2>5, <2>6
<1> QED
  BY <1>7, <1>8, <1>9, <1>10
-----------------------------------------------------------------------------
(* What is true of a decision as it goes on, and of one that is done.      *)

DecisionInv ==
  /\ task \in {"decision", "panel"}
  /\ decision \in {NONE} \cup {response.decision : response \in Responses}
  /\ phase \in {"asking", "calling"} => decision = NONE
  /\ Observed
  /\ \A k \in DOMAIN results : results[k].items = Result(results[k].call)
  /\ EndingExplained /\ OnlyFoundedClaims /\ PanelAccounted

\* Nothing was said yet.
LEMMA DecisionInit == Init => DecisionInv
<1> SUFFICES ASSUME Init PROVE DecisionInv
  OBVIOUS
<1>1. /\ task \in {"decision", "panel"} /\ decision = NONE /\ results = << >> /\ turn = 0
      /\ failures = << >> /\ phase \in {"asking", "done"} /\ (phase = "done" => task = "panel")
  BY DEF Init
<1>2. EndingExplained /\ OnlyFoundedClaims /\ PanelAccounted
  BY <1>1 DEF EndingExplained, OnlyFoundedClaims, PanelAccounted
<1>3. Observed
  BY <1>1 DEF Observed
<1> QED
  BY <1>1, <1>2, <1>3 DEF DecisionInv

\* What is observed once, of a loop that stops without a decision, ends the list.
LEMMA StopObserves ==
  ASSUME NEW kind \in EndingKinds \cup {"SCHEMA_VIOLATION"}, Stop(kind),
         failures \in Seq(Rejections), decision = NONE
  PROVE  Observed' /\ decision' = NONE /\ phase' = "judging"
<1>1. /\ failures' = Append(failures, Failure(kind, NONE)) /\ phase' = "judging" /\ decision' = NONE
      /\ Failure(kind, NONE) \in Endings
  BY DEF Stop, Observe, Endings
<1> QED
  BY <1>1 DEF Observed

\* Only Judge has to establish something; every other step leaves it open.
LEMMA DecisionStep == LoopInv /\ DecisionInv /\ [Next]_vars => DecisionInv'
<1> SUFFICES ASSUME LoopInv, DecisionInv, [Next]_vars PROVE DecisionInv'
  OBVIOUS
<1>0. ASSUME phase' \in {"asking", "calling", "judging", "missing", "escaped"},
             task' = task, results' = results, Observed',
             decision' \in {NONE} \cup {response.decision : response \in Responses},
             phase' \in {"asking", "calling"} => decision' = NONE
      PROVE  DecisionInv'
  <2>1. (EndingExplained /\ OnlyFoundedClaims /\ PanelAccounted)'
    BY <1>0 DEF EndingExplained, OnlyFoundedClaims, PanelAccounted
  <2> QED
    BY <1>0, <2>1 DEF DecisionInv
<1>1. ASSUME NEW response \in Responses, Ask(response) PROVE DecisionInv'
  <2>1. /\ phase = "asking" /\ decision = NONE /\ failures \in Seq(Rejections)
        /\ task' = task /\ results' = results /\ HandleResponse(response)
    BY <1>1 DEF Ask, DecisionInv, Observed
  <2>2. CASE \E kind \in EndingKinds \cup {"SCHEMA_VIOLATION"} : Stop(kind)
    BY <2>1, <2>2, <1>0, StopObserves
  <2>3. CASE /\ decision' = response.decision /\ response.decision # NONE
             /\ phase' = "judging" /\ failures' = failures
    <3>1. Observed'
      BY <2>1, <2>3 DEF Observed
    <3> QED
      BY <2>1, <2>3, <3>1, <1>0
  <2>4. CASE phase' = "calling" /\ decision' = decision /\ failures' = failures
    <3>1. Observed'
      BY <2>1, <2>4 DEF Observed
    <3> QED
      BY <2>1, <2>4, <3>1, <1>0
  <2> QED
    BY <2>1, <2>2, <2>3, <2>4 DEF HandleResponse, EndingKinds
<1>2. CASE Unreachable
  <2>1. phase' = "missing" /\ UNCHANGED <<task, results, failures, decision>>
    BY <1>2 DEF Unreachable
  <2>2. Observed'
    BY <2>1 DEF Observed
  <2> QED
    BY <2>1, <2>2, <1>0 DEF DecisionInv
<1>3. CASE RunOutOfTurns
  <2>1. /\ phase = "asking" /\ decision = NONE /\ failures \in Seq(Rejections)
        /\ task' = task /\ results' = results /\ Stop("TRUNCATED_OUTPUT")
    BY <1>3 DEF RunOutOfTurns, DecisionInv, Observed
  <2> QED
    BY <2>1, <1>0, StopObserves DEF EndingKinds
<1>4. CASE RejectCall
  <2>1. /\ phase = "calling" /\ decision = NONE /\ failures \in Seq(Rejections)
        /\ UNCHANGED <<task, phase, results, decision>>
        /\ failures' = Append(failures, Failure("SCHEMA_VIOLATION", Head(calls).tool))
        /\ calls \in Seq(Asked) /\ calls # << >>
    BY <1>4 DEF RejectCall, Observe, DecisionInv, Observed, LoopInv, LoopType
  <2>2. Head(calls) \in Asked
    BY <2>1
  <2>3. failures' \in Seq(Rejections)
    <3>1. Failure("SCHEMA_VIOLATION", Head(calls).tool) \in Rejections
      BY <2>2 DEF Rejections
    <3> QED
      BY <2>1, <3>1
  <2>4. Observed'
    BY <2>1, <2>3 DEF Observed
  <2> QED
    BY <2>1, <2>4, <1>0
<1>5. CASE EscapeCall
  <2>1. phase' = "escaped" /\ UNCHANGED <<task, results, failures, decision>>
    BY <1>5 DEF EscapeCall
  <2>2. Observed'
    BY <2>1 DEF Observed
  <2> QED
    BY <2>1, <2>2, <1>0 DEF DecisionInv
<1>6. CASE AnswerCall
  <2>1. /\ phase = "calling" /\ decision = NONE /\ failures \in Seq(Rejections)
        /\ UNCHANGED <<task, phase, failures, decision>>
        /\ results \in Seq(Given)
    BY <1>6 DEF AnswerCall, DecisionInv, Observed, LoopInv, LoopType
  <2>2. PICK call : results' = Append(results, [call |-> call, items |-> Result(call)])
    BY <1>6 DEF AnswerCall
  <2>3. \A k \in DOMAIN results' : results'[k].items = Result(results'[k].call)
    <3> DEFINE one == [call |-> call, items |-> Result(call)]
               more == Append(results, one)
    <3>1. one.items = Result(one.call)
      OBVIOUS
    <3>2. \A k \in DOMAIN results : results[k].items = Result(results[k].call)
      BY DEF DecisionInv
    <3> HIDE DEF one
    <3>3. \A k \in DOMAIN more : more[k] = one \/ (k \in DOMAIN results /\ more[k] = results[k])
      <4>1. /\ Len(results) \in Nat /\ DOMAIN results = 1..Len(results)
            /\ DOMAIN more = 1..(Len(results) + 1) /\ more[Len(results) + 1] = one
            /\ \A k \in 1..Len(results) : more[k] = results[k]
        BY <2>1
      <4> QED
        BY <4>1
    <3>4. results' = more
      BY <2>2 DEF one
    <3> HIDE DEF more
    <3> QED
      BY <3>1, <3>2, <3>3, <3>4
  <2>4. Observed'
    BY <2>1 DEF Observed
  <2>5. (EndingExplained /\ OnlyFoundedClaims /\ PanelAccounted)'
    BY <2>1 DEF EndingExplained, OnlyFoundedClaims, PanelAccounted
  <2> QED
    BY <2>1, <2>3, <2>4, <2>5 DEF DecisionInv
<1>7. CASE ExhaustBudget
  <2>1. /\ phase = "calling" /\ decision = NONE /\ failures \in Seq(Rejections)
        /\ task' = task /\ results' = results /\ Stop("BUDGET_EXHAUSTED")
    BY <1>7 DEF ExhaustBudget, DecisionInv, Observed
  <2> QED
    BY <2>1, <1>0, StopObserves DEF EndingKinds
<1>8. CASE EndOfCalls
  <2>1. phase = "calling" /\ phase' = "asking" /\ UNCHANGED <<task, results, failures, decision>>
    BY <1>8 DEF EndOfCalls
  <2>2. Observed' /\ decision = NONE
    BY <2>1 DEF Observed, DecisionInv
  <2> QED
    BY <2>1, <2>2, <1>0
<1>9. CASE Judge
  <2>1. /\ phase' = "done" /\ UNCHANGED <<task, results, decision>>
        /\ task \in {"decision", "panel"} /\ Observed
    BY <1>9 DEF Judge, DecisionInv
  <2>2. decision # NONE => IsDecision(decision)
    BY DecisionAssumption DEF DecisionInv
  <2>3. PICK a, b, c \in Nat : Reported(failures', a, b, c)
    BY <1>9, <2>1, <2>2, JudgeReports
  <2>4. EndingExplained' /\ OnlyFoundedClaims' /\ PanelAccounted'
    BY <1>9, <2>1, <2>2, <2>3, EndingAtJudge, ClaimsAtJudge, PanelAtJudge
  <2>5. Observed'
    BY <2>1 DEF Observed
  <2> QED
    BY <2>1, <2>4, <2>5 DEF DecisionInv
<1>10. CASE UNCHANGED vars
  <2>1. UNCHANGED <<task, phase, turn, results, failures, decision, outcome>>
    BY <1>10 DEF vars
  <2>2. Observed'
    BY <2>1 DEF Observed, DecisionInv
  <2>3. EndingExplained'
    BY <2>1 DEF DecisionInv, EndingExplained, Ending
  <2>4. OnlyFoundedClaims'
    BY <2>1 DEF DecisionInv, OnlyFoundedClaims
  <2>5. PanelAccounted'
    BY <2>1 DEF DecisionInv, PanelAccounted
  <2> QED
    BY <2>1, <2>2, <2>3, <2>4, <2>5 DEF DecisionInv
<1> QED
  BY <1>1, <1>2, <1>3, <1>4, <1>5, <1>6, <1>7, <1>8, <1>9, <1>10 DEF Next, Step, Finished

\* Both invariants together.
LEMMA DecisionHolds == Spec => [](LoopInv /\ DecisionInv)
<1> DEFINE Inv == LoopInv /\ DecisionInv /\ IsFiniteSet(HandedOver(results))
<1>1. Init => Inv
  BY LoopInit, DecisionInit
<1>2. Inv /\ [Next]_vars => Inv'
  BY LoopStep, DecisionStep
<1>3. Inv => LoopInv /\ DecisionInv
  OBVIOUS
<1> QED
  BY <1>1, <1>2, <1>3, PTL DEF Spec

\* The loop keeps the shape the code gives it, for every model, budget and index.
THEOREM ShapesHold == Spec => []TypeOK
<1>1. LoopInv /\ DecisionInv => TypeOK
  BY DEF LoopInv, LoopType, DecisionInv, TypeOK
<1> QED
  BY <1>1, DecisionHolds, PTL

\* DecisionAgent.decide: whatever the model does, a loop without a decision says
\* why exactly once and last, and one with a decision never does.
THEOREM EndingsAreExplained == Spec => []EndingExplained
<1>1. DecisionInv => EndingExplained
  BY DEF DecisionInv
<1> QED
  BY <1>1, DecisionHolds, PTL

\* _validate: whatever is claimed, what a decision keeps the snapshot vouches for,
\* and something is blamed exactly when something was dropped.
THEOREM ClaimsAreFounded == Spec => []OnlyFoundedClaims
<1>1. DecisionInv => OnlyFoundedClaims
  BY DEF DecisionInv
<1> QED
  BY <1>1, DecisionHolds, PTL

\* PanelAgent.elicit: for every panel, every question has the last sound answer
\* given to it or one report that it is missing, never both and never neither.
THEOREM PanelsAreAccounted == Spec => []PanelAccounted
<1>1. DecisionInv => PanelAccounted
  BY DEF DecisionInv
<1> QED
  BY <1>1, DecisionHolds, PTL

\* search_news: for every index and limit, what was left out is no newer than what
\* was handed over.
THEOREM NewsIsAlwaysRecent == Spec => []NewsIsRecent
<1>1. ASSUME LoopInv, DecisionInv PROVE NewsIsRecent
  <2> SUFFICES ASSUME NEW k \in DOMAIN results, results[k].call.tool = "search_news"
               PROVE  LET call == results[k].call
                          given == ToSet(results[k].items)
                          all == ToSet(NewsMatching(call.words, call.about))
                      IN  /\ given \subseteq all
                          /\ call.limit > 0 /\ all # {} => given # {}
                          /\ \A e \in given, other \in all \ given : other.asOf <= e.asOf
    BY DEF NewsIsRecent
  <2>1. PICK call : call = results[k].call
    OBVIOUS
  <2>2. results[k].items = Result(call) /\ call.tool = "search_news"
    BY <1>1, <2>1 DEF DecisionInv
  <2>3. call.limit \in Int
    <3>1. results[k] \in Given
      BY <1>1 DEF LoopInv, LoopType
    <3>2. call \in Asked
      BY <2>1, <3>1 DEF Given
    <3> QED
      BY <3>2, DecisionAssumption DEF Asked
  <2> QED
    BY <2>1, <2>2, <2>3, NewsSays
<1> QED
  BY <1>1, DecisionHolds, PTL
=============================================================================
