-------------------------- MODULE CycleRunner_proofs --------------------------
(***************************************************************************)
(* For any conditions, grants, outages and reruns: a cycle that is         *)
(* complete has an outcome for every condition, the log tells of one       *)
(* decision of each, and a run that is over has left no decision without   *)
(* its panel; and as long as the provider answers, the material of every   *)
(* decision is the one an uninterrupted run would have had.                *)
(***************************************************************************)
EXTENDS CycleRunner, Order_proofs

IsSequence(s) == \E S : s \in Seq(S)

-----------------------------------------------------------------------------
(* The rotating order asks every condition. *)

LEMMA OneRemainder ==
  ASSUME NEW n \in Nat, n > 0, NEW x \in 0..(n - 1), NEW m \in Nat
  PROVE  (x + n * m) % n = x
<1> DEFINE a == x + n * m
           d == a \div n
           r == a % n
<1>1. a \in Nat /\ d \in Int /\ r \in 0..(n - 1) /\ a = n * d + r
  BY Z3
<1>2. n * (m - d) = r - x
  BY <1>1, Z3
<1>3. ASSUME NEW k \in Int, k >= 1 PROVE n * k >= n
  BY <1>3, Z3
<1>4. ~(m - d >= 1)
  BY <1>1, <1>2, <1>3
<1>5. ~(d - m >= 1)
  <2>1. n * (d - m) = x - r
    BY <1>1, <1>2, Z3
  <2> QED
    BY <1>1, <1>3, <2>1
<1> QED
  BY <1>1, <1>2, <1>4, <1>5, Z3

LEMMA TurnsAreUnits ==
  ASSUME NEW c \in Cycle, NEW k \in 1..Len(Units)
  PROVE  InTurn(c, k) \in Unit
<1>1. Len(Units) \in Nat /\ Len(Units) > 0 /\ c \in Nat /\ DOMAIN Units = 1..Len(Units)
  BY RunnerAssumption DEF Cycle
<1>2. (k - 1 + c) % Len(Units) \in 0..(Len(Units) - 1)
  BY <1>1
<1> QED
  BY <1>1, <1>2 DEF InTurn, Unit, ToSet

LEMMA EveryUnitHasItsTurn ==
  ASSUME NEW c \in Cycle, NEW u \in Unit
  PROVE  \E k \in 1..Len(Units) : InTurn(c, k) = u
<1> DEFINE n == Len(Units)
           q == c \div n
           r == c % n
<1>1. n \in Nat /\ n > 0 /\ c \in Nat /\ DOMAIN Units = 1..n
  BY RunnerAssumption DEF Cycle
<1>2. q \in Nat /\ r \in 0..(n - 1) /\ c = n * q + r
  BY <1>1, Z3
<1>3. PICK i \in 1..n : Units[i] = u
  BY <1>1 DEF Unit, ToSet
<1> HIDE DEF n, q, r
<1>4. CASE i - 1 >= r
  <2> DEFINE k == i - r
  <2>1. k \in 1..n /\ k - 1 + c = (i - 1) + n * q
    BY <1>1, <1>2, <1>3, <1>4
  <2>2. (k - 1 + c) % n = i - 1
    <3>1. i - 1 \in 0..(n - 1) /\ q \in Nat
      BY <1>1, <1>2, <1>3
    <3>2. ((i - 1) + n * q) % n = i - 1
      BY <1>1, <3>1, OneRemainder
    <3> QED
      BY <2>1, <3>2
  <2> QED
    BY <1>3, <2>1, <2>2 DEF InTurn, n
<1>5. CASE i - 1 < r
  <2> DEFINE k == i - r + n
  <2>1. k \in 1..n /\ k - 1 + c = (i - 1) + n * (q + 1)
    BY <1>1, <1>2, <1>3, <1>5, Z3
  <2>2. (k - 1 + c) % n = i - 1
    <3>1. i - 1 \in 0..(n - 1) /\ q + 1 \in Nat
      BY <1>1, <1>2, <1>3
    <3>2. ((i - 1) + n * (q + 1)) % n = i - 1
      BY <1>1, <3>1, OneRemainder
    <3> QED
      BY <2>1, <3>2
  <2> QED
    BY <1>3, <2>1, <2>2 DEF InTurn, n
<1> QED
  BY <1>2, <1>3, <1>4, <1>5

-----------------------------------------------------------------------------
(* What an append does to the chain. *)

LEMMA EmitExtends ==
  ASSUME NEW event, NEW now, IsSequence(chain), Emit(event, now)
  PROVE  /\ IsSequence(chain')
         /\ durable' \in {durable, now}
         /\ \A n \in DOMAIN chain : n \in DOMAIN chain' /\ chain'[n] = chain[n]
         /\ \A n \in DOMAIN chain' : n \in DOMAIN chain \/ chain'[n] = event
         /\ IsInjective(chain) => IsInjective(chain')
         /\ Contains(chain', event)
         /\ \A e : Recorded(e) => Contains(chain', e)
<1>1. PICK S : chain \in Seq(S)
  BY DEF IsSequence
<1>2. CASE Recorded(event)
  BY <1>1, <1>2 DEF Emit, Recorded, IsSequence
<1>3. CASE ~Recorded(event)
  <2>1. chain' = Append(chain, event) /\ durable' = now
    BY <1>3 DEF Emit
  <2>2. chain \in Seq(S \cup {event}) /\ chain' \in Seq(S \cup {event})
    BY <1>1, <2>1
  <2>3. /\ DOMAIN chain = 1..Len(chain) /\ Len(chain) \in Nat
        /\ DOMAIN chain' = 1..(Len(chain) + 1) /\ Len(chain') = Len(chain) + 1
        /\ chain'[Len(chain) + 1] = event
        /\ \A n \in 1..Len(chain) : chain'[n] = chain[n]
    BY <2>1, <2>2
  <2>4. IsInjective(chain) => IsInjective(chain')
    BY <1>3, <2>3 DEF IsInjective, Recorded, Contains
  <2>5. Contains(chain', event) /\ \A e : Recorded(e) => Contains(chain', e)
    BY <2>3 DEF Recorded, Contains
  <2> QED
    BY <2>1, <2>2, <2>3, <2>4, <2>5 DEF IsSequence
<1> QED
  BY <1>2, <1>3
-----------------------------------------------------------------------------
(* The inductive invariant *)

Walked(k) == <<cycle, InTurn(cycle, k)>>
InCycle == {"unit", "failures", "panel"}
CycleIsOver == {"remember", "done", "over"}
IsStore(store) ==
  store = [episodes |-> store.episodes, reflections |-> store.reflections]

StoresFit == IsSequence(chain) /\ IsStore(memory) /\ IsStore(durable)

\* What the pass over the current cycle has behind it.
PassFits ==
  /\ phase \in {"failures", "panel"} => turn <= Len(Units) /\ Here \in Sealed
  /\ phase \in InCycle =>
       \A k \in 1..(turn - 1) : Walked(k) \in Sealed \/ InTurn(cycle, k) \in missing
  /\ phase = "remember" => \A u \in Unit \ missing : <<cycle, u>> \in Sealed
  /\ phase # "start" => \A u \in missing : Recorded(<<"CONDITION_MISSING", cycle, u>>)
  /\ phase = "over" => cycle = LAST

\* A decision without its panel is the one at hand, or one the pass has not
\* come to.
PanelsFollow ==
  /\ \A cell \in Sealed : cell[1] < cycle => cell \in DOMAIN panels
  /\ phase \in InCycle => \A k \in 1..(turn - 1) : Walked(k) \in Sealed =>
       Walked(k) \in DOMAIN panels \/ (phase # "unit" /\ Walked(k) = Here)
  /\ phase \in CycleIsOver =>
       \A cell \in Sealed : cell[1] = cycle => cell \in DOMAIN panels

RunnerInv ==
  TypeOK /\ StoresFit /\ PassFits /\ PanelsFollow /\ EveryConditionAccounted

LEMMA HereIsACell ==
  ASSUME cycle \in Cycle, turn \in 1..Len(Units)
  PROVE  Here \in Cell /\ Here = <<cycle, Here[2]>> /\ Here[2] \in Unit /\ Here = Walked(turn)
BY TurnsAreUnits DEF Here, Cell, Walked

\* Sealing adds one cell and touches no other.
LEMMA SealingAdds ==
  ASSUME DecideAndSeal
  PROVE  /\ DOMAIN bundles' = Sealed \cup {Here}
         /\ \A cell \in Sealed : bundles'[cell] = bundles[cell]
         /\ Here \notin Sealed
         /\ bundles'[Here].answer \in Answers
         /\ bundles'[Here].failures \in 0..MAX_FAILURES
         /\ owed' \in 0..MAX_FAILURES /\ owed' = bundles'[Here].failures
<1>1. PICK answer \in Answers, failures \in 0..MAX_FAILURES :
        /\ bundles' = WithRow(bundles, Here, [answer |-> answer, failures |-> failures,
                                              material |-> Material(Here[2], cycle)])
        /\ owed' = failures
  BY DEF DecideAndSeal
<1>2. Here \notin Sealed
  BY DEF DecideAndSeal
<1> QED
  BY <1>1, <1>2 DEF Sealed, WithRow

LEMMA ElicitingAdds ==
  ASSUME ElicitPanel
  PROVE  DOMAIN panels' = DOMAIN panels \cup {Here}
BY DEF ElicitPanel, WithRow

-----------------------------------------------------------------------------
LEMMA RunnerInit == Init => RunnerInv
<1> SUFFICES ASSUME Init PROVE RunnerInv
  OBVIOUS
<1> USE RunnerAssumption DEF Init
<1>1. chain = << >> /\ bundles = << >> /\ panels = << >> /\ DOMAIN chain = {} /\ Sealed = {}
      /\ DOMAIN panels = {}
  BY DEF Sealed
<1>2. TypeOK
  BY <1>1 DEF TypeOK, Cycle, Unit, ToSet, IsInjective
<1>3. StoresFit
  BY <1>1 DEF StoresFit, IsSequence, IsStore
<1>4. PassFits /\ PanelsFollow
  BY <1>1 DEF PassFits, PanelsFollow, InCycle, CycleIsOver
<1>5. EveryConditionAccounted
  BY <1>1 DEF EveryConditionAccounted
<1> QED
  BY <1>2, <1>3, <1>4, <1>5 DEF RunnerInv
-----------------------------------------------------------------------------
(* What any step does to the stores. *)

\* The chain only grows, by an event of the current cycle.
LEMMA ChainGrows ==
  ASSUME TypeOK, StoresFit, Next
  PROVE  /\ IsSequence(chain') /\ IsInjective(chain')
         /\ \A e : Recorded(e) => Contains(chain', e)
         /\ \A n \in DOMAIN chain : n \in DOMAIN chain' /\ chain'[n] = chain[n]
         /\ \A n \in DOMAIN chain' : \/ n \in DOMAIN chain
                                     \/ /\ chain'[n][2] = cycle
                                        /\ chain'[n][1] = "CYCLE_COMPLETED" => CompleteCycle
         /\ durable' \in {durable, memory}
<1> DEFINE Grown ==
      /\ IsSequence(chain') /\ IsInjective(chain')
      /\ \A e : Recorded(e) => Contains(chain', e)
      /\ \A n \in DOMAIN chain : n \in DOMAIN chain' /\ chain'[n] = chain[n]
      /\ \A n \in DOMAIN chain' : \/ n \in DOMAIN chain
                                  \/ /\ chain'[n][2] = cycle
                                     /\ chain'[n][1] = "CYCLE_COMPLETED" => CompleteCycle
      /\ durable' \in {durable, memory}
<1>1. IsSequence(chain) /\ IsInjective(chain)
  BY DEF TypeOK, StoresFit
<1>2. ASSUME NEW event, Emit(event, memory), event[2] = cycle,
             event[1] = "CYCLE_COMPLETED" => CompleteCycle
      PROVE  Grown
  BY <1>1, <1>2, EmitExtends
<1>3. ASSUME chain' = chain, durable' \in {durable, memory} PROVE Grown
  BY <1>1, <1>3 DEF Recorded
<1> SUFFICES Grown
  OBVIOUS
<1> HIDE DEF Grown
<1>4. CASE StartCycle
  BY <1>4, <1>2 DEF StartCycle
<1>5. CASE LoadSealed
  BY <1>5, <1>3 DEF LoadSealed, stored
<1>6. CASE DecideAndSeal
  BY <1>6, <1>2 DEF DecideAndSeal
<1>7. CASE RecordMissing
  BY <1>7, <1>2 DEF RecordMissing
<1>8. CASE ObserveFailure
  BY <1>8, <1>2 DEF ObserveFailure
<1>9. CASE ElicitPanel
  BY <1>9, <1>2 DEF ElicitPanel
<1>10. CASE CompleteCycle
  BY <1>10, <1>2 DEF CompleteCycle
<1>11. CASE ObservedAll \/ PanelOutage \/ Remember \/ NextCycle \/ Finish \/ RunAgain
  BY <1>11, <1>3 DEF ObservedAll, PanelOutage, Remember, NextCycle, Finish, RunAgain, stored
<1> QED
  BY <1>4, <1>5, <1>6, <1>7, <1>8, <1>9, <1>10, <1>11 DEF Next

\* Only sealing adds a decision, and only eliciting a panel.
LEMMA TablesGrow ==
  ASSUME TypeOK, PassFits, Next
  PROVE  /\ Sealed \subseteq Sealed' /\ Sealed' \subseteq Cell
         /\ DOMAIN panels \subseteq DOMAIN panels' /\ DOMAIN panels' \subseteq Sealed'
         /\ \A cell \in Sealed : bundles'[cell] = bundles[cell]
         /\ \A cell \in Sealed' : /\ bundles'[cell].answer \in Answers
                                  /\ bundles'[cell].failures \in 0..MAX_FAILURES
<1>1. CASE DecideAndSeal
  <2>1. Here \in Cell /\ panels' = panels
    BY <1>1, HereIsACell, RunnerAssumption DEF DecideAndSeal, Asked, TypeOK
  <2> QED
    BY <1>1, <2>1, SealingAdds DEF Sealed, TypeOK
<1>2. CASE ElicitPanel
  <2>1. Here \in Sealed /\ bundles' = bundles
    BY <1>2 DEF ElicitPanel, PassFits
  <2> QED
    BY <1>2, <2>1, ElicitingAdds DEF Sealed, TypeOK
<1>3. CASE ~DecideAndSeal /\ ~ElicitPanel
  <2>1. bundles' = bundles /\ panels' = panels
    BY <1>3 DEF Next, stored, StartCycle, LoadSealed, RecordMissing, ObserveFailure, ObservedAll,
                PanelOutage, CompleteCycle, Remember, NextCycle, Finish, RunAgain
  <2> QED
    BY <2>1 DEF Sealed, TypeOK
<1> QED
  BY <1>1, <1>2, <1>3

\* What is remembered was decided, and what is durable is remembered.
LEMMA MemoryStep ==
  ASSUME TypeOK, StoresFit, PassFits, Next
  PROVE  /\ IsStore(memory') /\ IsStore(durable')
         /\ durable'.episodes \subseteq memory'.episodes
         /\ \A e \in memory'.episodes : <<e.cycle, e.unit>> \in Sealed'
<1>1. Sealed \subseteq Sealed'
  BY TablesGrow
<1>2. CASE Remember
  <2>1. durable' = durable
    BY <1>2 DEF Remember
  <2>2. \A u \in Executed : <<cycle, u>> \in Sealed
    BY <1>2 DEF Remember, PassFits, Executed
  <2>3. IsStore(memory')
        /\ memory'.episodes = memory.episodes \cup {Episode(u, cycle) : u \in Executed}
    BY <1>2 DEF Remember, Remembered, WithEpisodes, StoresFit, IsStore
  <2>4. \A u \in Executed : Episode(u, cycle).cycle = cycle /\ Episode(u, cycle).unit = u
    BY DEF Episode
  <2> QED
    BY <1>1, <2>1, <2>2, <2>3, <2>4 DEF StoresFit, TypeOK
<1>3. CASE RunAgain
  BY <1>1, <1>3 DEF RunAgain, StoresFit, TypeOK
<1>4. CASE ~Remember /\ ~RunAgain
  <2>1. memory' = memory
    BY <1>4 DEF Next, StartCycle, LoadSealed, DecideAndSeal, RecordMissing, ObserveFailure,
                ObservedAll, ElicitPanel, PanelOutage, CompleteCycle, NextCycle, Finish
  <2>2. durable' \in {durable, memory}
    BY ChainGrows
  <2> QED
    BY <1>1, <2>1, <2>2 DEF StoresFit, TypeOK
<1> QED
  BY <1>2, <1>3, <1>4

\* Where the process is.
LEMMA ProcessStep ==
  ASSUME TypeOK, PassFits, Next
  PROVE  /\ cycle' \in Cycle /\ turn' \in 1..(Len(Units) + 1) /\ missing' \subseteq Unit
         /\ phase' \in {"start", "unit", "failures", "panel", "remember", "done", "over", "raised"}
         /\ owed' \in 0..MAX_FAILURES /\ outages' \in 0..MAX_OUTAGES /\ runs' \in 0..MAX_RUNS
<1>9. /\ MAX_FAILURES \in Nat /\ MAX_OUTAGES \in Nat /\ MAX_RUNS \in Nat /\ LAST \in Nat
      /\ Len(Units) \in Nat
  BY RunnerAssumption
<1> USE <1>9
<1>0. /\ cycle \in Cycle /\ turn \in 1..(Len(Units) + 1) /\ missing \subseteq Unit
      /\ phase \in {"start", "unit", "failures", "panel", "remember", "done", "over", "raised"}
      /\ owed \in 0..MAX_FAILURES /\ outages \in 0..MAX_OUTAGES /\ runs \in 0..MAX_RUNS
  BY DEF TypeOK
<1>1. CASE DecideAndSeal
  BY <1>0, <1>1, SealingAdds DEF DecideAndSeal
<1>2. CASE RecordMissing
  <2>1. /\ turn \in 1..Len(Units) /\ turn' = turn + 1
        /\ outages < MAX_OUTAGES /\ outages' = outages + 1
        /\ missing' = missing \cup {Here[2]} /\ UNCHANGED <<cycle, phase, owed, runs>>
    BY <1>0, <1>2 DEF RecordMissing, Asked
  <2>2. Here[2] \in Unit
    BY <1>0, <2>1, HereIsACell
  <2> QED
    BY <1>0, <2>1, <2>2
<1>3. CASE StartCycle \/ ObservedAll \/ PanelOutage \/ CompleteCycle \/ Remember \/ Finish
  BY <1>0, <1>3 DEF StartCycle, ObservedAll, PanelOutage, CompleteCycle, Remember, Finish
<1>6. CASE LoadSealed
  BY <1>0, <1>6 DEF LoadSealed, Asked
<1>7. CASE ObserveFailure
  BY <1>0, <1>7 DEF ObserveFailure
<1>4. CASE ElicitPanel
  BY <1>0, <1>4 DEF ElicitPanel, PassFits
<1>5. CASE NextCycle
  BY <1>0, <1>5 DEF NextCycle, Cycle
<1>8. CASE RunAgain
  <2>1. 0 \in Cycle /\ 1 \in 1..(Len(Units) + 1)
    BY DEF Cycle
  <2> QED
    BY <1>0, <1>8, <2>1 DEF RunAgain
<1> QED
  BY <1>1, <1>2, <1>3, <1>4, <1>5, <1>6, <1>7, <1>8 DEF Next
-----------------------------------------------------------------------------
(* One conjunct of the invariant at a time. *)

LEMMA TypeStep ==
  ASSUME RunnerInv, Next
  PROVE  TypeOK' /\ StoresFit'
<1> USE DEF RunnerInv
<1>1. \A n \in DOMAIN chain' : chain'[n][2] \in Cycle
  BY ChainGrows DEF TypeOK
<1>2. StoresFit'
  BY ChainGrows, MemoryStep DEF StoresFit, IsStore
<1>3. TypeOK'
  BY <1>1, ChainGrows, TablesGrow, MemoryStep, ProcessStep DEF TypeOK, Sealed
<1> QED
  BY <1>2, <1>3

\* Once every turn is taken, every condition is decided or missing.
LEMMA AllTurnsTaken ==
  ASSUME RunnerInv, CompleteCycle
  PROVE  \A u \in Unit : \/ u \in missing
                         \/ <<cycle, u>> \in Sealed /\ <<cycle, u>> \in DOMAIN panels
<1>1. /\ phase = "unit" /\ turn = Len(Units) + 1 /\ Len(Units) \in Nat /\ cycle \in Cycle
  BY RunnerAssumption DEF CompleteCycle, RunnerInv, TypeOK
<1> TAKE u \in Unit
<1>2. PICK k \in 1..Len(Units) : InTurn(cycle, k) = u
  BY <1>1, EveryUnitHasItsTurn
<1>3. k \in 1..(turn - 1)
  BY <1>1
<1>4. Walked(k) \in Sealed \/ u \in missing
  BY <1>1, <1>2, <1>3 DEF RunnerInv, PassFits, InCycle
<1>5. Walked(k) \in Sealed => Walked(k) \in DOMAIN panels
  BY <1>1, <1>3 DEF RunnerInv, PanelsFollow, InCycle
<1> QED
  BY <1>2, <1>4, <1>5 DEF Walked

\* A unit that is unsealed or without panel is decided by nobody else: the cells
\* behind a step stay sealed, and missing ones stay reported.
LEMMA PassStep ==
  ASSUME RunnerInv, Next
  PROVE  PassFits'
<1> USE RunnerAssumption DEF RunnerInv
<1>1. Sealed \subseteq Sealed' /\ \A e : Recorded(e) => Contains(chain', e)
  BY ChainGrows, TablesGrow
<1>2. CASE StartCycle
  BY <1>2 DEF StartCycle, PassFits, InCycle
<1>3. CASE LoadSealed
  <2>1. turn \in 1..Len(Units) /\ Here = Walked(turn) /\ Here \in Sealed /\ phase = "unit"
    BY <1>3, HereIsACell DEF LoadSealed, Asked, TypeOK
  <2>2. cycle' = cycle /\ missing' = missing /\ Sealed' = Sealed /\ chain' = chain
    BY <1>3 DEF LoadSealed, stored, Sealed
  <2>3. \A k \in 1..turn : Walked(k) \in Sealed \/ InTurn(cycle, k) \in missing
    BY <2>1 DEF PassFits, InCycle, TypeOK
  <2>4. \A u \in missing' : Recorded(<<"CONDITION_MISSING", cycle, u>>)'
    BY <2>1, <2>2 DEF PassFits, Recorded
  <2>5. CASE Here \notin DOMAIN panels
    <3>1. phase' = "panel" /\ turn' = turn
      BY <1>3, <2>5 DEF LoadSealed
    <3>2. Here' = Here
      BY <2>2, <3>1 DEF Here
    <3>3. turn - 1 \in Int /\ \A k \in 1..(turn - 1) : k \in 1..turn
      BY <2>1
    <3>4. \A k \in 1..(turn' - 1) : Walked(k)' \in Sealed' \/ InTurn(cycle, k)' \in missing'
      BY <2>2, <2>3, <3>1, <3>3 DEF Walked
    <3> QED
      BY <2>1, <2>2, <2>4, <3>1, <3>2, <3>4 DEF PassFits
  <2>6. CASE Here \in DOMAIN panels
    <3>1. phase' = "unit" /\ turn' = turn + 1
      BY <1>3, <2>1, <2>6 DEF LoadSealed
    <3>2. turn' - 1 = turn
      BY <2>1, <3>1
    <3>3. \A k \in 1..(turn' - 1) : Walked(k)' \in Sealed' \/ InTurn(cycle, k)' \in missing'
      BY <2>2, <2>3, <3>2 DEF Walked
    <3> QED
      BY <2>4, <3>1, <3>3 DEF PassFits
  <2> QED
    BY <2>5, <2>6
<1>4. CASE DecideAndSeal
  <2>1. Here \in Sealed' /\ turn <= Len(Units) /\ phase = "unit" /\ phase' = "failures"
        /\ cycle' = cycle /\ missing' = missing /\ turn' = turn
    BY <1>4, SealingAdds DEF DecideAndSeal, Asked, Sealed
  <2>2. \A u \in missing' : Recorded(<<"CONDITION_MISSING", cycle, u>>)'
    BY <1>1, <2>1 DEF PassFits, Recorded
  <2> QED
    BY <1>1, <2>1, <2>2 DEF PassFits, InCycle, Walked, InTurn, Here
<1>5. CASE RecordMissing
  <2> DEFINE report == <<"CONDITION_MISSING", cycle, Here[2]>>
  <2>1. turn \in 1..Len(Units) /\ Here[2] = InTurn(cycle, turn) /\ phase = "unit" /\ phase' = phase
        /\ cycle' = cycle /\ missing' = missing \cup {Here[2]} /\ turn' = turn + 1
    BY <1>5 DEF RecordMissing, Asked, TypeOK, Here
  <2>2. Contains(chain', report)
    <3>1. Emit(report, memory) /\ IsSequence(chain)
      BY <1>5 DEF RecordMissing, StoresFit
    <3> QED
      BY <3>1, EmitExtends
  <2>3. \A u \in missing' : Recorded(<<"CONDITION_MISSING", cycle, u>>)'
    BY <1>1, <2>1, <2>2 DEF PassFits, Recorded
  <2>4. \A k \in 1..turn : Walked(k) \in Sealed' \/ InTurn(cycle, k) \in missing'
    BY <1>1, <2>1 DEF PassFits, InCycle, TypeOK
  <2>5. turn' - 1 = turn
    BY <2>1
  <2>6. \A k \in 1..(turn' - 1) : Walked(k)' \in Sealed' \/ InTurn(cycle, k)' \in missing'
    BY <2>1, <2>4, <2>5 DEF Walked
  <2> QED
    BY <2>1, <2>3, <2>6 DEF PassFits
<1>6. CASE ElicitPanel
  <2>1. turn \in 1..Len(Units) /\ Here = Walked(turn) /\ Here \in Sealed
    BY <1>6, HereIsACell DEF ElicitPanel, PassFits, TypeOK
  <2>2. phase = "panel" /\ phase' = "unit" /\ turn' = turn + 1 /\ cycle' = cycle
        /\ missing' = missing
    BY <1>6 DEF ElicitPanel
  <2>3. \A k \in 1..turn : Walked(k) \in Sealed' \/ InTurn(cycle, k) \in missing'
    BY <1>1, <2>1, <2>2 DEF PassFits, InCycle, TypeOK
  <2>4. \A u \in missing' : Recorded(<<"CONDITION_MISSING", cycle, u>>)'
    BY <1>1, <2>2 DEF PassFits, Recorded
  <2>5. turn' - 1 = turn
    BY <2>1, <2>2
  <2>6. \A k \in 1..(turn' - 1) : Walked(k)' \in Sealed' \/ InTurn(cycle, k)' \in missing'
    BY <2>2, <2>3, <2>5 DEF Walked
  <2> QED
    BY <2>2, <2>4, <2>6 DEF PassFits
<1>7. CASE CompleteCycle
  <2>1. phase = "unit" /\ phase' = "remember" /\ cycle' = cycle /\ missing' = missing
    BY <1>7 DEF CompleteCycle
  <2>2. \A u \in Unit \ missing : <<cycle, u>> \in Sealed'
    BY <1>1, <1>7, AllTurnsTaken
  <2>3. \A u \in missing' : Recorded(<<"CONDITION_MISSING", cycle, u>>)'
    BY <1>1, <2>1 DEF PassFits, Recorded
  <2> QED
    BY <2>1, <2>2, <2>3 DEF PassFits, InCycle
<1>8. CASE ObserveFailure \/ ObservedAll
  <2>1. /\ phase = "failures" /\ phase' \in {"failures", "panel"}
        /\ cycle' = cycle /\ turn' = turn /\ missing' = missing
    BY <1>8 DEF ObserveFailure, ObservedAll
  <2>2. \A u \in missing' : Recorded(<<"CONDITION_MISSING", cycle, u>>)'
    BY <1>1, <2>1 DEF PassFits, Recorded
  <2> QED
    BY <1>1, <2>1, <2>2 DEF PassFits, InCycle, Walked, InTurn, Here
<1>9. CASE PanelOutage \/ Remember \/ NextCycle \/ Finish
  <2>1. /\ phase' \in {"raised", "done", "start", "over"} /\ missing' = missing
        /\ phase' = "over" => cycle' = LAST
        /\ phase' # "start" => cycle' = cycle /\ phase # "start"
    BY <1>9 DEF PanelOutage, Remember, NextCycle, Finish
  <2>2. phase' # "start" => \A u \in missing' : Recorded(<<"CONDITION_MISSING", cycle, u>>)'
    BY <1>1, <2>1 DEF PassFits, Recorded
  <2> QED
    BY <2>1, <2>2 DEF PassFits, InCycle
<1>10. CASE RunAgain
  BY <1>10 DEF RunAgain, PassFits, InCycle
<1> QED
  BY <1>2, <1>3, <1>4, <1>5, <1>6, <1>7, <1>8, <1>9, <1>10 DEF Next

LEMMA PanelsStep ==
  ASSUME RunnerInv, Next
  PROVE  PanelsFollow'
<1> USE RunnerAssumption DEF RunnerInv
<1>1. DOMAIN panels \subseteq DOMAIN panels'
  BY TablesGrow
<1>2. CASE StartCycle
  <2>1. bundles' = bundles /\ panels' = panels /\ cycle' = cycle /\ turn' = 1 /\ phase' = "unit"
    BY <1>2 DEF StartCycle
  <2> QED
    BY <2>1 DEF PanelsFollow, InCycle, CycleIsOver, Sealed
<1>3. CASE LoadSealed
  <2>1. turn \in 1..Len(Units) /\ Here = Walked(turn) /\ Here \in Sealed /\ phase = "unit"
    BY <1>3, HereIsACell DEF LoadSealed, Asked, TypeOK
  <2>2. cycle' = cycle /\ Sealed' = Sealed /\ panels' = panels
    BY <1>3 DEF LoadSealed, stored, Sealed
  <2>3. CASE Here \notin DOMAIN panels
    <3>1. phase' = "panel" /\ turn' = turn
      BY <1>3, <2>3 DEF LoadSealed
    <3>2. \A k \in 1..(turn - 1) : Walked(k) \in Sealed => Walked(k) \in DOMAIN panels
      BY <2>1 DEF PanelsFollow, InCycle
    <3>3. \A k \in 1..(turn' - 1) : Walked(k)' \in Sealed' => Walked(k)' \in DOMAIN panels'
      BY <2>2, <3>1, <3>2 DEF Walked
    <3> QED
      BY <2>2, <3>1, <3>3 DEF PanelsFollow, CycleIsOver
  <2>4. CASE Here \in DOMAIN panels
    <3>1. phase' = "unit" /\ turn' = turn + 1 /\ turn' - 1 = turn
      BY <1>3, <2>1, <2>4 DEF LoadSealed
    <3>2. \A k \in 1..turn : Walked(k) \in Sealed => Walked(k) \in DOMAIN panels
      BY <2>1, <2>4 DEF PanelsFollow, InCycle
    <3>3. \A k \in 1..(turn' - 1) : Walked(k)' \in Sealed' => Walked(k)' \in DOMAIN panels'
      BY <2>2, <3>1, <3>2 DEF Walked
    <3> QED
      BY <2>2, <3>1, <3>3 DEF PanelsFollow, CycleIsOver
  <2> QED
    BY <2>3, <2>4
<1>4. CASE DecideAndSeal
  <2>1. Sealed' = Sealed \cup {Here} /\ Here[1] = cycle /\ cycle \in Nat
    BY <1>4, SealingAdds DEF Sealed, Here, TypeOK, Cycle
  <2>2. phase = "unit" /\ phase' = "failures" /\ cycle' = cycle /\ turn' = turn
        /\ panels' = panels
    BY <1>4 DEF DecideAndSeal, Asked
  <2> QED
    BY <2>1, <2>2 DEF PanelsFollow, InCycle, CycleIsOver, Walked, InTurn, Here
<1>5. CASE RecordMissing
  <2>1. turn \in 1..Len(Units) /\ Here = Walked(turn) /\ Here \notin Sealed /\ phase = "unit"
    BY <1>5, HereIsACell DEF RecordMissing, Asked, TypeOK
  <2>2. Sealed' = Sealed /\ panels' = panels /\ cycle' = cycle /\ phase' = phase
        /\ turn' = turn + 1
    BY <1>5 DEF RecordMissing, Sealed
  <2>3. turn' - 1 = turn
    BY <2>1, <2>2
  <2>4. \A k \in 1..turn : Walked(k) \in Sealed => Walked(k) \in DOMAIN panels
    BY <2>1 DEF PanelsFollow, InCycle
  <2>5. \A k \in 1..(turn' - 1) : Walked(k)' \in Sealed' => Walked(k)' \in DOMAIN panels'
    BY <2>2, <2>3, <2>4 DEF Walked
  <2> QED
    BY <2>1, <2>2, <2>5 DEF PanelsFollow, CycleIsOver
<1>6. CASE ElicitPanel
  <2>1. turn \in 1..Len(Units) /\ Here = Walked(turn)
    BY <1>6, HereIsACell DEF ElicitPanel, PassFits, TypeOK
  <2>2. phase = "panel" /\ phase' = "unit" /\ turn' = turn + 1 /\ cycle' = cycle
        /\ Sealed' = Sealed
    BY <1>6 DEF ElicitPanel, Sealed
  <2>3. Here \in DOMAIN panels'
    BY <1>6, ElicitingAdds
  <2>4. \A k \in 1..turn : Walked(k) \in Sealed => Walked(k) \in DOMAIN panels'
    BY <1>1, <2>1, <2>2, <2>3 DEF PanelsFollow, InCycle, TypeOK
  <2>5. turn' - 1 = turn
    BY <2>1, <2>2
  <2>6. \A k \in 1..(turn' - 1) : Walked(k)' \in Sealed' => Walked(k)' \in DOMAIN panels'
    BY <2>2, <2>4, <2>5 DEF Walked
  <2> QED
    BY <1>1, <2>2, <2>6 DEF PanelsFollow, CycleIsOver
<1>7. CASE CompleteCycle
  <2>1. phase = "unit" /\ phase' = "remember" /\ cycle' = cycle /\ panels' = panels
        /\ Sealed' = Sealed
    BY <1>7 DEF CompleteCycle, Sealed
  <2>2. ASSUME NEW cell \in Sealed, cell[1] = cycle PROVE cell \in DOMAIN panels
    <3>1. PICK u \in Unit : cell = <<cycle, u>>
      BY <2>2 DEF TypeOK, Cell
    <3>2. PICK k \in 1..Len(Units) : InTurn(cycle, k) = u
      BY EveryUnitHasItsTurn DEF TypeOK
    <3>3. k \in 1..(turn - 1)
      BY <1>7 DEF CompleteCycle, TypeOK
    <3> QED
      BY <2>1, <2>2, <3>1, <3>2, <3>3 DEF PanelsFollow, InCycle, Walked
  <2> QED
    BY <2>1, <2>2 DEF PanelsFollow, InCycle, CycleIsOver
<1>8. CASE ObserveFailure \/ ObservedAll
  BY <1>8 DEF ObserveFailure, ObservedAll, stored, PanelsFollow, InCycle, CycleIsOver, Walked, InTurn,
              Here, Sealed
<1>9. CASE PanelOutage \/ Remember \/ Finish
  BY <1>9 DEF PanelOutage, Remember, Finish, stored, PanelsFollow, InCycle, CycleIsOver, Sealed
<1>10. CASE NextCycle
  <2>1. phase' = "start" /\ cycle' = cycle + 1 /\ Sealed' = Sealed /\ panels' = panels
        /\ phase = "done"
    BY <1>10 DEF NextCycle, stored, Sealed
  <2>2. \A cell \in Sealed : cell[1] \in Nat /\ cycle \in Nat
    BY DEF TypeOK, Cell, Cycle
  <2> QED
    BY <2>1, <2>2 DEF PanelsFollow, InCycle, CycleIsOver
<1>11. CASE RunAgain
  <2>1. phase' = "start" /\ cycle' = 0 /\ Sealed' = Sealed /\ panels' = panels
    BY <1>11 DEF RunAgain, stored, Sealed
  <2>2. \A cell \in Sealed : cell[1] \in Nat
    BY DEF TypeOK, Cell, Cycle
  <2> QED
    BY <2>1, <2>2 DEF PanelsFollow, InCycle, CycleIsOver
<1> QED
  BY <1>2, <1>3, <1>4, <1>5, <1>6, <1>7, <1>8, <1>9, <1>10, <1>11 DEF Next

LEMMA AccountedStep ==
  ASSUME RunnerInv, Next
  PROVE  EveryConditionAccounted'
<1> USE DEF RunnerInv
<1>1. Sealed \subseteq Sealed' /\ \A e : Recorded(e) => Contains(chain', e)
  BY ChainGrows, TablesGrow
<1>2. ASSUME NEW n \in DOMAIN chain', chain'[n][1] = "CYCLE_COMPLETED", NEW u \in Unit
      PROVE  \/ <<chain'[n][2], u>> \in Sealed'
             \/ Contains(chain', <<"CONDITION_MISSING", chain'[n][2], u>>)
  <2>1. CASE n \in DOMAIN chain
    <3>1. chain'[n] = chain[n]
      BY <2>1, ChainGrows
    <3>2. \/ <<chain[n][2], u>> \in Sealed
          \/ Recorded(<<"CONDITION_MISSING", chain[n][2], u>>)
      BY <1>2, <2>1, <3>1 DEF EveryConditionAccounted
    <3> QED
      BY <1>1, <3>1, <3>2
  <2>2. CASE n \notin DOMAIN chain
    <3>1. CompleteCycle /\ chain'[n][2] = cycle
      BY <1>2, <2>2, ChainGrows
    <3>2. u \in missing => Recorded(<<"CONDITION_MISSING", cycle, u>>)
      BY <3>1 DEF CompleteCycle, PassFits
    <3>3. u \in missing \/ <<cycle, u>> \in Sealed
      BY <3>1, AllTurnsTaken
    <3> QED
      BY <1>1, <3>1, <3>2, <3>3
  <2> QED
    BY <2>1, <2>2
<1> QED
  BY <1>2 DEF EveryConditionAccounted, Recorded, Unit

LEMMA RunnerStep ==
  ASSUME RunnerInv, [Next]_vars
  PROVE  RunnerInv'
<1>1. CASE Next
  BY <1>1, TypeStep, PassStep, PanelsStep, AccountedStep DEF RunnerInv
<1>2. CASE UNCHANGED vars
  BY <1>2 DEF vars, RunnerInv, TypeOK, StoresFit, IsStore, PassFits, PanelsFollow,
              EveryConditionAccounted, Sealed, Here, InTurn, Walked, Recorded, InCycle,
              CycleIsOver
<1> QED
  BY <1>1, <1>2

LEMMA RunnerInvariant == Spec => []RunnerInv
BY RunnerInit, RunnerStep, PTL DEF Spec

-----------------------------------------------------------------------------
\* Every state is well formed: a panel belongs to a sealed decision, no event is
\* in the chain twice, and what is remembered was decided.
THEOREM TypeCorrect == Spec => []TypeOK
<1>1. RunnerInv => TypeOK
  BY DEF RunnerInv
<1> QED
  BY <1>1, RunnerInvariant, PTL

\* runner.py, run_cycle: however often the run is interrupted and the provider
\* fails, a cycle is completed only when each condition is sealed or reported as
\* missing.
THEOREM AlwaysAccounted == Spec => []EveryConditionAccounted
<1>1. RunnerInv => EveryConditionAccounted
  BY DEF RunnerInv
<1> QED
  BY <1>1, RunnerInvariant, PTL

\* runner.py, _run_unit: a run that gets to its end leaves no decision
\* of any cycle without the panel that belongs to it.
THEOREM HolesAlwaysFilled == Spec => []HolesAreFilled
<1>1. RunnerInv => HolesAreFilled
  <2> SUFFICES ASSUME RunnerInv, phase = "over" PROVE Sealed = DOMAIN panels
    BY DEF HolesAreFilled
  <2>1. cycle = LAST /\ LAST \in Nat /\ DOMAIN panels \subseteq Sealed
    BY RunnerAssumption DEF RunnerInv, PassFits, TypeOK
  <2>2. \A cell \in Sealed : cell[1] \in Nat /\ cell[1] <= LAST
    BY <2>1 DEF RunnerInv, TypeOK, Cell, Cycle
  <2>3. \A cell \in Sealed : cell \in DOMAIN panels
    BY <2>1, <2>2 DEF RunnerInv, PanelsFollow, CycleIsOver
  <2> QED
    BY <2>1, <2>3
<1> QED
  BY <1>1, RunnerInvariant, PTL

-----------------------------------------------------------------------------
(* One decision for each condition. *)

SealedIn(events, cell) == SealedBefore(events, Len(events) + 1, cell)

\* What is sealed and what the log says is sealed are the same cells, and what is
\* still to be observed belongs to the decision at hand.
LogSaysWhatIsSealed ==
  /\ \A cell \in Cell : cell \in Sealed <=> SealedIn(chain, cell)
  /\ phase = "failures" => owed <= bundles[Here].failures

\* The event becomes the last one, unless it was there.
LEMMA EmitAppends ==
  ASSUME NEW event, NEW now, IsSequence(chain), Emit(event, now)
  PROVE  /\ Len(chain) \in Nat /\ DOMAIN chain = 1..Len(chain)
         /\ \/ chain' = chain
            \/ /\ DOMAIN chain' = 1..(Len(chain) + 1)
               /\ chain'[Len(chain) + 1] = event
               /\ \A n \in 1..Len(chain) : chain'[n] = chain[n]
<1>1. PICK S : chain \in Seq(S)
  BY DEF IsSequence
<1>2. CASE Recorded(event)
  BY <1>1, <1>2 DEF Emit
<1>3. CASE ~Recorded(event)
  <2>1. chain' = Append(chain, event) /\ chain \in Seq(S \cup {event})
    BY <1>1, <1>3 DEF Emit
  <2> QED
    BY <2>1
<1> QED
  BY <1>2, <1>3

\* What is told of the decisions before, and by the event itself.
LEMMA EmitTells ==
  ASSUME NEW event, NEW now, IsSequence(chain), Emit(event, now), NEW cell
  PROVE  /\ SealedIn(chain', cell) <=> \/ SealedIn(chain, cell)
                                      \/ event = <<"DECISION_SEALED", cell[1], cell[2]>>
         /\ \A n \in DOMAIN chain :
              SealedBefore(chain', n, cell) <=> SealedBefore(chain, n, cell)
         /\ Len(chain) + 1 \in DOMAIN chain' =>
              (SealedBefore(chain', Len(chain) + 1, cell) <=> SealedIn(chain, cell))
<1> DEFINE sealed == <<"DECISION_SEALED", cell[1], cell[2]>>
<1>0. \A s, n : SealedBefore(s, n, cell) <=> \E m \in 1..(n - 1) : s[m] = sealed
  BY DEF SealedBefore
<1> HIDE DEF sealed
<1>1. Len(chain) \in Nat /\ DOMAIN chain = 1..Len(chain)
  BY EmitAppends
<1>2. CASE chain' = chain
  <2>1. Recorded(event)
    BY <1>2, EmitExtends DEF Recorded
  <2> QED
    BY <1>0, <1>1, <1>2, <2>1 DEF SealedIn, Recorded, Contains, sealed
<1>3. CASE chain' # chain
  <2>1. /\ Len(chain') = Len(chain) + 1 /\ chain'[Len(chain) + 1] = event
        /\ \A n \in 1..Len(chain) : chain'[n] = chain[n]
    BY <1>1, <1>3, EmitAppends
  <2>2. \A n \in 1..(Len(chain) + 1) : 1..(n - 1) \subseteq 1..Len(chain)
    BY <1>1
  <2>3. \A n \in 1..(Len(chain) + 1) :
          SealedBefore(chain', n, cell) <=> SealedBefore(chain, n, cell)
    BY <1>0, <2>1, <2>2
  <2>4. SealedIn(chain', cell) <=> SealedIn(chain, cell) \/ event = sealed
    BY <1>0, <1>1, <2>1 DEF SealedIn
  <2> QED
    BY <1>1, <2>3, <2>4 DEF SealedIn, sealed
<1> QED
  BY <1>2, <1>3

\* One more event, which is true of the decision that is sealed.
LEMMA TrueEventsKeepOneDecision ==
  ASSUME OneDecisionEach, IsSequence(chain), NEW event, Emit(event, memory),
         Sealed \subseteq Sealed', \A cell \in Sealed : bundles'[cell] = bundles[cell],
         event[1] = "CONDITION_MISSING" => ~SealedIn(chain, <<event[2], event[3]>>),
         event[1] = "AGENT_FAILURE_OBSERVED" =>
           /\ SealedIn(chain, <<event[2], event[3]>>) /\ <<event[2], event[3]>> \in Sealed
           /\ event[4] \in 0..(bundles[<<event[2], event[3]>>].failures - 1)
  PROVE  OneDecisionEach'
<1> DEFINE Of(e) == <<e[2], e[3]>>
<1>2. /\ \A n \in DOMAIN chain : n \in DOMAIN chain' /\ chain'[n] = chain[n]
      /\ \A n \in DOMAIN chain' :
           n \in DOMAIN chain \/ (n = Len(chain) + 1 /\ chain'[n] = event)
  BY EmitAppends
<1> SUFFICES ASSUME NEW n \in DOMAIN chain'
             PROVE  /\ chain'[n][1] = "CONDITION_MISSING" =>
                         ~SealedBefore(chain', n, Of(chain'[n]))
                    /\ chain'[n][1] = "AGENT_FAILURE_OBSERVED" =>
                         /\ SealedBefore(chain', n, Of(chain'[n])) /\ Of(chain'[n]) \in Sealed'
                         /\ chain'[n][4] \in 0..(bundles'[Of(chain'[n])].failures - 1)
  BY DEF OneDecisionEach, SealedBefore, Sealed
<1>3. CASE n \in DOMAIN chain
  <2>1. SealedBefore(chain', n, Of(chain[n])) <=> SealedBefore(chain, n, Of(chain[n]))
    BY <1>3, EmitTells
  <2>2. /\ chain[n][1] = "CONDITION_MISSING" => ~SealedBefore(chain, n, Of(chain[n]))
        /\ chain[n][1] = "AGENT_FAILURE_OBSERVED" =>
             /\ SealedBefore(chain, n, Of(chain[n])) /\ Of(chain[n]) \in Sealed
             /\ chain[n][4] \in 0..(bundles[Of(chain[n])].failures - 1)
    BY <1>3 DEF OneDecisionEach
  <2> HIDE DEF Of
  <2> QED
    BY <1>2, <1>3, <2>1, <2>2
<1>4. CASE n \notin DOMAIN chain
  <2>1. SealedBefore(chain', n, Of(event)) <=> SealedIn(chain, Of(event))
    BY <1>2, <1>4, EmitTells
  <2> QED
    BY <1>2, <1>4, <2>1
<1> QED
  BY <1>3, <1>4

LEMMA LogSaysStep ==
  ASSUME RunnerInv, LogSaysWhatIsSealed, Next
  PROVE  LogSaysWhatIsSealed'
<1> USE DEF RunnerInv
<1>0. IsSequence(chain)
  BY DEF StoresFit
<1>1. CASE DecideAndSeal
  <2>1. /\ turn \in 1..Len(Units) /\ Here \in Cell /\ Here = <<cycle, Here[2]>> /\ Here' = Here
    BY <1>1, HereIsACell, RunnerAssumption DEF DecideAndSeal, Asked, TypeOK, Here, InTurn
  <2>2. /\ Sealed' = Sealed \cup {Here} /\ owed' = bundles'[Here].failures
        /\ Emit(<<"DECISION_SEALED", cycle, Here[2]>>, memory)
    BY <1>1, SealingAdds DEF Sealed, DecideAndSeal
  <2>3. \A cell \in Cell : (<<cycle, Here[2]>> = <<cell[1], cell[2]>>) <=> cell = Here
    BY <2>1 DEF Cell
  <2>4. \A cell : SealedIn(chain', cell) <=> \/ SealedIn(chain, cell)
                                            \/ <<cycle, Here[2]>> = <<cell[1], cell[2]>>
    BY <1>0, <2>2, EmitTells
  <2>5. \A cell \in Cell : cell \in Sealed' <=> SealedIn(chain', cell)
    BY <2>2, <2>3, <2>4 DEF LogSaysWhatIsSealed
  <2>6. owed' \in Int /\ owed' <= bundles'[Here].failures
    BY <1>1, <2>2, SealingAdds, RunnerAssumption
  <2> QED
    BY <2>1, <2>5, <2>6 DEF LogSaysWhatIsSealed, Cell, Cycle, Unit
<1>2. ASSUME NEW event, Emit(event, memory), event[1] # "DECISION_SEALED", Sealed' = Sealed
      PROVE  \A cell \in Cell : cell \in Sealed' <=> SealedIn(chain', cell)
  BY <1>0, <1>2, EmitTells DEF LogSaysWhatIsSealed
<1>3. ASSUME chain' = chain, Sealed' = Sealed
      PROVE  \A cell \in Cell : cell \in Sealed' <=> SealedIn(chain', cell)
  BY <1>3 DEF LogSaysWhatIsSealed
<1>4. CASE ObserveFailure
  <2>1. /\ phase = "failures" /\ Here' = Here /\ bundles' = bundles /\ Sealed' = Sealed
        /\ owed' = owed - 1 /\ owed \in Int /\ bundles[Here].failures \in Int
    BY <1>4, RunnerAssumption DEF ObserveFailure, Here, InTurn, Sealed, TypeOK, PassFits
  <2>2. \A cell \in Cell : cell \in Sealed' <=> SealedIn(chain', cell)
    BY <1>2, <1>4, <2>1 DEF ObserveFailure
  <2>3. owed' <= bundles'[Here'].failures
    BY <2>1 DEF LogSaysWhatIsSealed
  <2> QED
    BY <2>2, <2>3 DEF LogSaysWhatIsSealed, Cell, Cycle, Unit
<1>5. CASE StartCycle \/ RecordMissing \/ ElicitPanel \/ CompleteCycle
  <2>1. phase' # "failures" /\ Sealed' = Sealed
    BY <1>5 DEF StartCycle, RecordMissing, ElicitPanel, CompleteCycle, Asked, Sealed
  <2>2. \A cell \in Cell : cell \in Sealed' <=> SealedIn(chain', cell)
    BY <1>2, <1>5, <2>1 DEF StartCycle, RecordMissing, ElicitPanel, CompleteCycle
  <2> QED
    BY <2>1, <2>2 DEF LogSaysWhatIsSealed, Cell, Cycle, Unit
<1>6. CASE LoadSealed \/ ObservedAll \/ PanelOutage \/ Remember \/ NextCycle \/ Finish \/ RunAgain
  <2>1. phase' # "failures" /\ Sealed' = Sealed /\ chain' = chain
    BY <1>6 DEF LoadSealed, ObservedAll, PanelOutage, Remember, NextCycle, Finish, RunAgain,
                Asked, stored, Sealed
  <2> QED
    BY <1>3, <2>1 DEF LogSaysWhatIsSealed, Cell, Cycle, Unit
<1> QED
  BY <1>1, <1>4, <1>5, <1>6 DEF Next

LEMMA OneDecisionStep ==
  ASSUME RunnerInv, LogSaysWhatIsSealed, OneDecisionEach, Next
  PROVE  OneDecisionEach'
<1> USE DEF RunnerInv
<1>0. /\ IsSequence(chain) /\ Sealed \subseteq Sealed'
      /\ \A cell \in Sealed : bundles'[cell] = bundles[cell]
  BY TablesGrow DEF StoresFit
<1>1. CASE RecordMissing
  <2> DEFINE event == <<"CONDITION_MISSING", cycle, Here[2]>>
  <2>1. Emit(event, memory) /\ Here \notin Sealed /\ Here \in Cell /\ Here = <<cycle, Here[2]>>
    BY <1>1, HereIsACell, RunnerAssumption DEF RecordMissing, Asked, TypeOK
  <2>2. event[1] = "CONDITION_MISSING" /\ <<event[2], event[3]>> = Here
    BY <2>1
  <2>3. ~SealedIn(chain, Here)
    BY <2>1 DEF LogSaysWhatIsSealed
  <2> HIDE DEF event
  <2> QED
    BY <1>0, <2>1, <2>2, <2>3, TrueEventsKeepOneDecision
<1>2. CASE ObserveFailure
  <2> DEFINE event == <<"AGENT_FAILURE_OBSERVED", cycle, Here[2], bundles[Here].failures - owed>>
  <2>1. Emit(event, memory) /\ Here \in Sealed /\ owed \in Nat /\ owed > 0
        /\ owed <= bundles[Here].failures /\ bundles[Here].failures \in Nat
    BY <1>2, RunnerAssumption DEF ObserveFailure, PassFits, TypeOK, LogSaysWhatIsSealed
  <2>2. Here \in Cell /\ Here = <<cycle, Here[2]>>
    BY <1>2, HereIsACell, RunnerAssumption DEF ObserveFailure, PassFits, TypeOK
  <2>3. /\ event[1] = "AGENT_FAILURE_OBSERVED" /\ <<event[2], event[3]>> = Here
        /\ event[4] \in 0..(bundles[Here].failures - 1)
    BY <2>1, <2>2
  <2>4. SealedIn(chain, Here)
    BY <2>1, <2>2 DEF LogSaysWhatIsSealed
  <2> HIDE DEF event
  <2> QED
    BY <1>0, <2>1, <2>3, <2>4, TrueEventsKeepOneDecision
<1>3. ASSUME NEW event, Emit(event, memory), event[1] # "CONDITION_MISSING",
             event[1] # "AGENT_FAILURE_OBSERVED"
      PROVE  OneDecisionEach'
  BY <1>0, <1>3, TrueEventsKeepOneDecision
<1>4. CASE StartCycle \/ DecideAndSeal \/ ElicitPanel \/ CompleteCycle
  BY <1>3, <1>4 DEF StartCycle, DecideAndSeal, ElicitPanel, CompleteCycle
<1>5. CASE LoadSealed \/ ObservedAll \/ PanelOutage \/ Remember \/ NextCycle \/ Finish \/ RunAgain
  <2>1. chain' = chain /\ bundles' = bundles
    BY <1>5 DEF LoadSealed, ObservedAll, PanelOutage, Remember, NextCycle, Finish, RunAgain, stored
  <2> QED
    BY <2>1 DEF OneDecisionEach, Sealed
<1> QED
  BY <1>1, <1>2, <1>4, <1>5 DEF Next

\* runner.py, _run_unit: whatever is interrupted, resumed or asked for once more, the
\* log tells of one decision for each condition, which is not reported missing after
\* it, and observes no failure that the sealed decision does not have.
THEOREM OneDecisionForEach == Spec => []OneDecisionEach
<1> DEFINE Inv == RunnerInv /\ LogSaysWhatIsSealed /\ OneDecisionEach
<1>1. Init => Inv
  <2> SUFFICES ASSUME Init PROVE LogSaysWhatIsSealed /\ OneDecisionEach
    BY RunnerInit
  <2>1. chain = << >> /\ DOMAIN chain = {} /\ Sealed = {} /\ phase = "start"
    BY DEF Init, Sealed
  <2> QED
    BY <2>1 DEF LogSaysWhatIsSealed, SealedIn, SealedBefore, OneDecisionEach
<1>2. Inv /\ [Next]_vars => Inv'
  <2>1. CASE Next
    BY <2>1, RunnerStep, LogSaysStep, OneDecisionStep
  <2>2. CASE UNCHANGED vars
    BY <2>2, RunnerStep DEF vars, LogSaysWhatIsSealed, OneDecisionEach, Sealed, Here, InTurn,
                            Cell, Cycle, Unit
  <2> QED
    BY <2>1, <2>2
<1>3. Inv => OneDecisionEach
  OBVIOUS
<1> QED
  BY <1>1, <1>2, <1>3, PTL DEF Spec

-----------------------------------------------------------------------------
(* What a run that was never interrupted would remember.                     *)

\* The cycles whose episodes can be recalled at cycle n.
Window(n) == Max({0, n - RECALL_LIMIT})..(n - 1)

Reflects(n) ==
  INTERVAL > 0 /\ (n + 1) % INTERVAL = 0 /\ Cardinality(Window(n)) >= MIN_EPISODES
Reflection(unit, n) == [unit |-> unit, cycle |-> n, from |-> Window(n)]

Due(c) == {n \in 0..(c - 1) : Reflects(n)}

\* The material of cycle c, when told[k] is the episode of cycle k.
Ideal(unit, c, told) ==
  LET kept == IF Due(c) = {} THEN {} ELSE {Reflection(unit, Max(Due(c)))}
  IN  << CASE Grants[unit].memory = "none" -> {}
           [] Grants[unit].memory = "genuine" -> {told[k] : k \in Window(c)}
           [] Grants[unit].memory = "placebo" -> {Shape(told[k]) : k \in Window(c)},
         CASE Grants[unit].reflection = "none" -> {}
           [] Grants[unit].reflection = "genuine" -> kept
           [] Grants[unit].reflection = "placebo" -> IF c = 0 THEN {} ELSE {"placebo"} >>

Told(unit, c) == [k \in 0..(c - 1) |-> Episode(unit, k)]

LEMMA WindowIs ==
  ASSUME NEW n \in Nat
  PROVE  /\ \A k \in Int : k \in Window(n) <=> k \in 0..(n - 1) /\ n - 1 - k < RECALL_LIMIT
         /\ Window(n) \subseteq 0..(n - 1)
         /\ IsFiniteSet(Window(n)) /\ Cardinality(Window(n)) \in Nat
<1> DEFINE m == Max({0, n - RECALL_LIMIT})
<1>1. RECALL_LIMIT \in Nat
  BY RunnerAssumption
<1>2. m \in {0, n - RECALL_LIMIT} /\ \A y \in {0, n - RECALL_LIMIT} : m >= y
  <2>1. \E x \in {0, n - RECALL_LIMIT} : \A y \in {0, n - RECALL_LIMIT} : x >= y
    BY <1>1
  <2> QED
    BY <2>1 DEF Max
<1>3. m \in Int /\ m >= 0 /\ m >= n - RECALL_LIMIT /\ (m = 0 \/ m = n - RECALL_LIMIT)
  BY <1>1, <1>2
<1>4. Window(n) = m..(n - 1)
  BY DEF Window
<1> HIDE DEF m
<1>5. IsFiniteSet(Window(n)) /\ Cardinality(Window(n)) \in Nat
  BY <1>3, <1>4, FS_Interval, FS_CardinalityType
<1>6. \A k \in Int : k \in Window(n) <=> k \in 0..(n - 1) /\ n - 1 - k < RECALL_LIMIT
  BY <1>1, <1>3, <1>4
<1> QED
  BY <1>3, <1>4, <1>5, <1>6

LEMMA EpisodeTells ==
  ASSUME NEW unit, NEW k
  PROVE  Episode(unit, k).cycle = k /\ Episode(unit, k).unit = unit
BY DEF Episode

\* As many episodes as there are cycles in the window, and those are theirs.
LEMMA RecalledIs ==
  ASSUME NEW unit, NEW n \in Nat
  PROVE  /\ Cardinality({Episode(unit, k) : k \in Window(n)}) = Cardinality(Window(n))
         /\ {e.cycle : e \in {Episode(unit, k) : k \in Window(n)}} = Window(n)
<1> DEFINE Recalled == {Episode(unit, k) : k \in Window(n)}
<1> DEFINE f == [k \in Window(n) |-> Episode(unit, k)]
<1>1. f \in [Window(n) -> Recalled] /\ \A t \in Recalled : \E k \in Window(n) : f[k] = t
  OBVIOUS
<1>2. \A x, y \in Window(n) : f[x] = f[y] => x = y
  BY EpisodeTells
<1>3. IsFiniteSet(Window(n))
  BY WindowIs
<1> HIDE DEF f, Recalled
<1>4. Cardinality(Recalled) = Cardinality(Window(n))
  BY <1>1, <1>2, <1>3, SameCount
<1>5. {e.cycle : e \in Recalled} = Window(n)
  <2> DEFINE cycles == {e.cycle : e \in Recalled}
  <2>1. ASSUME NEW j \in cycles PROVE j \in Window(n)
    BY EpisodeTells DEF Recalled
  <2>2. ASSUME NEW j \in Window(n) PROVE j \in cycles
    <3>1. Episode(unit, j) \in Recalled /\ Episode(unit, j).cycle = j
      BY EpisodeTells DEF Recalled
    <3> QED
      BY <3>1
  <2> HIDE DEF cycles
  <2>3. cycles = Window(n)
    BY <2>1, <2>2
  <2> QED
    BY <2>3 DEF cycles
<1> QED
  BY <1>4, <1>5 DEF Recalled

\* The definition of an uninterrupted run says nothing else.
LEMMA UninterruptedIs ==
  \A unit \in Unit, c \in Cycle : Uninterrupted(unit, c) = Ideal(unit, c, Told(unit, c))
<1> SUFFICES ASSUME NEW unit \in Unit, NEW c \in Cycle
             PROVE  Uninterrupted(unit, c) = Ideal(unit, c, Told(unit, c))
  OBVIOUS
<1>1. c \in Nat
  BY DEF Cycle
<1> DEFINE Recalled(n) == {Episode(unit, k) : k \in Window(n)}
           told == Told(unit, c)
<1>2. ASSUME NEW n \in Nat
      PROVE  /\ Cardinality(Recalled(n)) = Cardinality(Window(n))
             /\ {e.cycle : e \in Recalled(n)} = Window(n)
  BY RecalledIs, Zenon
<1>3. Recalled(c) = {told[k] : k \in Window(c)}
      /\ {Shape(e) : e \in Recalled(c)} = {Shape(told[k]) : k \in Window(c)}
  <2>1. \A k \in Window(c) : told[k] = Episode(unit, k)
    BY <1>1, WindowIs DEF Told
  <2> HIDE DEF told
  <2>2. Recalled(c) = {told[k] : k \in Window(c)}
    BY <2>1
  <2>3. {Shape(e) : e \in Recalled(c)} = {Shape(Episode(unit, k)) : k \in Window(c)}
    OBVIOUS
  <2>4. {Shape(Episode(unit, k)) : k \in Window(c)} = {Shape(told[k]) : k \in Window(c)}
    BY <2>1
  <2> QED
    BY <2>2, <2>3, <2>4
<1> DEFINE due == {n \in 0..(c - 1) : INTERVAL > 0 /\ (n + 1) % INTERVAL = 0
                                      /\ Cardinality(Recalled(n)) >= MIN_EPISODES}
<1>4. due = Due(c)
  <2>1. \A n \in 0..(c - 1) : Cardinality(Recalled(n)) = Cardinality(Window(n))
    BY <1>1, <1>2
  <2> HIDE DEF Recalled
  <2> QED
    BY <2>1 DEF Due, Reflects
<1>5. due # {} => Max(due) \in due
  <2>1. due \in SUBSET (0..c)
    BY <1>1
  <2> HIDE DEF due
  <2> QED
    BY <1>1, <2>1, GreatestUpTo
<1>6. due # {} => {e.cycle : e \in Recalled(Max(due))} = Window(Max(due))
  <2>1. due \subseteq Nat
    BY <1>1
  <2> HIDE DEF due, Recalled
  <2>2. due # {} => Max(due) \in Nat
    BY <1>5, <2>1
  <2> QED
    BY <1>2, <2>2
<1> DEFINE reflection ==
      IF due = {} THEN {}
      ELSE {[unit |-> unit, cycle |-> Max(due), from |-> {e.cycle : e \in Recalled(Max(due))}]}
<1>7. reflection = IF Due(c) = {} THEN {} ELSE {Reflection(unit, Max(Due(c)))}
  <2> HIDE DEF due, Recalled
  <2> QED
    BY <1>4, <1>6 DEF Reflection
<1>8. Uninterrupted(unit, c) =
        << CASE Grants[unit].memory = "none" -> {}
             [] Grants[unit].memory = "genuine" -> Recalled(c)
             [] Grants[unit].memory = "placebo" -> {Shape(e) : e \in Recalled(c)},
           CASE Grants[unit].reflection = "none" -> {}
             [] Grants[unit].reflection = "genuine" -> reflection
             [] Grants[unit].reflection = "placebo" -> IF c = 0 THEN {} ELSE {"placebo"} >>
  BY Zenon DEF Uninterrupted, Window
<1> HIDE DEF reflection, Recalled
<1> QED
  BY <1>3, <1>7, <1>8, Zenon DEF Ideal

LEMMA UninterruptedNext ==
  (\A unit \in Unit, c \in Cycle : Uninterrupted(unit, c) = Ideal(unit, c, Told(unit, c)))'
BY UninterruptedIs, PTL

-----------------------------------------------------------------------------
(* What the memory of an interrupted run has in common with it. *)

Behind(n) == n < cycle \/ (n = cycle /\ phase \in {"done", "over"})

EpisodesFit(episodes) ==
  \A e \in episodes : e.unit \in Unit /\ e = Episode(e.unit, e.cycle)
ReflectionsFit(reflections) ==
  \A r \in reflections :
    r.unit \in Unit /\ r.cycle \in Nat /\ Reflects(r.cycle) /\ r = Reflection(r.unit, r.cycle)

\* Everything behind the process is remembered, and whatever else is remembered,
\* by a run that was interrupted later than this, is the same.
MemoryIsWhole ==
  /\ missing = {} /\ phase # "raised"
  /\ EpisodesFit(memory.episodes) /\ ReflectionsFit(memory.reflections)
  /\ durable.reflections \subseteq memory.reflections
  /\ \A u \in Unit, k \in Cycle : Behind(k) =>
       /\ <<k, u>> \in Sealed /\ Episode(u, k) \in memory.episodes
       /\ Reflects(k) => Reflection(u, k) \in memory.reflections
  /\ \A cell \in Sealed, k \in Cycle : k < cell[1] => <<k, cell[2]>> \in Sealed

MaterialInv == RunnerInv /\ (outages = 0 => MemoryIsWhole) /\ MaterialIsReplayable

\* Of all that is remembered, only the cycles of the window are recalled.
LEMMA RecallIsWindow ==
  ASSUME TypeOK, MemoryIsWhole, NEW u \in Unit, cycle \in Cycle
  PROVE  /\ Before(u, cycle) = {Episode(u, k) : k \in 0..(cycle - 1)}
         /\ Recall(u, cycle) = {Episode(u, k) : k \in Window(cycle)}
<1>1. cycle \in Nat /\ 0..(cycle - 1) \subseteq Cycle /\ \A k \in 0..(cycle - 1) : Behind(k)
  BY RunnerAssumption DEF Cycle, Behind
<1>2. Before(u, cycle) = {Episode(u, k) : k \in 0..(cycle - 1)}
  <2>1. ASSUME NEW e \in Before(u, cycle) PROVE e.cycle \in 0..(cycle - 1) /\ e = Episode(u, e.cycle)
    <3>1. e \in memory.episodes /\ e.unit = u /\ e.cycle < cycle
      BY DEF Before
    <3>2. e.cycle \in Cycle /\ e = Episode(u, e.cycle)
      BY <3>1 DEF TypeOK, MemoryIsWhole, EpisodesFit, Cell
    <3> QED
      BY <1>1, <3>1, <3>2 DEF Cycle
  <2>2. ASSUME NEW k \in 0..(cycle - 1) PROVE Episode(u, k) \in Before(u, cycle)
    <3>1. Episode(u, k) \in memory.episodes
      BY <1>1 DEF MemoryIsWhole
    <3> QED
      BY <3>1, <1>1, EpisodeTells DEF Before
  <2> QED
    BY <2>1, <2>2
<1>3. ASSUME NEW k \in 0..(cycle - 1)
      PROVE  Cardinality({x \in Before(u, cycle) : x.cycle > k}) = cycle - 1 - k
  <2> DEFINE S == (k + 1)..(cycle - 1)
             T == {x \in Before(u, cycle) : x.cycle > k}
             f == [j \in S |-> Episode(u, j)]
  <2>1. \A j \in S : j \in 0..(cycle - 1) /\ j > k
    BY <1>1
  <2>2. f \in [S -> T]
    BY <1>2, <2>1, EpisodeTells
  <2>3. \A x, y \in S : f[x] = f[y] => x = y
    BY EpisodeTells
  <2>4. ASSUME NEW t \in T PROVE \E j \in S : f[j] = t
    <3>1. PICK j \in 0..(cycle - 1) : t = Episode(u, j)
      BY <1>2
    <3>2. j > k
      BY <3>1, EpisodeTells
    <3>3. j \in S
      BY <1>1, <3>2
    <3> QED
      BY <3>1, <3>3
  <2>5. IsFiniteSet(S) /\ Cardinality(S) = cycle - 1 - k
    <3>1. k + 1 \in Int /\ cycle - 1 \in Int /\ k <= cycle - 1 /\ k \in Int
      BY <1>1
    <3>2. Cardinality(S) = (IF k + 1 > cycle - 1 THEN 0 ELSE (cycle - 1) - (k + 1) + 1) /\ IsFiniteSet(S)
      BY <3>1, FS_Interval
    <3> QED
      BY <3>1, <3>2
  <2> HIDE DEF S, T, f
  <2>6. Cardinality(T) = Cardinality(S)
    BY <2>2, <2>3, <2>4, <2>5, SameCount
  <2> QED
    BY <2>5, <2>6 DEF T
<1>4. \A k \in 0..(cycle - 1) : k \in Window(cycle) <=> cycle - 1 - k < RECALL_LIMIT
  BY <1>1, WindowIs
<1>5. ASSUME NEW e \in Recall(u, cycle) PROVE \E k \in Window(cycle) : e = Episode(u, k)
  <2>1. e \in Before(u, cycle)
        /\ Cardinality({x \in Before(u, cycle) : x.cycle > e.cycle}) < RECALL_LIMIT
    BY DEF Recall
  <2>2. PICK k \in 0..(cycle - 1) : e = Episode(u, k)
    BY <1>2, <2>1
  <2>3. e.cycle = k
    BY <2>2, EpisodeTells
  <2>4. cycle - 1 - k < RECALL_LIMIT
    BY <1>3, <2>1, <2>3
  <2> QED
    BY <1>4, <2>2, <2>4
<1>6. ASSUME NEW k \in Window(cycle) PROVE Episode(u, k) \in Recall(u, cycle)
  <2>1. k \in 0..(cycle - 1)
    BY <1>1, WindowIs
  <2>2. cycle - 1 - k < RECALL_LIMIT /\ Episode(u, k) \in Before(u, cycle)
    BY <1>2, <1>4, <2>1
  <2>3. Episode(u, k).cycle = k
    BY EpisodeTells
  <2>4. Cardinality({x \in Before(u, cycle) : x.cycle > Episode(u, k).cycle}) < RECALL_LIMIT
    BY <1>3, <2>1, <2>2, <2>3
  <2> QED
    BY <2>2, <2>4 DEF Recall
<1>7. Recall(u, cycle) = {Episode(u, k) : k \in Window(cycle)}
  BY <1>5, <1>6
<1> QED
  BY <1>2, <1>7

\* The latest reflection remembered is that of the latest cycle that was due.
LEMMA LatestIsDue ==
  ASSUME TypeOK, MemoryIsWhole, NEW u \in Unit, cycle \in Cycle
  PROVE  Latest(u, cycle) = IF Due(cycle) = {} THEN {} ELSE {Reflection(u, Max(Due(cycle)))}
<1> DEFINE past == {r \in memory.reflections : r.unit = u /\ r.cycle < cycle}
<1>1. cycle \in Nat /\ 0..(cycle - 1) \subseteq Cycle /\ \A k \in 0..(cycle - 1) : Behind(k)
  BY RunnerAssumption DEF Cycle, Behind
<1>2. ASSUME NEW r \in past PROVE r.cycle \in Due(cycle) /\ r = Reflection(u, r.cycle)
  BY <1>1 DEF MemoryIsWhole, ReflectionsFit, Due
<1>3. ASSUME NEW n \in Due(cycle)
      PROVE  Reflection(u, n) \in past /\ Reflection(u, n).cycle = n
  <2>1. n \in 0..(cycle - 1) /\ Reflects(n)
    BY DEF Due
  <2>2. Reflection(u, n) \in memory.reflections
    BY <1>1, <2>1 DEF MemoryIsWhole
  <2> QED
    BY <1>1, <2>1, <2>2 DEF Reflection
<1>4. Latest(u, cycle) = {r \in past : \A other \in past : other.cycle <= r.cycle}
  BY DEF Latest
<1>5. Due(cycle) \in SUBSET (0..cycle)
  BY <1>1 DEF Due
<1> HIDE DEF past
<1>6. CASE Due(cycle) = {}
  BY <1>2, <1>4, <1>6
<1>7. CASE Due(cycle) # {}
  <2> DEFINE m == Max(Due(cycle))
  <2>1. /\ m \in Due(cycle) /\ \A k \in Due(cycle) : k <= m
        /\ \A n \in Due(cycle) : (\A k \in Due(cycle) : k <= n) => n = m
    BY <1>1, <1>5, <1>7, GreatestUpTo
  <2> HIDE DEF m
  <2>2. Reflection(u, m) \in Latest(u, cycle)
    BY <1>2, <1>3, <1>4, <2>1
  <2>3. ASSUME NEW r \in Latest(u, cycle) PROVE r = Reflection(u, m)
    <3>1. r \in past /\ \A other \in past : other.cycle <= r.cycle
      BY <1>4
    <3>2. \A k \in Due(cycle) : k <= r.cycle
      BY <1>3, <3>1
    <3> QED
      BY <1>2, <2>1, <3>1, <3>2
  <2> QED
    BY <1>7, <2>2, <2>3 DEF m
<1> QED
  BY <1>6, <1>7

\* So a condition is given what an uninterrupted run would have given it.
LEMMA MaterialIsIdeal ==
  ASSUME TypeOK, MemoryIsWhole, NEW u \in Unit, cycle \in Cycle
  PROVE  Material(u, cycle) = Ideal(u, cycle, Told(u, cycle))
<1>1. /\ Before(u, cycle) = {Episode(u, k) : k \in 0..(cycle - 1)}
      /\ Recall(u, cycle) = {Episode(u, k) : k \in Window(cycle)}
  BY RecallIsWindow
<1>2. cycle \in Nat /\ \A k \in Window(cycle) : Told(u, cycle)[k] = Episode(u, k)
  BY WindowIs DEF Cycle, Told
<1>3. Recall(u, cycle) = {Told(u, cycle)[k] : k \in Window(cycle)}
  BY <1>1, <1>2
<1>4. {Shape(e) : e \in Recall(u, cycle)} = {Shape(Told(u, cycle)[k]) : k \in Window(cycle)}
  <2>1. {Shape(e) : e \in Recall(u, cycle)} = {Shape(Episode(u, k)) : k \in Window(cycle)}
    BY <1>1
  <2>2. {Shape(Episode(u, k)) : k \in Window(cycle)}
          = {Shape(Told(u, cycle)[k]) : k \in Window(cycle)}
    BY <1>2
  <2> QED
    BY <2>1, <2>2
<1>5. Before(u, cycle) = {} <=> cycle = 0
  <2>1. cycle = 0 => 0..(cycle - 1) = {}
    BY <1>2
  <2>2. cycle # 0 => 0 \in 0..(cycle - 1)
    BY <1>2
  <2> QED
    BY <1>1, <2>1, <2>2
<1>6. Latest(u, cycle) = IF Due(cycle) = {} THEN {} ELSE {Reflection(u, Max(Due(cycle)))}
  BY LatestIsDue
<1>7. Grants[u].memory \in {"none", "genuine", "placebo"}
      /\ Grants[u].reflection \in {"none", "genuine", "placebo"}
  BY RunnerAssumption DEF Unit
<1>8. MemorySection(u, cycle) =
        CASE Grants[u].memory = "none" -> {}
          [] Grants[u].memory = "genuine" -> {Told(u, cycle)[k] : k \in Window(cycle)}
          [] Grants[u].memory = "placebo" -> {Shape(Told(u, cycle)[k]) : k \in Window(cycle)}
  BY <1>3, <1>4, <1>7 DEF MemorySection, Nothing
<1>9. ReflectionSection(u, cycle) =
        CASE Grants[u].reflection = "none" -> {}
          [] Grants[u].reflection = "genuine" ->
               (IF Due(cycle) = {} THEN {} ELSE {Reflection(u, Max(Due(cycle)))})
          [] Grants[u].reflection = "placebo" -> IF cycle = 0 THEN {} ELSE {"placebo"}
  BY <1>5, <1>6, <1>7 DEF ReflectionSection, Nothing
<1> QED
  BY <1>8, <1>9, Zenon DEF Material, Ideal
-----------------------------------------------------------------------------
(* Steps *)

\* What an episode says was sealed, and stays.
LEMMA EpisodesStay ==
  ASSUME TypeOK, PassFits, [Next]_vars
  PROVE  \A cell \in Sealed : /\ cell \in Sealed' /\ bundles'[cell] = bundles[cell]
                              /\ \A u, k : cell = <<k, u>> => Episode(u, k)' = Episode(u, k)
<1>1. \A cell \in Sealed : cell \in Sealed' /\ bundles'[cell] = bundles[cell]
  <2>1. CASE Next
    BY <2>1, TablesGrow
  <2>2. CASE UNCHANGED vars
    BY <2>2 DEF vars, Sealed
  <2> QED
    BY <2>1, <2>2
<1> QED
  BY <1>1 DEF Episode

\* What was decided was decided with the same material as before the step.
LEMMA MaterialStays ==
  ASSUME RunnerInv, MemoryIsWhole, [Next]_vars, NEW cell \in Sealed
  PROVE  Uninterrupted(cell[2], cell[1])' = Uninterrupted(cell[2], cell[1])
<1> DEFINE u == cell[2]
           c == cell[1]
<1>1. u \in Unit /\ c \in Cycle /\ c \in Nat /\ cell = <<c, u>>
  BY DEF RunnerInv, TypeOK, Cell, Cycle
<1>2. \A k \in 0..(c - 1) : k \in Cycle /\ <<k, u>> \in Sealed
  BY <1>1, RunnerAssumption DEF MemoryIsWhole, Cycle
<1> HIDE DEF u, c
<1>3. \A k \in 0..(c - 1) : Episode(u, k)' = Episode(u, k)
  <2>1. TypeOK /\ PassFits
    BY DEF RunnerInv
  <2>2. \A k : <<k, u>> \in Sealed => Episode(u, k)' = Episode(u, k)
    BY <2>1, EpisodesStay
  <2> QED
    BY <1>2, <2>2
<1>5. Told(u, c)' = Told(u, c)
  BY <1>3 DEF Told
<1>6. Uninterrupted(u, c) = Ideal(u, c, Told(u, c))
  BY <1>1, UninterruptedIs
<1> QED
  BY <1>5, <1>6, <1>1, UninterruptedNext DEF u, c
\* Only sealing adds a decision: it is asked with what is remembered then.
LEMMA SealedMaterial ==
  ASSUME MaterialInv, Next, outages' = 0
  PROVE  MaterialIsReplayable'
<1> USE DEF MaterialInv
<1>1. outages = 0
  BY RunnerAssumption DEF Next, StartCycle, LoadSealed, stored, DecideAndSeal, RecordMissing,
     ObserveFailure, ObservedAll, ElicitPanel, PanelOutage, CompleteCycle, Remember, NextCycle,
     Finish, RunAgain, RunnerInv, TypeOK
<1>2. MemoryIsWhole /\ TypeOK /\ PassFits
  BY <1>1 DEF RunnerInv
<1>3. ASSUME NEW cell \in Sealed'
      PROVE  bundles'[cell].material = Uninterrupted(cell[2], cell[1])'
  <2>1. CASE cell \in Sealed
    <3>1. bundles'[cell] = bundles[cell]
      BY <1>2, <2>1, EpisodesStay
    <3>2. bundles[cell].material = Uninterrupted(cell[2], cell[1])
      BY <1>1, <2>1 DEF MaterialIsReplayable
    <3> QED
      BY <1>2, <2>1, <3>1, <3>2, MaterialStays
  <2>2. CASE cell \notin Sealed
    <3>1. DecideAndSeal
      BY <2>2 DEF Next, Sealed, StartCycle, LoadSealed, stored, RecordMissing, ObserveFailure,
         ObservedAll, ElicitPanel, PanelOutage, CompleteCycle, Remember, NextCycle, Finish, RunAgain
    <3>2. PICK answer \in Answers, failures \in 0..MAX_FAILURES :
            bundles' = WithRow(bundles, Here, [answer |-> answer, failures |-> failures,
                                               material |-> Material(Here[2], cycle)])
      BY <3>1 DEF DecideAndSeal
    <3>3. cell = Here /\ bundles'[cell].material = Material(Here[2], cycle)
      BY <2>2, <3>2 DEF WithRow, Sealed
    <3>4. cycle \in Cycle /\ turn \in 1..Len(Units) /\ cycle \in Nat
      BY <1>2, <3>1, RunnerAssumption DEF DecideAndSeal, Asked, TypeOK, Cycle
    <3>5. PICK u \in Unit : cell = <<cycle, u>>
      BY <3>3, <3>4, HereIsACell
    <3>6. bundles'[cell].material = Ideal(u, cycle, Told(u, cycle))
      BY <1>2, <3>3, <3>4, <3>5, MaterialIsIdeal
    <3>7. \A k \in 0..(cycle - 1) : k \in Cycle /\ Behind(k)
      BY <3>4, RunnerAssumption DEF Cycle, Behind
    <3>8. \A k \in 0..(cycle - 1) : Episode(u, k)' = Episode(u, k)
      <4>1. \A k \in 0..(cycle - 1) : <<k, u>> \in Sealed
        BY <1>2, <3>7 DEF MemoryIsWhole
      <4>2. \A k : <<k, u>> \in Sealed => Episode(u, k)' = Episode(u, k)
        BY <1>2, EpisodesStay
      <4> QED
        BY <4>1, <4>2
    <3>9. PICK c \in Cycle : c = cycle /\ cell = <<c, u>>
      BY <3>4, <3>5
    <3>10. Told(u, c)' = Told(u, c) /\ bundles'[cell].material = Ideal(u, c, Told(u, c))
      BY <3>6, <3>8, <3>9 DEF Told
    <3>11. Uninterrupted(u, c)' = Ideal(u, c, Told(u, c)')
      BY UninterruptedNext
    <3>12. Uninterrupted(cell[2], cell[1])' = Uninterrupted(u, c)'
      BY <3>9
    <3> QED
      BY <3>10, <3>11, <3>12
  <2> QED
    BY <2>1, <2>2
<1> QED
  BY <1>3 DEF MaterialIsReplayable
\* What is remembered fits a step that adds nothing to it.
LEMMA WholeStays ==
  ASSUME RunnerInv, MemoryIsWhole, Next, missing' = {}, phase' # "raised",
         memory' \in {memory, durable}, durable' \in {durable, memory},
         durable'.reflections \subseteq memory'.reflections,
         \A k \in Cycle : Behind(k)' => Behind(k) /\ memory' = memory,
         \A cell \in Sealed' : cell \in Sealed \/ (cell[1] = cycle /\ cell[2] \in Unit)
  PROVE  MemoryIsWhole'
<1>1. /\ TypeOK /\ PassFits /\ [Next]_vars
      /\ memory'.episodes \subseteq memory.episodes /\ memory'.reflections \subseteq memory.reflections
  BY DEF RunnerInv, TypeOK, MemoryIsWhole
<1>2. \A u, k : <<k, u>> \in Sealed => <<k, u>> \in Sealed' /\ Episode(u, k)' = Episode(u, k)
  BY <1>1, EpisodesStay
<1>3. ASSUME NEW e \in memory'.episodes PROVE e.unit \in Unit /\ e = Episode(e.unit, e.cycle)'
  <2>1. e.unit \in Unit /\ e = Episode(e.unit, e.cycle) /\ <<e.cycle, e.unit>> \in Sealed
    BY <1>1 DEF MemoryIsWhole, EpisodesFit, TypeOK
  <2>2. PICK u, k : u = e.unit /\ k = e.cycle
    OBVIOUS
  <2>3. e = Episode(u, k)'
    BY <1>2, <2>1, <2>2
  <2> QED
    BY <2>1, <2>2, <2>3
<1>4. EpisodesFit(memory.episodes)'
  <2>1. \A e \in memory'.episodes : e.unit \in Unit /\ e = Episode(e.unit, e.cycle)'
    BY <1>3
  <2> QED
    BY <2>1 DEF EpisodesFit, Unit
<1>5. ReflectionsFit(memory.reflections)'
  BY <1>1 DEF MemoryIsWhole, ReflectionsFit
<1>6. ASSUME NEW u \in Unit, NEW k \in Cycle, Behind(k)'
      PROVE  /\ <<k, u>> \in Sealed' /\ Episode(u, k)' \in memory'.episodes
             /\ Reflects(k) => Reflection(u, k) \in memory'.reflections
  <2>1. /\ <<k, u>> \in Sealed /\ Episode(u, k) \in memory.episodes /\ memory' = memory
        /\ Reflects(k) => Reflection(u, k) \in memory.reflections
    BY <1>6 DEF MemoryIsWhole
  <2> QED
    BY <1>2, <2>1
<1>7. ASSUME NEW cell \in Sealed', NEW k \in Cycle, k < cell[1] PROVE <<k, cell[2]>> \in Sealed'
  <2>1. CASE cell \in Sealed
    BY <1>2, <1>7, <2>1 DEF MemoryIsWhole
  <2>2. CASE cell[1] = cycle /\ cell[2] \in Unit
    BY <1>2, <1>7, <2>2 DEF MemoryIsWhole, Behind
  <2> QED
    BY <2>1, <2>2
<1> QED
  BY <1>4, <1>5, <1>6, <1>7 DEF MemoryIsWhole

\* Remembering a cycle adds its episodes, and the reflections that are due.
LEMMA RememberingFits ==
  ASSUME RunnerInv, MemoryIsWhole, Remember
  PROVE  MemoryIsWhole'
<1>1. /\ TypeOK /\ PassFits /\ missing = {} /\ cycle \in Cycle /\ cycle \in Nat /\ Next
      /\ phase = "remember" /\ phase' = "done" /\ cycle' = cycle /\ missing' = {}
      /\ bundles' = bundles /\ durable' = durable /\ memory' = Remembered /\ Sealed' = Sealed
  BY DEF RunnerInv, MemoryIsWhole, Remember, stored, TypeOK, Cycle, Sealed, Next
<1>2. Executed = Unit /\ \A u \in Unit : <<cycle, u>> \in Sealed
  BY <1>1 DEF Executed, PassFits
<1>3. /\ memory'.episodes = memory.episodes \cup {Episode(u, cycle) : u \in Unit}
      /\ memory'.reflections = memory.reflections \cup UNION {Reflected(u, cycle) : u \in Unit}
  BY <1>1, <1>2 DEF Remembered, WithEpisodes, RunnerInv, StoresFit, IsStore
<1>4. \A u, k : Episode(u, k)' = Episode(u, k)
  BY <1>1 DEF Episode
<1>5. EpisodesFit(memory.episodes)'
  <2>1. ASSUME NEW e \in memory'.episodes PROVE e.unit \in Unit /\ e = Episode(e.unit, e.cycle)
    <3>1. CASE e \in memory.episodes
      BY <3>1 DEF MemoryIsWhole, EpisodesFit
    <3>2. CASE e \notin memory.episodes
      <4>1. PICK u \in Unit : e = Episode(u, cycle)
        BY <1>3, <3>2
      <4> QED
        BY <4>1, EpisodeTells
    <3> QED
      BY <3>1, <3>2
  <2> QED
    BY <1>4, <2>1 DEF EpisodesFit, Unit
<1>6. ASSUME NEW u \in Unit
      PROVE  /\ \A r \in Reflected(u, cycle) : Reflects(cycle) /\ r = Reflection(u, cycle)
             /\ Reflects(cycle) => Reflection(u, cycle) \in memory'.reflections
  <2>1. /\ Cardinality(Recall(u, cycle)) = Cardinality(Window(cycle))
        /\ {e.cycle : e \in Recall(u, cycle)} = Window(cycle)
    BY <1>1, RecallIsWindow, RecalledIs, Zenon
  <2>2. \A r \in Reflected(u, cycle) : Reflects(cycle) /\ r = Reflection(u, cycle)
    BY <2>1 DEF Reflected, Reflects, Reflection
  <2>3. CASE \E r \in memory.reflections : r.unit = u /\ r.cycle = cycle
    <3>1. PICK r \in memory.reflections : r.unit = u /\ r.cycle = cycle
      BY <2>3
    <3>2. r = Reflection(u, cycle)
      BY <3>1 DEF MemoryIsWhole, ReflectionsFit
    <3> QED
      BY <1>3, <2>2, <3>2
  <2>4. CASE ~\E r \in memory.reflections : r.unit = u /\ r.cycle = cycle
    <3>1. Reflects(cycle) => Reflection(u, cycle) \in Reflected(u, cycle)
      BY <2>1, <2>4 DEF Reflected, Reflects, Reflection
    <3>2. \A r \in Reflected(u, cycle) : r \in memory'.reflections
      BY <1>3
    <3> QED
      BY <2>2, <3>1, <3>2
  <2> QED
    BY <2>3, <2>4
<1>7. ReflectionsFit(memory.reflections)' /\ durable'.reflections \subseteq memory'.reflections
  <2>1. ASSUME NEW r \in memory'.reflections
        PROVE  r.unit \in Unit /\ r.cycle \in Nat /\ Reflects(r.cycle) /\ r = Reflection(r.unit, r.cycle)
    <3>1. CASE r \in memory.reflections
      BY <3>1 DEF MemoryIsWhole, ReflectionsFit
    <3>2. CASE r \notin memory.reflections
      <4>1. PICK u \in Unit : r \in Reflected(u, cycle)
        BY <1>3, <3>2
      <4>2. Reflects(cycle) /\ r = Reflection(u, cycle)
        BY <1>6, <4>1
      <4>3. r.unit = u /\ r.cycle = cycle
        BY <4>2 DEF Reflection
      <4> QED
        BY <1>1, <4>2, <4>3
    <3> QED
      BY <3>1, <3>2
  <2>2. ReflectionsFit(memory.reflections)'
    BY <2>1 DEF ReflectionsFit
  <2> QED
    BY <1>1, <1>3, <2>2 DEF MemoryIsWhole
<1>8. ASSUME NEW u \in Unit, NEW k \in Cycle, Behind(k)'
      PROVE  /\ <<k, u>> \in Sealed' /\ Episode(u, k)' \in memory'.episodes
             /\ Reflects(k) => Reflection(u, k) \in memory'.reflections
  <2>1. CASE k = cycle
    BY <1>1, <1>2, <1>3, <1>4, <1>6, <2>1
  <2>2. CASE k # cycle
    <3>1. Behind(k)
      BY <1>1, <1>8, <2>2 DEF Behind
    <3> QED
      BY <1>1, <1>3, <1>4, <3>1 DEF MemoryIsWhole
  <2> QED
    BY <2>1, <2>2
<1> QED
  BY <1>1, <1>5, <1>7, <1>8 DEF MemoryIsWhole
LEMMA WholeStep ==
  ASSUME MaterialInv, Next, outages' = 0
  PROVE  MemoryIsWhole'
<1> USE RunnerAssumption
<1>1. outages = 0 /\ ~RecordMissing /\ ~PanelOutage
  BY DEF Next, StartCycle, LoadSealed, stored, DecideAndSeal, RecordMissing,
     ObserveFailure, ObservedAll, ElicitPanel, PanelOutage, CompleteCycle, Remember, NextCycle,
     Finish, RunAgain, MaterialInv, RunnerInv, TypeOK
<1>2. MemoryIsWhole /\ RunnerInv /\ TypeOK /\ cycle \in Nat /\ missing = {}
  <2>1. MemoryIsWhole /\ RunnerInv /\ TypeOK
    BY <1>1 DEF MaterialInv, RunnerInv
  <2>2. cycle \in Cycle /\ missing = {}
    BY <2>1 DEF TypeOK, MemoryIsWhole
  <2> QED
    BY <2>1, <2>2 DEF Cycle
<1>3. CASE Remember
  BY <1>2, <1>3, RememberingFits
<1>4. CASE StartCycle \/ LoadSealed \/ ObserveFailure \/ ObservedAll \/ ElicitPanel \/ CompleteCycle
           \/ NextCycle \/ Finish
  <2>1. /\ memory' = memory /\ durable' \in {durable, memory} /\ Sealed' = Sealed
        /\ missing' = {}
    BY <1>2, <1>4, ChainGrows DEF Sealed, stored, StartCycle, LoadSealed, ObserveFailure, ObservedAll,
       ElicitPanel, CompleteCycle, NextCycle, Finish, RunnerInv
  <2>2. phase' # "raised"
    BY <1>2, <1>4 DEF StartCycle, LoadSealed, Asked, ObserveFailure, ObservedAll, ElicitPanel,
       CompleteCycle, NextCycle, Finish, MemoryIsWhole
  <2>3. \A k \in Cycle : Behind(k)' => Behind(k)
    <3>1. CASE NextCycle
      BY <1>2, <3>1 DEF NextCycle, Behind, Cycle
    <3>2. CASE ~NextCycle
      BY <1>2, <1>4, <3>2 DEF StartCycle, LoadSealed, Asked, ObserveFailure, ObservedAll, ElicitPanel,
         CompleteCycle, Finish, Behind
    <3> QED
      BY <3>1, <3>2
  <2>4. durable'.reflections \subseteq memory'.reflections
    BY <1>2, <2>1 DEF MemoryIsWhole
  <2> QED
    BY <1>2, <2>1, <2>2, <2>3, <2>4, WholeStays
<1>5. CASE DecideAndSeal
  <2>1. /\ memory' = memory /\ durable' \in {durable, memory} /\ missing' = {}
        /\ phase' = "failures" /\ cycle' = cycle /\ phase = "unit"
    BY <1>2, <1>5, ChainGrows DEF DecideAndSeal, Asked, RunnerInv
  <2>2. \A cell \in Sealed' : cell \in Sealed \/ (cell[1] = cycle /\ cell[2] \in Unit)
    <3>1. turn \in 1..Len(Units)
      BY <1>2, <1>5 DEF DecideAndSeal, Asked, TypeOK
    <3>2. Here[1] = cycle /\ Here[2] \in Unit
      BY <1>2, <3>1, HereIsACell DEF TypeOK, Here
    <3> QED
      BY <1>5, <3>2, SealingAdds DEF Sealed
  <2>3. \A k \in Cycle : Behind(k)' => Behind(k)
    BY <2>1 DEF Behind
  <2>4. durable'.reflections \subseteq memory'.reflections
    BY <1>2, <2>1 DEF MemoryIsWhole
  <2> QED
    BY <1>2, <2>1, <2>2, <2>3, <2>4, WholeStays
<1>6. CASE RunAgain
  <2>1. memory' = durable /\ durable' = durable /\ Sealed' = Sealed /\ missing' = {}
        /\ phase' = "start" /\ cycle' = 0
    BY <1>6 DEF RunAgain, stored, Sealed
  <2>2. \A k \in Cycle : ~Behind(k)'
    BY <2>1 DEF Behind, Cycle
  <2> QED
    BY <1>2, <2>1, <2>2, WholeStays
<1> QED
  BY <1>1, <1>3, <1>4, <1>5, <1>6 DEF Next

LEMMA MaterialInit == Init => MaterialInv
<1> SUFFICES ASSUME Init PROVE MaterialInv
  OBVIOUS
<1>1. RunnerInv
  BY RunnerInit
<1>2. Sealed = {} /\ memory.episodes = {} /\ memory.reflections = {} /\ durable.reflections = {}
  BY DEF Init, Sealed
<1>3. \A k \in Cycle : ~Behind(k)
  BY RunnerAssumption DEF Init, Behind, Cycle
<1>4. missing = {} /\ phase = "start"
  BY DEF Init
<1> QED
  BY <1>1, <1>2, <1>3, <1>4
  DEF MaterialInv, MemoryIsWhole, EpisodesFit, ReflectionsFit, MaterialIsReplayable

LEMMA MaterialStep == MaterialInv /\ [Next]_vars => MaterialInv'
<1> SUFFICES ASSUME MaterialInv, [Next]_vars PROVE MaterialInv'
  OBVIOUS
<1>1. RunnerInv'
  BY RunnerStep DEF MaterialInv
<1>2. CASE Next
  <2>1. outages' = 0 => MemoryIsWhole'
    BY <1>2, WholeStep
  <2>2. MaterialIsReplayable'
    <3>1. CASE outages' = 0
      BY <1>2, <3>1, SealedMaterial
    <3>2. CASE outages' # 0
      BY <3>2 DEF MaterialIsReplayable
    <3> QED
      BY <3>1, <3>2
  <2> QED
    BY <1>1, <2>1, <2>2 DEF MaterialInv
<1>3. CASE UNCHANGED vars
  <2>1. /\ bundles' = bundles /\ memory' = memory /\ durable' = durable /\ cycle' = cycle
        /\ phase' = phase /\ missing' = missing /\ outages' = outages /\ Sealed' = Sealed
    BY <1>3 DEF vars, Sealed
  <2>2. \A u, k : Episode(u, k)' = Episode(u, k)
    BY <2>1 DEF Episode
  <2>3. outages' = 0 => MemoryIsWhole'
    BY <2>1, <2>2 DEF MaterialInv, MemoryIsWhole, EpisodesFit, ReflectionsFit, Behind
  <2>4. MaterialIsReplayable'
    <3>1. ASSUME outages' = 0, NEW cell \in Sealed'
          PROVE  bundles'[cell].material = Uninterrupted(cell[2], cell[1])'
      <4>1. bundles[cell].material = Uninterrupted(cell[2], cell[1])
        BY <2>1, <3>1 DEF MaterialInv, MaterialIsReplayable
      <4>2. MemoryIsWhole /\ RunnerInv /\ cell \in Sealed
        BY <2>1, <3>1 DEF MaterialInv
      <4>3. Uninterrupted(cell[2], cell[1])' = Uninterrupted(cell[2], cell[1])
        BY <4>2, MaterialStays
      <4> QED
        BY <2>1, <4>1, <4>3
    <3> QED
      BY <3>1 DEF MaterialIsReplayable
  <2> QED
    BY <1>1, <2>3, <2>4 DEF MaterialInv
<1> QED
  BY <1>2, <1>3

\* experiments/materials.py with memory/store.py: as long as the provider answers,
\* a condition decides with the memory an uninterrupted run would have given it,
\* for every grant, cadence and recall limit, wherever the run was interrupted.
THEOREM MaterialAlwaysReplayable == Spec => []MaterialIsReplayable
<1>1. MaterialInv => MaterialIsReplayable
  BY DEF MaterialInv
<1> QED
  BY <1>1, MaterialInit, MaterialStep, PTL DEF Spec
=============================================================================
