--------------------------- MODULE Resolution_proofs ---------------------------
(***************************************************************************)
(* Whenever a verdict is written, it is the verdict of the complete        *)
(* record, for every world and any number of sessions, conditions and      *)
(* passes; and so arms never disagree about what happened.                 *)
(***************************************************************************)
EXTENDS Resolution, Order_proofs

Frozen(n) == [s \in 1..n |-> Snapshot(s)]

\* A verdict alone does not say where it was read from: the record of a pass is
\* a beginning of the snapshots, and they are those of the world.
ResolutionInv ==
  /\ \E n \in 0..LAST : snapshots = Frozen(n)
  /\ pass # Idle => pass.through \in 0..Len(snapshots)
  /\ VerdictIsFinal

-----------------------------------------------------------------------------
\* A record that goes on does not change what was collected from its beginning.
LEMMA CollectedEarly ==
  ASSUME NEW n \in 0..LAST, NEW s \in 1..n, NEW i
  PROVE  /\ Collected(Frozen(n), s, i) = Collected(Everything, s, i)
         /\ Closes(Frozen(n), s, i) = Closes(Everything, s, i)
         /\ Censored(Frozen(n), s, i) <=> Censored(Everything, s, i)
<1>1. Frozen(n)[s] = Everything[s]
  BY ResolutionAssumption DEF Frozen, Everything, Session
<1> QED
  BY <1>1 DEF Collected, Closes, Censored

\* A forecast whose target has been reached gets the verdict of the complete
\* record.
LEMMA VerdictEarly ==
  ASSUME NEW n \in 0..LAST, NEW f, f.anchor \in 1..n, Target(f) \in 1..n
  PROVE  Verdict(Frozen(n), f) = Verdict(Everything, f)
<1> DEFINE i == f.instrument
           early == EventsBetween(Frozen(n), i, f.anchor, Target(f))
           late == EventsBetween(Everything, i, f.anchor, Target(f))
<1>1. \A s \in (f.anchor + 1)..Target(f) : s \in 1..n
  BY ResolutionAssumption
<1>2. early = late
  <2>1. \A s \in (f.anchor + 1)..Target(f) : Collected(Frozen(n), s, i) = Collected(Everything, s, i)
    BY <1>1, CollectedEarly
  <2> QED
    BY <2>1 DEF EventsBetween
<1>3. /\ Closes(Frozen(n), f.anchor, i) = Closes(Everything, f.anchor, i)
      /\ Closes(Frozen(n), Target(f), i) = Closes(Everything, Target(f), i)
      /\ Censored(Frozen(n), Target(f), i) <=> Censored(Everything, Target(f), i)
  BY CollectedEarly
<1>4. StatusOf(Frozen(n), f, early) = StatusOf(Everything, f, late)
  BY <1>2, <1>3 DEF StatusOf
<1> QED
  BY <1>2, <1>3, <1>4 DEF Verdict

-----------------------------------------------------------------------------
LEMMA ResolutionInit == Init => ResolutionInv
<1> SUFFICES ASSUME Init PROVE ResolutionInv
  OBVIOUS
<1>1. snapshots = Frozen(0) /\ 0 \in 0..LAST
  BY ResolutionAssumption DEF Init, Frozen
<1> QED
  BY <1>1 DEF Init, ResolutionInv, VerdictIsFinal

\* Nothing but FinishResolve writes a verdict.
LEMMA StaysFinal ==
  ASSUME VerdictIsFinal, UNCHANGED <<world, verdicts>>
  PROVE  VerdictIsFinal'
<1>1. Everything' = Everything
  BY DEF Everything, Snapshot
<1>2. \A f : Verdict(Everything, f)' = Verdict(Everything, f)
  BY <1>1 DEF Verdict, StatusOf, Closes, Censored, EventsBetween, Collected
<1> QED
  BY <1>2 DEF VerdictIsFinal

LEMMA ResolutionStep == ResolutionInv /\ [Next]_vars => ResolutionInv'
<1> SUFFICES ASSUME ResolutionInv, [Next]_vars PROVE ResolutionInv'
  OBVIOUS
<1>1. PICK n \in 0..LAST : snapshots = Frozen(n)
  BY DEF ResolutionInv
<1>2. Len(snapshots) = n
  BY <1>1 DEF Frozen
<1>3. CASE Freeze
  <2>1. world' = world /\ n + 1 \in 0..LAST
    BY <1>2, <1>3, ResolutionAssumption DEF Freeze
  <2>2. snapshots' = Frozen(n + 1)
    BY <1>1, <1>2, <1>3, ResolutionAssumption DEF Freeze, Frozen
  <2>3. Frozen(n + 1)' = Frozen(n + 1)
    BY <2>1 DEF Frozen, Snapshot
  <2>4. Len(snapshots') = n + 1
    BY <2>2 DEF Frozen
  <2>5. VerdictIsFinal'
    BY <1>3, StaysFinal DEF Freeze, ResolutionInv
  <2>6. (pass # Idle => pass.through \in 0..Len(snapshots))'
    BY <1>2, <1>3, <2>1, <2>4 DEF Freeze, ResolutionInv, Idle
  <2>7. (\E m \in 0..LAST : snapshots = Frozen(m))'
    BY <2>1, <2>2, <2>3
  <2> QED
    BY <2>5, <2>6, <2>7 DEF ResolutionInv
<1>4. ASSUME UNCHANGED <<world, snapshots, verdicts>>,
             pass' \in {pass, Idle} \/ pass'.through \in 0..Len(snapshots)
      PROVE  ResolutionInv'
  <2>1. VerdictIsFinal'
    BY <1>4, StaysFinal DEF ResolutionInv
  <2>2. (\E m \in 0..LAST : snapshots = Frozen(m))'
    BY <1>1, <1>4 DEF Frozen, Snapshot
  <2>3. (pass # Idle => pass.through \in 0..Len(snapshots))'
    BY <1>4 DEF ResolutionInv, Idle
  <2> QED
    BY <2>1, <2>2, <2>3 DEF ResolutionInv
<1>5. CASE \E unit \in Unit : Seal(unit) \/ SealPanel(unit)
  BY <1>4, <1>5 DEF Seal, SealPanel
<1>6. CASE StartResolve
  BY <1>4, <1>6 DEF StartResolve, study
<1>7. CASE ResolveRaises \/ StopResolve
  BY <1>4, <1>7 DEF ResolveRaises, StopResolve, study
<1>8. CASE FinishResolve
  <2>1. UNCHANGED <<world, snapshots>> /\ pass' = Idle /\ pass # Idle
    BY <1>8 DEF FinishResolve, study
  <2>2. pass.through \in 0..LAST /\ Read = Frozen(pass.through)
    <3>1. pass.through \in 0..n
      BY <1>2, <2>1 DEF ResolutionInv
    <3> QED
      BY <1>1, <3>1, ResolutionAssumption DEF Read, Frozen
  <2>3. ASSUME NEW f \in New
        PROVE  Verdict(Read, f) = Verdict(Everything, f)
    <3>1. f \in pass.forecasts /\ ~Pending(Read, f) /\ ~Raises(Read, f)
      BY <1>8, <2>3 DEF New, Terminal, FinishResolve
    <3>2. DOMAIN Read = 1..pass.through
      BY <2>2 DEF Frozen
    <3>3. f.anchor \in 1..pass.through /\ Target(f) \in 1..pass.through
      BY <3>1, <3>2 DEF Pending, Raises
    <3> QED
      BY <2>2, <3>3, VerdictEarly
  <2>4. \A row \in verdicts' : row.verdict = Verdict(Everything, row.forecast)
    <3>1. verdicts' = verdicts \cup {Row(f) : f \in New}
      BY <1>8 DEF FinishResolve
    <3>2. \A f \in New : Row(f).verdict = Verdict(Everything, Row(f).forecast)
      BY <2>3 DEF Row
    <3> QED
      BY <3>1, <3>2 DEF ResolutionInv, VerdictIsFinal
  <2>5. \A f : Verdict(Everything, f)' = Verdict(Everything, f)
    BY <2>1 DEF Everything, Snapshot, Verdict, StatusOf, Closes, Censored, EventsBetween, Collected
  <2>6. VerdictIsFinal'
    BY <2>4, <2>5 DEF VerdictIsFinal
  <2>7. (\E m \in 0..LAST : snapshots = Frozen(m))'
    BY <1>1, <2>1 DEF Frozen, Snapshot
  <2> QED
    BY <2>1, <2>6, <2>7 DEF ResolutionInv
<1>9. CASE UNCHANGED vars
  BY <1>4, <1>9 DEF vars, study
<1> QED
  BY <1>3, <1>5, <1>6, <1>7, <1>8, <1>9 DEF Next

-----------------------------------------------------------------------------
\* evaluation/resolution.py: a verdict "can never change, and so may be written
\* down".  What any pass writes is what the complete record gives.
THEOREM VerdictsAreFinal == Spec => []VerdictIsFinal
<1>1. ResolutionInv => VerdictIsFinal
  BY DEF ResolutionInv
<1> QED
  BY ResolutionInit, ResolutionStep, <1>1, PTL DEF Spec

\* One outcome for one question: verdicts of different conditions, found in
\* different passes, are functions of the instrument, the anchor and the horizon.
LEMMA OneOutcome ==
  ASSUME VerdictIsFinal
  PROVE  ArmsAgree
<1> SUFFICES ASSUME NEW cell \in Candidates PROVE ~Disagreed(cell)
  BY DEF ArmsAgree
<1> DEFINE outcomes == {Rose(row.verdict) : row \in Scored(cell)}
<1>1. ASSUME NEW row \in Scored(cell), NEW other \in Scored(cell)
      PROVE  row.verdict = other.verdict
  <2>1. /\ row.verdict = Verdict(Everything, row.forecast)
        /\ other.verdict = Verdict(Everything, other.forecast)
    BY <1>1 DEF VerdictIsFinal, Scored, PanelRows
  <2>2. /\ row.forecast.anchor = other.forecast.anchor
        /\ row.forecast.instrument = other.forecast.instrument
        /\ row.forecast.horizon = other.forecast.horizon
    BY <1>1 DEF Scored, Cell
  <2> QED
    BY <2>1, <2>2 DEF Verdict, StatusOf, Target
<1>2. CASE Scored(cell) = {}
  <2>1. outcomes = {}
    BY <1>2
  <2> QED
    BY <2>1, FS_EmptySet DEF Disagreed
<1>3. CASE Scored(cell) # {}
  <2>1. PICK row : row \in Scored(cell)
    BY <1>3
  <2>2. outcomes = {Rose(row.verdict)}
    BY <1>1, <2>1
  <2>3. Cardinality({Rose(row.verdict)}) = 1
    BY FS_Singleton
  <2>4. Cardinality(outcomes) = 1
    BY <2>2, <2>3, Zenon
  <2> QED
    BY <2>4 DEF Disagreed
<1> QED
  BY <1>2, <1>3

\* analysis/pairing.py: "Arms disagree about what happened" is never raised over
\* what the passes of a study recorded.
THEOREM ArmsAlwaysAgree == Spec => []ArmsAgree
<1>1. ResolutionInv => ArmsAgree
  BY OneOutcome DEF ResolutionInv
<1> QED
  BY ResolutionInit, ResolutionStep, <1>1, PTL DEF Spec
-----------------------------------------------------------------------------
(* What a pass collects, and what it leaves. *)

OfPanel(panel) ==
  {Forecast("PANEL", panel, <<answer.instrument, answer.horizon>>, answer)
     : answer \in panel.answers}
OfDecision(bundle) ==
  {Forecast("DECISION", bundle, <<ordinal>>, bundle.forecasts[ordinal])
     : ordinal \in DOMAIN bundle.forecasts}

\* A pass collects each sealed bundle in full, or came before it was sealed.
IsCollection(forecasts) ==
  \E P \in SUBSET panels, B \in SUBSET decisions :
    /\ \A panel \in P : OfPanel(panel) \subseteq forecasts
    /\ \A bundle \in B : OfDecision(bundle) \subseteq forecasts
    /\ \A f \in forecasts : \/ \E panel \in P : f \in OfPanel(panel)
                            \/ \E bundle \in B : f \in OfDecision(bundle)

Covers(forecasts) == \A row \in verdicts : row.forecast \in forecasts

\* Each condition is sealed once, after the snapshot of its cycle, and its panel after it.
SealedFit ==
  /\ \A b \in decisions : /\ b.unit \in Unit /\ b.unit.cycle \in DOMAIN snapshots
                           /\ b.forecasts \in Opinions
  /\ \A b, c \in decisions : b.unit = c.unit => b = c
  /\ IsFiniteSet(panels)
  /\ \A p \in panels : Sealed(p.unit) /\ p.answers \in Answers
  /\ \A p, q \in panels : p.unit = q.unit => p = q

VerdictsFit ==
  \A row \in verdicts : /\ row = [forecast |-> row.forecast, verdict |-> row.verdict]
                        /\ \/ \E panel \in panels : row.forecast \in OfPanel(panel)
                           \/ \E bundle \in decisions : row.forecast \in OfDecision(bundle)
                        /\ Target(row.forecast) \in DOMAIN snapshots
                        /\ row.verdict.status # "PENDING"

\* What a pass that reads through n leaves: all that is due by then has a verdict.
ReportFits ==
  report # None =>
    /\ IsCollection(report.resolved \cup report.pending)
    /\ Covers(report.resolved \cup report.pending)
    /\ \E n \in 0..LAST : report.resolved =
         {f \in report.resolved \cup report.pending : Target(f) \in 1..n}
    /\ \A f \in report.resolved : \E row \in verdicts : row.forecast = f

RecordInv ==
  /\ ResolutionInv /\ SealedFit /\ VerdictsFit /\ ReportFits
  /\ world \in Worlds
  /\ pass # Idle => IsCollection(pass.forecasts) /\ Covers(pass.forecasts)

\* What the forecast of an answer, and of an opinion, says of where it comes from.
LEMMA FromAnswer ==
  ASSUME NEW panel, NEW f \in OfPanel(panel)
  PROVE  /\ f.source = "PANEL" /\ f.unit = panel.unit
         /\ \E answer \in panel.answers :
              /\ f = Forecast("PANEL", panel, <<answer.instrument, answer.horizon>>, answer)
              /\ f.key = <<answer.instrument, answer.horizon>>
BY DEF OfPanel, Forecast

LEMMA FromOpinion ==
  ASSUME NEW bundle, NEW f \in OfDecision(bundle)
  PROVE  /\ f.source = "DECISION" /\ f.unit = bundle.unit
         /\ \E ordinal \in DOMAIN bundle.forecasts :
              /\ f = Forecast("DECISION", bundle, <<ordinal>>, bundle.forecasts[ordinal])
              /\ f.key = <<ordinal>>
BY DEF OfDecision, Forecast

LEMMA CollectedFrom ==
  ASSUME NEW F, IsCollection(F), NEW f \in F
  PROVE  \/ \E panel \in panels : f \in OfPanel(panel)
         \/ \E bundle \in decisions : f \in OfDecision(bundle)
BY DEF IsCollection

LEMMA CollectionStays ==
  ASSUME NEW F, IsCollection(F), panels \subseteq panels', decisions \subseteq decisions'
  PROVE  IsCollection(F)'
<1>1. PICK P \in SUBSET panels, B \in SUBSET decisions :
        /\ \A panel \in P : OfPanel(panel) \subseteq F
        /\ \A bundle \in B : OfDecision(bundle) \subseteq F
        /\ \A f \in F : \/ \E panel \in P : f \in OfPanel(panel)
                        \/ \E bundle \in B : f \in OfDecision(bundle)
  BY DEF IsCollection
<1>2. P \in SUBSET panels' /\ B \in SUBSET decisions'
  OBVIOUS
<1>3. /\ \A panel \in P : OfPanel(panel)' = OfPanel(panel)
      /\ \A bundle \in B : OfDecision(bundle)' = OfDecision(bundle)
  BY DEF OfPanel, OfDecision, Forecast
<1> QED
  BY <1>1, <1>2, <1>3 DEF IsCollection

\* The id of a forecast tells it from every other that was sealed.
LEMMA IdTells ==
  ASSUME SealedFit, NEW F, IsCollection(F), NEW f \in F, NEW g \in F, Id(f) = Id(g)
  PROVE  f = g
<1>1. f.source = g.source /\ f.unit = g.unit /\ f.key = g.key
  BY DEF Id
<1>2. CASE f.source = "PANEL"
  <2>0. \A bundle \in decisions : f \notin OfDecision(bundle) /\ g \notin OfDecision(bundle)
    <3> SUFFICES ASSUME NEW bundle \in decisions, NEW h \in {f, g}, h \in OfDecision(bundle)
                 PROVE  FALSE
      OBVIOUS
    <3>1. h.source = "DECISION"
      BY FromOpinion
    <3> QED
      BY <1>1, <1>2, <3>1
  <2>1. PICK p \in panels : f \in OfPanel(p)
    BY <2>0, CollectedFrom
  <2>2. PICK q \in panels : g \in OfPanel(q)
    BY <2>0, CollectedFrom
  <2>3. p = q
    BY <1>1, <2>1, <2>2, FromAnswer DEF SealedFit
  <2>4. PICK x \in p.answers : /\ f = Forecast("PANEL", p, <<x.instrument, x.horizon>>, x)
                               /\ f.key = <<x.instrument, x.horizon>>
    BY <2>1, FromAnswer
  <2>5. PICK y \in p.answers : /\ g = Forecast("PANEL", p, <<y.instrument, y.horizon>>, y)
                               /\ g.key = <<y.instrument, y.horizon>>
    BY <2>2, <2>3, FromAnswer
  <2>6. x.instrument = y.instrument /\ x.horizon = y.horizon
    BY <1>1, <2>4, <2>5
  <2>7. x = y
    BY <2>6, ResolutionAssumption DEF SealedFit
  <2> QED
    BY <2>4, <2>5, <2>7
<1>3. CASE f.source # "PANEL"
  <2>1. PICK b \in decisions : f \in OfDecision(b)
    BY <1>3, CollectedFrom, FromAnswer
  <2>2. PICK c \in decisions : g \in OfDecision(c)
    BY <1>1, <1>3, CollectedFrom, FromAnswer
  <2>3. b = c
    BY <1>1, <2>1, <2>2, FromOpinion DEF SealedFit
  <2>4. PICK j \in DOMAIN b.forecasts :
          /\ f = Forecast("DECISION", b, <<j>>, b.forecasts[j]) /\ f.key = <<j>>
    BY <2>1, FromOpinion
  <2>5. PICK k \in DOMAIN b.forecasts :
          /\ g = Forecast("DECISION", b, <<k>>, b.forecasts[k]) /\ g.key = <<k>>
    BY <2>2, <2>3, FromOpinion
  <2>6. j = k
    BY <1>1, <2>4, <2>5
  <2> QED
    BY <2>4, <2>5, <2>6
<1> QED
  BY <1>2, <1>3

\* Of a sealed decision there is all in a collection, or nothing.
LEMMA AllOrNothing ==
  ASSUME SealedFit, NEW F, IsCollection(F), NEW bundle \in decisions
  PROVE  Cardinality({f \in F : f.source = "DECISION" /\ f.unit = bundle.unit})
           \in {0, Len(bundle.forecasts)}
<1> DEFINE of == {f \in F : f.source = "DECISION" /\ f.unit = bundle.unit}
<1>1. PICK P \in SUBSET panels, B \in SUBSET decisions :
        /\ \A b \in B : OfDecision(b) \subseteq F
        /\ \A f \in F : \/ \E panel \in P : f \in OfPanel(panel)
                        \/ \E b \in B : f \in OfDecision(b)
  BY DEF IsCollection
<1>2. ASSUME NEW f \in of PROVE bundle \in B /\ f \in OfDecision(bundle)
  <2>1. PICK b \in B : f \in OfDecision(b)
    BY <1>1, FromAnswer
  <2>2. b = bundle
    BY <2>1, FromOpinion DEF SealedFit
  <2> QED
    BY <2>1, <2>2
<1>3. of = {} \/ of = OfDecision(bundle)
  <2>1. ASSUME bundle \in B, NEW f \in OfDecision(bundle) PROVE f \in of
    BY <1>1, <2>1, FromOpinion
  <2> QED
    BY <1>2, <2>1
<1>4. Cardinality(OfDecision(bundle)) = Len(bundle.forecasts)
  <2> DEFINE n == Len(bundle.forecasts)
             h == [k \in 1..n |-> Forecast("DECISION", bundle, <<k>>, bundle.forecasts[k])]
  <2>1. n \in Nat /\ DOMAIN bundle.forecasts = 1..n
    BY ResolutionAssumption DEF SealedFit
  <2>2. \A k \in 1..n : h[k].key = <<k>>
    BY DEF Forecast
  <2>3. ASSUME NEW j \in 1..n, NEW k \in 1..n, h[j] = h[k] PROVE j = k
    <3>1. <<j>> = <<k>>
      BY <2>2, <2>3, Zenon
    <3> QED
      BY <3>1
  <2>4. OfDecision(bundle) = {h[k] : k \in 1..n}
    BY <2>1 DEF OfDecision
  <2> HIDE DEF h
  <2>5. h \in Bijection(1..n, OfDecision(bundle))
    <3>1. h \in [1..n -> OfDecision(bundle)]
      BY <2>4 DEF h, OfDecision
    <3> QED
      BY <2>3, <2>4, <3>1 DEF Bijection, Injection, Surjection, IsInjective
  <2>6. ExistsBijection(1..n, OfDecision(bundle))
    BY <2>5 DEF ExistsBijection
  <2> QED
    BY <2>1, <2>6, FS_CountingElements
<1> HIDE DEF of
<1>5. Cardinality(of) \in {0, Len(bundle.forecasts)}
  BY <1>3, <1>4, FS_EmptySet
<1> QED
  BY <1>5 DEF of

LEMMA RecordInit == Init => RecordInv
<1> SUFFICES ASSUME Init PROVE RecordInv
  OBVIOUS
<1>1. SealedFit
  BY FS_EmptySet DEF Init, SealedFit
<1>2. VerdictsFit /\ ReportFits
  BY DEF Init, VerdictsFit, ReportFits
<1> QED
  BY <1>1, <1>2, ResolutionInit DEF Init, RecordInv

\* All that is sealed is a collection.
LEMMA AllIsCollection ==
  /\ IsCollection(FromPanels \cup FromDecisions)
  /\ \A panel \in panels : OfPanel(panel) \subseteq FromPanels \cup FromDecisions
  /\ \A bundle \in decisions : OfDecision(bundle) \subseteq FromPanels \cup FromDecisions
<1> DEFINE F == FromPanels \cup FromDecisions
<1>1. ASSUME NEW panel \in panels PROVE OfPanel(panel) \subseteq F
  BY DEF FromPanels, OfPanel
<1>2. ASSUME NEW bundle \in decisions PROVE OfDecision(bundle) \subseteq F
  BY DEF FromDecisions, OfDecision
<1>3. ASSUME NEW f \in F
      PROVE  \/ \E panel \in panels : f \in OfPanel(panel)
             \/ \E bundle \in decisions : f \in OfDecision(bundle)
  BY DEF FromPanels, FromDecisions, OfPanel, OfDecision
<1> HIDE DEF F
<1>4. IsCollection(F)
  BY <1>1, <1>2, <1>3 DEF IsCollection
<1> QED
  BY <1>1, <1>2, <1>4 DEF F

\* The study goes on: nothing that was sealed or read is affected.
LEMMA StudyGoesOn ==
  ASSUME RecordInv, panels \subseteq panels', decisions \subseteq decisions',
         DOMAIN snapshots \subseteq DOMAIN snapshots', UNCHANGED <<verdicts, report>>
  PROVE  /\ VerdictsFit' /\ ReportFits'
         /\ pass' = pass => (pass # Idle => IsCollection(pass.forecasts) /\ Covers(pass.forecasts))'
<1>1. VerdictsFit'
  BY DEF RecordInv, VerdictsFit
<1>2. ASSUME NEW F, IsCollection(F), Covers(F) PROVE IsCollection(F)' /\ Covers(F)'
  BY <1>2, CollectionStays DEF Covers
<1>3. ReportFits'
  <2>1. PICK r : r = report
    OBVIOUS
  <2>2. r # None => (IsCollection(r.resolved \cup r.pending) /\ Covers(r.resolved \cup r.pending))'
    BY <1>2, <2>1 DEF RecordInv, ReportFits
  <2>3. report' = r /\ verdicts' = verdicts
    BY <2>1
  <2>4. r # None => /\ \E n \in 0..LAST : r.resolved = {f \in r.resolved \cup r.pending : Target(f) \in 1..n}
                    /\ \A f \in r.resolved : \E row \in verdicts : row.forecast = f
    BY <2>1 DEF RecordInv, ReportFits
  <2> QED
    BY <2>2, <2>3, <2>4 DEF ReportFits, None
<1>4. ASSUME pass' = pass
      PROVE  (pass # Idle => IsCollection(pass.forecasts) /\ Covers(pass.forecasts))'
  <2>1. PICK p : p = pass
    OBVIOUS
  <2>2. p # Idle => (IsCollection(p.forecasts) /\ Covers(p.forecasts))'
    BY <1>2, <2>1 DEF RecordInv
  <2> QED
    BY <1>4, <2>1, <2>2 DEF Idle
<1> QED
  BY <1>1, <1>3, <1>4

LEMMA SealedStep ==
  ASSUME RecordInv, [Next]_vars
  PROVE  /\ SealedFit' /\ world' = world
         /\ panels \subseteq panels' /\ decisions \subseteq decisions'
         /\ DOMAIN snapshots \subseteq DOMAIN snapshots'
<1> USE DEF RecordInv
<1>1. CASE Freeze
  <2>1. PICK n \in 0..LAST : snapshots = Frozen(n)
    BY DEF ResolutionInv
  <2>2. DOMAIN snapshots = 1..n /\ DOMAIN snapshots' = 1..(n + 1)
    BY <1>1, <2>1 DEF Freeze, Frozen
  <2>3. DOMAIN snapshots \subseteq DOMAIN snapshots'
    BY <2>2
  <2> QED
    BY <1>1, <2>3 DEF Freeze, SealedFit, Sealed
<1>2. ASSUME NEW unit \in Unit, Seal(unit)
      PROVE  SealedFit' /\ decisions \subseteq decisions'
  <2>1. PICK opinion \in Opinions : decisions' = decisions \cup {[unit |-> unit, forecasts |-> opinion]}
    BY <1>2 DEF Seal
  <2>2. /\ UNCHANGED <<snapshots, panels>> /\ unit.cycle \in DOMAIN snapshots
        /\ \A b \in decisions : b.unit # unit
    BY <1>2 DEF Seal, Sealed
  <2>3. \A b \in decisions' : b \in decisions \/ b = [unit |-> unit, forecasts |-> opinion]
    BY <2>1
  <2>4. \A p : Sealed(p) => Sealed(p)'
    BY <2>1 DEF Sealed
  <2>5. \A b, c \in decisions' : b.unit = c.unit => b = c
    BY <2>2, <2>3 DEF SealedFit
  <2>6. \A b \in decisions' : /\ b.unit \in Unit /\ b.unit.cycle \in DOMAIN snapshots'
                             /\ b.forecasts \in Opinions
    BY <2>2, <2>3 DEF SealedFit
  <2>7. \A p \in panels' : Sealed(p.unit)' /\ p.answers \in Answers
    BY <2>2, <2>4 DEF SealedFit
  <2> QED
    BY <2>1, <2>2, <2>5, <2>6, <2>7 DEF SealedFit
<1>3. ASSUME NEW unit \in Unit, SealPanel(unit)
      PROVE  SealedFit' /\ panels \subseteq panels'
  <2>1. PICK answers \in Answers : panels' = panels \cup {[unit |-> unit, answers |-> answers]}
    BY <1>3 DEF SealPanel
  <2>2. /\ UNCHANGED <<snapshots, decisions>> /\ Sealed(unit) /\ \A p \in panels : p.unit # unit
    BY <1>3 DEF SealPanel
  <2>3. \A p \in panels' : p \in panels \/ p = [unit |-> unit, answers |-> answers]
    BY <2>1
  <2>4. IsFiniteSet(panels')
    BY <2>1, FS_AddElement DEF SealedFit
  <2>5. \A p, q \in panels' : p.unit = q.unit => p = q
    BY <2>2, <2>3 DEF SealedFit
  <2>6. \A p \in panels' : Sealed(p.unit)' /\ p.answers \in Answers
    BY <2>2, <2>3 DEF SealedFit, Sealed
  <2> QED
    BY <2>1, <2>2, <2>4, <2>5, <2>6 DEF SealedFit
<1>4. CASE UNCHANGED study
  BY <1>4 DEF study, SealedFit, Sealed
<1>5. CASE StartResolve \/ ResolveRaises \/ FinishResolve \/ StopResolve \/ UNCHANGED vars
  BY <1>4, <1>5 DEF StartResolve, ResolveRaises, FinishResolve, StopResolve, vars
<1> QED
  BY <1>1, <1>2, <1>3, <1>5 DEF Next, Seal, SealPanel

\* What a pass that finishes leaves.
LEMMA FinishStep ==
  ASSUME RecordInv, FinishResolve
  PROVE  VerdictsFit' /\ ReportFits'
<1> USE DEF RecordInv
<1>1. PICK F : F = pass.forecasts
  OBVIOUS
<1>2. PICK n : n = pass.through
  OBVIOUS
<1>3. /\ IsCollection(F) /\ Covers(F) /\ n \in 0..Len(snapshots) /\ UNCHANGED <<panels, decisions, snapshots>>
  BY <1>1, <1>2 DEF FinishResolve, ResolutionInv, study
<1>4. DOMAIN Read = 1..n /\ 1..n \subseteq DOMAIN snapshots /\ n \in 0..LAST
  <2>1. PICK m \in 0..LAST : snapshots = Frozen(m)
    BY DEF ResolutionInv
  <2>2. Len(snapshots) = m /\ DOMAIN snapshots = 1..m
    BY <2>1 DEF Frozen
  <2>3. Read = [s \in 1..n |-> snapshots[s]]
    BY <1>2, <1>3, <2>1, <2>2, ResolutionAssumption DEF Read, Frozen
  <2> QED
    BY <1>3, <2>2, <2>3, ResolutionAssumption
<1>5. Terminal = {f \in F : Target(f) \in 1..n}
  BY <1>1, <1>4 DEF Terminal, Pending
<1> PICK T : T = Terminal
  OBVIOUS
<1>6. /\ T \subseteq F /\ T = {f \in F : Target(f) \in 1..n}
      /\ report' = [resolved |-> T, pending |-> F \ T]
      /\ verdicts' = verdicts \cup {Row(f) : f \in New}
  BY <1>1, <1>5 DEF FinishResolve
<1>7. \A f, g \in T : Id(f) = Id(g) => f = g
  BY <1>3, <1>6, IdTells
<1>8. New \subseteq T
  BY DEF New
<1>9. ASSUME NEW f \in T PROVE \E row \in verdicts' : row.forecast = f
  <2>1. CASE \E row \in verdicts : Id(row.forecast) = Id(f)
    <3>1. PICK row \in verdicts : Id(row.forecast) = Id(f)
      BY <2>1
    <3>2. row.forecast \in F /\ f \in F
      BY <1>3, <1>6 DEF Covers
    <3>3. row.forecast = f
      BY <1>3, <3>1, <3>2, IdTells
    <3> QED
      BY <1>6, <3>3
  <2>2. CASE ~\E row \in verdicts : Id(row.forecast) = Id(f)
    <3>1. \A g \in T : Id(g) = Id(f) <=> g = f
      BY <1>7
    <3>2. f = CHOOSE g \in T : Id(g) = Id(f)
      BY <3>1
    <3>3. f \in New
      BY <2>2, <3>2 DEF New
    <3>4. Row(f) \in verdicts' /\ Row(f).forecast = f
      BY <1>6, <3>3 DEF Row
    <3> QED
      BY <3>4
  <2> QED
    BY <2>1, <2>2
<1>10. ASSUME NEW row \in verdicts'
       PROVE  /\ row = [forecast |-> row.forecast, verdict |-> row.verdict]
              /\ row.forecast \in F
              /\ row \in verdicts \/ (Target(row.forecast) \in 1..n /\ row.verdict.status # "PENDING")
  <2>1. CASE row \in verdicts
    BY <1>3, <2>1 DEF VerdictsFit, Covers
  <2>2. CASE row \notin verdicts
    <3>1. PICK f \in New : row = Row(f)
      BY <1>6, <2>2
    <3>2. f \in T /\ row = [forecast |-> f, verdict |-> Verdict(Read, f)]
      BY <1>8, <3>1 DEF Row
    <3>3. row.forecast = f /\ row.verdict = Verdict(Read, f)
      BY <3>2
    <3>4. row.verdict.status # "PENDING"
      <4> DEFINE events == EventsBetween(Read, f.instrument, f.anchor, Target(f))
      <4>1. StatusOf(Read, f, events) # "PENDING"
        BY DEF StatusOf
      <4>2. Verdict(Read, f).status = StatusOf(Read, f, events)
        BY DEF Verdict
      <4> QED
        BY <3>3, <4>1, <4>2
    <3> QED
      BY <1>6, <3>2, <3>3, <3>4
  <2> QED
    BY <2>1, <2>2
<1>11. VerdictsFit'
  <2>1. \A f \in F : \/ \E panel \in panels' : f \in OfPanel(panel)
                    \/ \E bundle \in decisions' : f \in OfDecision(bundle)
    BY <1>3, CollectedFrom
  <2>2. ASSUME NEW row \in verdicts'
        PROVE  Target(row.forecast) \in DOMAIN snapshots' /\ row.verdict.status # "PENDING"
    <3>1. CASE row \in verdicts
      BY <1>3, <3>1 DEF VerdictsFit
    <3>2. CASE row \notin verdicts
      BY <1>3, <1>4, <1>10, <3>2
    <3> QED
      BY <3>1, <3>2
  <2> QED
    BY <1>10, <2>1, <2>2 DEF VerdictsFit
<1>12. ReportFits'
  <2>1. report'.resolved = T /\ report'.resolved \cup report'.pending = F
    BY <1>6
  <2>4. (IsCollection(report.resolved \cup report.pending))'
    <3>1. IsCollection(F)'
      BY <1>3, CollectionStays
    <3>2. PICK P \in SUBSET panels', B \in SUBSET decisions' :
            /\ \A panel \in P : OfPanel(panel)' \subseteq F
            /\ \A bundle \in B : OfDecision(bundle)' \subseteq F
            /\ \A f \in F : \/ \E panel \in P : f \in OfPanel(panel)'
                            \/ \E bundle \in B : f \in OfDecision(bundle)'
      BY <3>1 DEF IsCollection
    <3> DEFINE all == report'.resolved \cup report'.pending
    <3>3. /\ \A panel \in P : OfPanel(panel)' \subseteq all
          /\ \A bundle \in B : OfDecision(bundle)' \subseteq all
          /\ \A f \in all : \/ \E panel \in P : f \in OfPanel(panel)'
                            \/ \E bundle \in B : f \in OfDecision(bundle)'
      BY <2>1, <3>2
    <3> QED
      BY <3>3 DEF IsCollection
  <2>5. (Covers(report.resolved \cup report.pending))'
    <3>1. \A row \in verdicts' : row.forecast \in report'.resolved \cup report'.pending
      BY <1>10, <2>1
    <3> QED
      BY <3>1 DEF Covers
  <2>6. n \in 0..LAST /\ report'.resolved = {f \in report'.resolved \cup report'.pending : Target(f) \in 1..n}
    BY <1>4, <1>6, <2>1
  <2>7. \A f \in report'.resolved : \E row \in verdicts' : row.forecast = f
    BY <1>9, <2>1
  <2> QED
    BY <2>4, <2>5, <2>6, <2>7 DEF ReportFits
<1> QED
  BY <1>11, <1>12

LEMMA RecordStep == RecordInv /\ [Next]_vars => RecordInv'
<1> SUFFICES ASSUME RecordInv, [Next]_vars PROVE RecordInv'
  OBVIOUS
<1>1. ResolutionInv' /\ SealedFit' /\ world' \in Worlds
  BY ResolutionStep, SealedStep DEF RecordInv
<1>2. CASE FinishResolve
  BY <1>1, <1>2, FinishStep DEF RecordInv, FinishResolve, Idle
<1>3. ASSUME UNCHANGED <<verdicts, report>> PROVE VerdictsFit' /\ ReportFits'
  BY <1>3, SealedStep, StudyGoesOn
<1>4. CASE StartResolve
  <2>1. PICK F : F = FromPanels \cup FromDecisions
    OBVIOUS
  <2>2. IsCollection(F)
    BY <2>1, AllIsCollection
  <2>3. Covers(F)
    BY <2>1, AllIsCollection DEF Covers, RecordInv, VerdictsFit
  <2>4. UNCHANGED <<panels, decisions, verdicts, report>> /\ pass'.forecasts = F
    BY <1>4, <2>1 DEF StartResolve, study
  <2>5. IsCollection(F)' /\ Covers(F)'
    BY <2>2, <2>3, <2>4, CollectionStays DEF Covers
  <2> QED
    BY <1>1, <1>3, <2>4, <2>5 DEF RecordInv
<1>5. CASE ResolveRaises \/ StopResolve
  BY <1>1, <1>3, <1>5 DEF ResolveRaises, StopResolve, RecordInv, Idle
<1>6. CASE Freeze \/ (\E unit \in Unit : Seal(unit) \/ SealPanel(unit)) \/ UNCHANGED vars
  <2>1. UNCHANGED <<verdicts, report, pass>>
    BY <1>6 DEF Freeze, Seal, SealPanel, vars
  <2> QED
    BY <1>1, <2>1, SealedStep, StudyGoesOn DEF RecordInv
<1> QED
  BY <1>2, <1>4, <1>5, <1>6 DEF Next

LEMMA Recorded == Spec => []RecordInv
BY RecordInit, RecordStep, PTL DEF Spec

\* A condition is sealed once, after the snapshot of its cycle and before its panel, and
\* a verdict is only written when the session it was about has been frozen.
THEOREM ShapesHold == Spec => []TypeOK
<1>1. RecordInv => TypeOK
  <2> SUFFICES ASSUME RecordInv PROVE TypeOK
    OBVIOUS
  <2>1. PICK n \in 0..LAST : snapshots = Frozen(n)
    BY DEF RecordInv, ResolutionInv
  <2>2. Len(snapshots) <= LAST
    BY <2>1, ResolutionAssumption DEF Frozen
  <2>3. \A row \in verdicts : /\ row.forecast.source \in {"PANEL", "DECISION"}
                             /\ Target(row.forecast) \in DOMAIN snapshots
                             /\ row.verdict.status # "PENDING"
    BY FromAnswer, FromOpinion DEF RecordInv, VerdictsFit
  <2> QED
    BY <2>2, <2>3 DEF RecordInv, ResolutionInv, SealedFit, TypeOK
<1> QED
  BY <1>1, Recorded, PTL

\* evaluation/collection.py: whenever a pass reads and whatever is sealed while it runs, it
\* has all of a decision or nothing, and what it resolves has a verdict of its own.
THEOREM NothingIsEverLost == Spec => []NothingIsLost
<1>1. RecordInv => NothingIsLost
  <2> SUFFICES ASSUME RecordInv, report # None,
                      NEW F, F = report.resolved \cup report.pending
               PROVE  /\ \A bundle \in decisions :
                           Cardinality({f \in F : f.source = "DECISION" /\ f.unit = bundle.unit})
                             \in {0, Len(bundle.forecasts)}
                      /\ \A f \in report.resolved : \E row \in verdicts : row.forecast = f
    BY DEF NothingIsLost
  <2>1. SealedFit /\ IsCollection(F)
    BY DEF RecordInv, ReportFits
  <2> QED
    BY <2>1, AllOrNothing DEF RecordInv, ReportFits
<1> QED
  BY <1>1, Recorded, PTL

\* The answers of all panels are finitely many.
LEMMA PanelsAreFinite ==
  ASSUME SealedFit, NEW S, \A f \in S : \E panel \in panels : f \in OfPanel(panel)
  PROVE  IsFiniteSet(S)
<1>1. ASSUME NEW panel \in panels PROVE IsFiniteSet(OfPanel(panel))
  <2> DEFINE h == [answer \in panel.answers |->
                     Forecast("PANEL", panel, <<answer.instrument, answer.horizon>>, answer)]
  <2>1. h \in Surjection(panel.answers, OfPanel(panel))
    BY DEF OfPanel, Surjection
  <2>2. IsFiniteSet(panel.answers)
    BY ResolutionAssumption DEF SealedFit
  <2> HIDE DEF h
  <2> QED
    BY <2>1, <2>2, FS_Surjection
<1> DEFINE g == [panel \in panels |-> OfPanel(panel)]
           all == {g[panel] : panel \in panels}
<1>2. g \in Surjection(panels, all)
  BY DEF Surjection
<1>3. \A T \in all : IsFiniteSet(T)
  BY <1>1
<1>4. \A f \in S : \E T \in all : f \in T
  OBVIOUS
<1> HIDE DEF g, all
<1>5. IsFiniteSet(all)
  BY <1>2, FS_Surjection DEF SealedFit
<1>6. IsFiniteSet(UNION all) /\ S \in SUBSET UNION all
  BY <1>3, <1>4, <1>5, FS_UNION
<1> QED
  BY <1>6, FS_Subset

\* analysis/pairing.py: a question that all arms answered equally often, and that was
\* resolved, is compared with all of its answers, whichever passes found the verdicts.
THEOREM ComparisonsAreSound == Spec => []ComparisonIsSound
<1>1. ASSUME RecordInv, report # None, NEW cell \in Candidates,
             NEW answers, answers = {f \in report.resolved : f.source = "PANEL" /\ Cell(f) = cell},
             answers # {},
             Cardinality({Cardinality({f \in answers : f.unit.arm = arm}) : arm \in Arm}) = 1,
             \A f \in answers : Verdict(Everything, f).status = "RESOLVED"
      PROVE  cell \in Paired /\ {row.forecast : row \in Scored(cell)} = answers
  <2> DEFINE of(arm) == {f \in answers : f.unit.arm = arm}
             sizes == {Cardinality(of(arm)) : arm \in Arm}
  <2>1. PICK F : /\ F = report.resolved \cup report.pending /\ IsCollection(F) /\ Covers(F)
                 /\ \E n \in 0..LAST : report.resolved = {f \in F : Target(f) \in 1..n}
                 /\ \A f \in report.resolved : \E row \in verdicts : row.forecast = f
    BY <1>1 DEF RecordInv, ReportFits
  <2>2. PICK n \in 0..LAST : report.resolved = {f \in F : Target(f) \in 1..n}
    BY <2>1
  <2>3. PICK a \in answers : a \in report.resolved /\ Cell(a) = cell
    BY <1>1
  <2>4. \A f, g : Cell(f) = Cell(g) => Target(f) = Target(g)
    BY DEF Cell, Target
  <2>5. ASSUME NEW row \in Scored(cell) PROVE row.forecast \in answers
    <3>1. row.forecast \in F /\ row.forecast.source = "PANEL" /\ Cell(row.forecast) = cell
      BY <2>1 DEF Covers, Scored, PanelRows
    <3>2. Target(row.forecast) \in 1..n
      BY <2>2, <2>3, <2>4, <3>1
    <3> QED
      BY <1>1, <2>2, <3>1, <3>2
  <2>6. ASSUME NEW f \in answers PROVE \E row \in Scored(cell) : row.forecast = f
    <3>1. PICK row \in verdicts : row.forecast = f
      BY <1>1, <2>1
    <3>2. row.verdict = Verdict(Everything, f)
      BY <1>1, <3>1 DEF RecordInv, ResolutionInv, VerdictIsFinal
    <3> QED
      BY <1>1, <3>1, <3>2 DEF Scored, PanelRows
  <2>7. {row.forecast : row \in Scored(cell)} = answers
    BY <2>5, <2>6
  <2>8. ASSUME NEW row \in Scored(cell), NEW other \in Scored(cell), row.forecast = other.forecast
        PROVE  row = other
    <3>1. row \in verdicts /\ other \in verdicts
      BY DEF Scored, PanelRows
    <3>2. row.verdict = other.verdict
      BY <1>1, <2>8, <3>1 DEF RecordInv, ResolutionInv, VerdictIsFinal
    <3>3. /\ row = [forecast |-> row.forecast, verdict |-> row.verdict]
          /\ other = [forecast |-> other.forecast, verdict |-> other.verdict]
      BY <1>1, <3>1 DEF RecordInv, VerdictsFit
    <3> QED
      BY <2>8, <3>2, <3>3
  <2>9. \A f \in answers : f.source = "PANEL" /\ f \in F
    BY <1>1, <2>1
  <2>10. \A f \in answers : \E panel \in panels : f \in OfPanel(panel)
    BY <2>1, <2>9, CollectedFrom, FromOpinion
  <2>11. IsFiniteSet(answers)
    BY <1>1, <2>10, PanelsAreFinite DEF RecordInv
  <2>12. ASSUME NEW arm \in Arm
         PROVE  /\ IsFiniteSet(of(arm)) /\ Cardinality(ScoredBy(cell, arm)) = Cardinality(of(arm))
                /\ of(arm) # {} => ScoredBy(cell, arm) # {}
    <3>1. IsFiniteSet(of(arm))
      BY <2>11, FS_Subset
    <3> DEFINE h == [f \in of(arm) |-> CHOOSE row \in ScoredBy(cell, arm) : row.forecast = f]
    <3>2. \A f \in of(arm) : \E row \in ScoredBy(cell, arm) : row.forecast = f
      BY <2>6 DEF ScoredBy
    <3>3. \A f \in of(arm) : h[f] \in ScoredBy(cell, arm) /\ h[f].forecast = f
      BY <3>2
    <3>4. \A row \in ScoredBy(cell, arm) : row.forecast \in of(arm) /\ row \in Scored(cell)
      BY <2>5 DEF ScoredBy
    <3>5. h \in [of(arm) -> ScoredBy(cell, arm)]
      BY <3>3
    <3> HIDE DEF h
    <3>6. \A row \in ScoredBy(cell, arm) : h[row.forecast] = row
      BY <2>8, <3>3, <3>4
    <3>7. \A f, g \in of(arm) : h[f] = h[g] => f = g
      BY <3>3
    <3>8. \A row \in ScoredBy(cell, arm) : \E f \in of(arm) : h[f] = row
      BY <3>4, <3>6
    <3> HIDE DEF of
    <3>9. Cardinality(ScoredBy(cell, arm)) = Cardinality(of(arm))
      BY <3>1, <3>5, <3>7, <3>8, SameCount
    <3> QED
      BY <3>1, <3>2, <3>9
  <2>13. {Cardinality(ScoredBy(cell, arm)) : arm \in Arm} = sizes
    BY <2>12
  <2>14. ~UnequalRepetitions(cell)
    <3>1. Cardinality(sizes) = 1
      BY <1>1
    <3> HIDE DEF sizes
    <3>2. Cardinality({Cardinality(ScoredBy(cell, arm)) : arm \in Arm}) = 1
      BY <2>13, <3>1, Zenon
    <3> QED
      BY <3>2 DEF UnequalRepetitions
  <2>15. a.unit.arm \in Arm
    <3>1. PICK panel \in panels : a \in OfPanel(panel)
      BY <2>10
    <3>2. Sealed(panel.unit)
      BY <1>1 DEF RecordInv, SealedFit
    <3>3. panel.unit \in Unit
      BY <1>1, <3>2 DEF RecordInv, SealedFit, Sealed
    <3> QED
      BY <3>1, <3>3, FromAnswer DEF Unit
  <2>16. \E x : sizes = {x}
    <3> DEFINE h == [arm \in Arm |-> Cardinality(of(arm))]
    <3>1. h \in Surjection(Arm, sizes)
      BY DEF Surjection
    <3> HIDE DEF h, sizes
    <3>2. IsFiniteSet(sizes)
      BY <3>1, ResolutionAssumption, FS_Surjection
    <3>3. Cardinality(sizes) = 1
      BY <1>1 DEF sizes
    <3> QED
      BY <3>2, <3>3, FS_Singleton
  <2>17. ASSUME NEW arm \in Arm PROVE of(arm) # {}
    <3>1. Cardinality(of(arm)) = Cardinality(of(a.unit.arm))
      BY <2>15, <2>16
    <3>2. a \in of(a.unit.arm)
      OBVIOUS
    <3> HIDE DEF of
    <3>3. Cardinality(of(a.unit.arm)) # 0
      BY <2>12, <2>15, <3>2, FS_EmptySet
    <3> QED
      BY <2>12, <3>1, <3>3, FS_EmptySet
  <2>18. ~MissingArm(cell)
    BY <2>12, <2>17 DEF MissingArm
  <2> QED
    BY <1>1, <2>7, <2>14, <2>18 DEF Paired
<1>2. RecordInv => ComparisonIsSound
  BY <1>1, OneOutcome DEF ComparisonIsSound, RecordInv, ResolutionInv
<1> QED
  BY <1>2, Recorded, PTL
-----------------------------------------------------------------------------
(* What one unit becomes through some splits, and what it is paid.           *)

UnitsOf(splits) == FoldSet(LAMBDA split, n : n * split.value, 1, splits)
Pays(splits, from, paid) ==
  paid.value * UnitsOf({split \in splits : split.at \in from..(paid.at - 1)})
PaidIn(splits, from, dividends) == MapThenSumSet(LAMBDA paid : Pays(splits, from, paid), dividends)

\* The factors of a product are taken one by one, in any order.
Multiplies(g, D) ==
  /\ g[{}] = 1
  /\ \A t \in SUBSET D : t # {} => g[t] = g[t \ {AnyOf(t)}] * AnyOf(t).value

LEMMA UnitsMultiply ==
  ASSUME NEW D, IsFiniteSet(D), \A x \in D : x.value \in Int
  PROVE  \E g : Multiplies(g, D) /\ UnitsOf(D) = g[D]
<1> DEFINE pick == [t \in SUBSET D |-> AnyOf(t)]
           F == [p \in Int \X D |-> p[1] * p[2].value]
<1>1. F \in StepOn(Int, D) /\ Picks(pick, D) /\ 1 \in Int
  BY DEF AnyOf, StepOn, Picks
<1>2. PICK h \in [SUBSET D -> Int] : TakesApart(h, F, 1, pick, D)
  <2> HIDE DEF F, pick
  <2> QED
    BY <1>1, FiniteRecursion
<1>3. ASSUME NEW t \in SUBSET D, t # {}
      PROVE  F[<<h[t \ {pick[t]}], pick[t]>>] = h[t \ {AnyOf(t)}] * AnyOf(t).value
  <2>1. AnyOf(t) \in D /\ pick[t] = AnyOf(t) /\ h[t \ {AnyOf(t)}] \in Int
    BY <1>3 DEF AnyOf
  <2> QED
    BY <2>1
<1>4. h = [t \in SUBSET D |-> IF t = {} THEN 1 ELSE h[t \ {AnyOf(t)}] * AnyOf(t).value]
  <2> HIDE DEF F, pick
  <2> QED
    BY <1>2, <1>3 DEF TakesApart
<1>5. \E iter : iter = [t \in SUBSET D |-> IF t = {} THEN 1
                ELSE iter[t \ {CHOOSE x \in t : TRUE}] * (CHOOSE x \in t : TRUE).value]
  BY <1>4, Zenon DEF AnyOf
<1> DEFINE iter == CHOOSE iter : iter = [t \in SUBSET D |-> IF t = {} THEN 1
                ELSE iter[t \ {CHOOSE x \in t : TRUE}] * (CHOOSE x \in t : TRUE).value]
<1>6. iter = [t \in SUBSET D |-> IF t = {} THEN 1
                ELSE iter[t \ {CHOOSE x \in t : TRUE}] * (CHOOSE x \in t : TRUE).value]
  BY <1>5, Zenon
<1>7. UnitsOf(D) = iter[D]
  BY DEF UnitsOf, FoldSet, MapThenFoldSet
<1> HIDE DEF iter
<1>8. iter = [t \in SUBSET D |-> IF t = {} THEN 1 ELSE iter[t \ {AnyOf(t)}] * AnyOf(t).value]
  BY <1>6 DEF AnyOf
<1>9. Multiplies(iter, D)
  BY <1>8 DEF Multiplies
<1> QED
  BY <1>7, <1>9

LEMMA Swapped == \A a, b, c \in Int : (a * b) * c = (a * c) * b
OBVIOUS

\* Whichever is taken first.
LEMMA MultipliesAnyFirst ==
  ASSUME NEW D, IsFiniteSet(D), \A x \in D : x.value \in Int, NEW g, Multiplies(g, D)
  PROVE  \A t \in SUBSET D : g[t] \in Int /\ \A d \in t : g[t] = g[t \ {d}] * d.value
<1> DEFINE Right(t) == g[t] \in Int /\ \A d \in t : g[t] = g[t \ {d}] * d.value /\ g[t \ {d}] \in Int
           P == {t \in SUBSET D : Right(t)}
<1>1. ASSUME NEW t \in SUBSET D, \A x \in t : t \ {x} \in P PROVE t \in P
  <2>1. CASE t = {}
    BY <2>1 DEF Multiplies
  <2>2. CASE t # {}
    <3> DEFINE c == AnyOf(t)
    <3>1. c \in t
      BY <2>2 DEF AnyOf
    <3>2. g[t] = g[t \ {c}] * c.value
      BY <2>2 DEF Multiplies
    <3>3. \A x \in t : Right(t \ {x}) /\ x.value \in Int
      BY <1>1
    <3>4. g[t] \in Int
      <4>1. g[t \ {c}] \in Int /\ c.value \in Int
        BY <3>1, <3>3
      <4> QED
        BY <3>2, <4>1
    <3> HIDE DEF c
    <3>5. ASSUME NEW d \in t, d # c PROVE g[t] = g[t \ {d}] * d.value
      <4>1. d \in t \ {c} /\ c \in t \ {d} /\ (t \ {c}) \ {d} = (t \ {d}) \ {c}
        BY <3>1, <3>5
      <4> DEFINE u == (t \ {c}) \ {d}
      <4>2. g[t \ {c}] = g[u] * d.value /\ g[u] \in Int
        BY <3>1, <3>3, <4>1
      <4>3. g[t \ {d}] = g[u] * c.value
        BY <3>3, <4>1
      <4>4. d.value \in Int /\ c.value \in Int
        BY <3>1, <3>3
      <4> HIDE DEF u
      <4>5. (g[u] * d.value) * c.value = (g[u] * c.value) * d.value
        BY <4>2, <4>4, Swapped
      <4> QED
        BY <3>2, <4>2, <4>3, <4>5
    <3> QED
      BY <3>2, <3>3, <3>4, <3>5
  <2> QED
    BY <2>1, <2>2
<1>2. \A t \in SUBSET D : t \in P
  <2> HIDE DEF P
  <2> QED
    BY <1>1, FiniteInduct
<1> QED
  BY <1>2

LEMMA MultipliesAgree ==
  ASSUME NEW D, IsFiniteSet(D), NEW g, Multiplies(g, D), NEW k, Multiplies(k, D)
  PROVE  g[D] = k[D]
<1> DEFINE P == {t \in SUBSET D : g[t] = k[t]}
<1>1. ASSUME NEW t \in SUBSET D, \A x \in t : t \ {x} \in P PROVE t \in P
  <2>1. t # {} => AnyOf(t) \in t
    BY DEF AnyOf
  <2> QED
    BY <1>1, <2>1 DEF Multiplies
<1>2. \A t \in SUBSET D : t \in P
  <2> HIDE DEF P
  <2> QED
    BY <1>1, FiniteInduct
<1> QED
  BY <1>2

\* One split more multiplies the units.
LEMMA UnitsAre ==
  ASSUME NEW D, IsFiniteSet(D), \A x \in D : x.value \in Int
  PROVE  /\ UnitsOf(D) \in Int
         /\ D = {} => UnitsOf(D) = 1
         /\ \A d \in D : UnitsOf(D) = UnitsOf(D \ {d}) * d.value
<1>1. PICK g : Multiplies(g, D) /\ UnitsOf(D) = g[D]
  BY UnitsMultiply
<1>2. \A t \in SUBSET D : g[t] \in Int /\ \A d \in t : g[t] = g[t \ {d}] * d.value
  BY <1>1, MultipliesAnyFirst
<1>3. ASSUME NEW d \in D PROVE UnitsOf(D \ {d}) = g[D \ {d}]
  <2> DEFINE rest == D \ {d}
  <2>1. IsFiniteSet(rest) /\ \A x \in rest : x.value \in Int
    BY FS_RemoveElement
  <2>2. Multiplies(g, rest)
    BY <1>1 DEF Multiplies
  <2> HIDE DEF rest
  <2>3. PICK k : Multiplies(k, rest) /\ UnitsOf(rest) = k[rest]
    BY <2>1, UnitsMultiply
  <2>4. k[rest] = g[rest]
    BY <2>1, <2>2, <2>3, MultipliesAgree
  <2> QED
    BY <2>3, <2>4 DEF rest
<1> QED
  BY <1>1, <1>2, <1>3 DEF Multiplies

\* What is paid is a sum over the dividends.
LEMMA PaidIs ==
  ASSUME NEW D, IsFiniteSet(D), NEW splits, NEW from, \A x \in D : Pays(splits, from, x) \in Int
  PROVE  PaidIn(splits, from, D) = SumFunction([x \in D |-> Pays(splits, from, x)])
<1> DEFINE f == [x \in D |-> Pays(splits, from, x)]
           pick == [t \in SUBSET D |-> AnyOf(t)]
           F == [p \in Int \X D |-> Pays(splits, from, p[2]) + p[1]]
<1>0. DOMAIN f = D /\ \A x \in D : f[x] \in Int /\ f[x] = Pays(splits, from, x)
  OBVIOUS
<1>1. F \in StepOn(Int, D) /\ Picks(pick, D) /\ 0 \in Int
  BY DEF AnyOf, StepOn, Picks
<1>2. PICK h \in [SUBSET D -> Int] : TakesApart(h, F, 0, pick, D)
  <2> HIDE DEF F, pick
  <2> QED
    BY <1>1, FiniteRecursion
<1>3. ASSUME NEW t \in SUBSET D, t # {}
      PROVE  F[<<h[t \ {pick[t]}], pick[t]>>] = Pays(splits, from, AnyOf(t)) + h[t \ {AnyOf(t)}]
  <2>1. AnyOf(t) \in D /\ pick[t] = AnyOf(t) /\ h[t \ {AnyOf(t)}] \in Int
    BY <1>3 DEF AnyOf
  <2> QED
    BY <2>1
<1>4. h = [t \in SUBSET D |-> IF t = {} THEN 0 ELSE Pays(splits, from, AnyOf(t)) + h[t \ {AnyOf(t)}]]
  <2> HIDE DEF F, pick
  <2> QED
    BY <1>2, <1>3 DEF TakesApart
<1>5. \E iter : iter = [t \in SUBSET D |-> IF t = {} THEN 0
                ELSE Pays(splits, from, CHOOSE x \in t : TRUE) + iter[t \ {CHOOSE x \in t : TRUE}]]
  BY <1>4, Zenon DEF AnyOf
<1> DEFINE iter == CHOOSE iter : iter = [t \in SUBSET D |-> IF t = {} THEN 0
                ELSE Pays(splits, from, CHOOSE x \in t : TRUE) + iter[t \ {CHOOSE x \in t : TRUE}]]
<1>6. iter = [t \in SUBSET D |-> IF t = {} THEN 0
                ELSE Pays(splits, from, CHOOSE x \in t : TRUE) + iter[t \ {CHOOSE x \in t : TRUE}]]
  BY <1>5, Zenon
<1>7. PaidIn(splits, from, D) = iter[D]
  BY DEF PaidIn, MapThenSumSet, MapThenFoldSet
<1> HIDE DEF iter, f
<1>8. iter = [t \in SUBSET D |-> IF t = {} THEN 0 ELSE Pays(splits, from, AnyOf(t)) + iter[t \ {AnyOf(t)}]]
  BY <1>6 DEF AnyOf
<1>9. Adds(iter, f, D)
  <2>1. \A t \in SUBSET D : t # {} => AnyOf(t) \in D
    BY DEF AnyOf
  <2> QED
    BY <1>0, <1>8, <2>1 DEF Adds
<1>10. PICK k : Adds(k, f, D) /\ SumFunction(f) = k[D]
  BY <1>0, SumAdds
<1>11. iter[D] = k[D]
  BY <1>9, <1>10, AddsAgree
<1> QED
  BY <1>7, <1>10, <1>11 DEF f

-----------------------------------------------------------------------------
(* The events of a forecast, in their order.                                 *)

Eventlike(x) == x.kind \in {"CASH_DIVIDEND", "STOCK_SPLIT"} /\ x.at \in Int /\ x.value \in Int
AreEvents(D) == IsFiniteSet(D) /\ \A x \in D : Eventlike(x)

\* There is a latest event; of one instant, a split.
LEMMA LatestIs ==
  ASSUME NEW D, AreEvents(D)
  PROVE  \A t \in SUBSET D :
           t # {} => Latest(t) \in t /\ \A other \in t : NotAfter(other, Latest(t))
<1> DEFINE IsLatest(x, t) == \A other \in t : NotAfter(other, x)
           P == {t \in SUBSET D : t # {} => \E x \in t : IsLatest(x, t)}
<1>1. ASSUME NEW t \in SUBSET D, \A x \in t : t \ {x} \in P PROVE t \in P
  <2>1. ASSUME NEW z \in t, t \ {z} # {} PROVE \E x \in t : IsLatest(x, t)
    <3>1. PICK x \in t \ {z} : IsLatest(x, t \ {z})
      BY <1>1, <2>1
    <3>2. NotAfter(x, x) /\ NotAfter(z, z) /\ (NotAfter(z, x) \/ NotAfter(x, z))
      BY <1>1, <3>1 DEF NotAfter, AreEvents, Eventlike
    <3>3. CASE NotAfter(z, x)
      BY <3>1, <3>2, <3>3
    <3>4. CASE NotAfter(x, z)
      <4>1. ASSUME NEW other \in t PROVE NotAfter(other, z)
        <5>1. CASE other = z
          BY <3>2, <5>1
        <5>2. CASE other # z
          <6>1. NotAfter(other, x)
            BY <3>1, <5>2
          <6> QED
            BY <3>1, <3>4, <6>1 DEF NotAfter, AreEvents, Eventlike
        <5> QED
          BY <5>1, <5>2
      <4> QED
        BY <4>1
    <3> QED
      BY <3>2, <3>3, <3>4
  <2>2. ASSUME NEW z \in t, t \ {z} = {} PROVE \E x \in t : IsLatest(x, t)
    <3>1. NotAfter(z, z) /\ t = {z}
      BY <2>2 DEF NotAfter, AreEvents, Eventlike
    <3> QED
      BY <3>1
  <2> QED
    BY <2>1, <2>2
<1>2. \A t \in SUBSET D : t \in P
  <2> HIDE DEF P
  <2> QED
    BY <1>1, FiniteInduct DEF AreEvents
<1>3. \A t \in SUBSET D : t # {} => \E x \in t : \A other \in t : NotAfter(other, x)
  BY <1>2
<1> QED
  BY <1>3 DEF Latest

Start == [units |-> 1, cash |-> 0]
Accrued == [units : Int, cash : Int]

\* The recursion takes the latest off.
LEMMA HoldingTakes ==
  ASSUME NEW D, AreEvents(D)
  PROVE  \E h : /\ Holding(D) = h[D] /\ h[{}] = Start
                /\ \A t \in SUBSET D : t # {} => h[t] = Accrue(Latest(t), h[t \ {Latest(t)}])
<1> DEFINE pick == [t \in SUBSET D |-> Latest(t)]
           F == [p \in Accrued \X D |-> Accrue(p[2], p[1])]
<1>1. /\ Picks(pick, D) /\ Start \in Accrued /\ IsFiniteSet(D)
      /\ \A t \in SUBSET D : t # {} => Latest(t) \in D /\ pick[t] = Latest(t)
  BY LatestIs DEF Picks, Start, Accrued, AreEvents
<1>2. F \in StepOn(Accrued, D)
  <2>1. ASSUME NEW a \in Accrued, NEW x \in D PROVE Accrue(x, a) \in Accrued
    <3>1. x.value \in Int /\ a.units \in Int /\ a.cash \in Int
      BY DEF AreEvents, Eventlike, Accrued
    <3>2. a.units * x.value \in Int /\ a.cash + x.value * a.units \in Int
      BY <3>1
    <3> QED
      BY <3>1, <3>2 DEF Accrue, Accrued
  <2> QED
    BY <2>1 DEF StepOn
<1>3. PICK h \in [SUBSET D -> Accrued] : TakesApart(h, F, Start, pick, D)
  <2> HIDE DEF F, pick
  <2> QED
    BY <1>1, <1>2, FiniteRecursion
<1>4. ASSUME NEW t \in SUBSET D, t # {}
      PROVE  F[<<h[t \ {pick[t]}], pick[t]>>] = Accrue(Latest(t), h[t \ {Latest(t)}])
  <2>1. Latest(t) \in D /\ pick[t] = Latest(t) /\ h[t \ {Latest(t)}] \in Accrued
    BY <1>1, <1>4
  <2> HIDE DEF pick
  <2> QED
    BY <2>1
<1>5. h = [t \in SUBSET D |-> IF t = {} THEN Start ELSE Accrue(Latest(t), h[t \ {Latest(t)}])]
  <2> HIDE DEF F, pick
  <2> QED
    BY <1>3, <1>4 DEF TakesApart
<1> HIDE DEF pick, F
<1>6. \E iter : iter = [t \in SUBSET D |->
                          IF t = {} THEN Start ELSE Accrue(Latest(t), iter[t \ {Latest(t)}])]
  BY <1>5
<1> DEFINE iter == CHOOSE iter : iter = [t \in SUBSET D |->
                          IF t = {} THEN Start ELSE Accrue(Latest(t), iter[t \ {Latest(t)}])]
<1>7. iter = [t \in SUBSET D |-> IF t = {} THEN Start ELSE Accrue(Latest(t), iter[t \ {Latest(t)}])]
  BY <1>6, Zenon
<1>8. Holding(D) = iter[D]
  BY DEF Holding, MapThenFoldSet, Start
<1> HIDE DEF iter
<1> QED
  BY <1>7, <1>8

SplitsOf(D) == {x \in D : x.kind = "STOCK_SPLIT"}
DividendsOf(D) == {x \in D : x.kind = "CASH_DIVIDEND"}
Come(D, from) == [units |-> UnitsOf(SplitsOf(D)), cash |-> PaidIn(SplitsOf(D), from, DividendsOf(D))]

LEMMA SomeEvents ==
  ASSUME NEW D, AreEvents(D), NEW t \in SUBSET D
  PROVE  AreEvents(t) /\ AreEvents(SplitsOf(t)) /\ AreEvents(DividendsOf(t))
<1>1. \A u \in SUBSET D : AreEvents(u)
  BY FS_Subset DEF AreEvents
<1> QED
  BY <1>1 DEF SplitsOf, DividendsOf

LEMMA PaysWhole ==
  ASSUME NEW D, AreEvents(D), NEW from, NEW x, x.value \in Int
  PROVE  Pays(D, from, x) \in Int
<1> DEFINE S == {split \in D : split.at \in from..(x.at - 1)}
<1>1. IsFiniteSet(S) /\ \A y \in S : y.value \in Int
  BY FS_Subset DEF AreEvents, Eventlike
<1>2. UnitsOf(S) \in Int
  <2> HIDE DEF S
  <2> QED
    BY <1>1, UnitsAre
<1> HIDE DEF S
<1>3. x.value * UnitsOf(S) \in Int
  BY <1>2
<1> QED
  BY <1>3 DEF Pays, S

\* The last event does to a holding what the code does.
LEMMA LastAccrues ==
  ASSUME NEW t, AreEvents(t), NEW x \in t, \A y \in t : NotAfter(y, x),
         NEW from \in Int, \A y \in t : y.at >= from
  PROVE  Come(t, from) = Accrue(x, Come(t \ {x}, from))
<1> DEFINE r == t \ {x}
           s == SplitsOf(t)
           d == DividendsOf(t)
<1>1. /\ AreEvents(r) /\ AreEvents(s) /\ AreEvents(d)
      /\ AreEvents(SplitsOf(r)) /\ AreEvents(DividendsOf(r))
      /\ x.value \in Int /\ x.at \in Int
  BY SomeEvents DEF AreEvents, Eventlike
<1>2. \A y \in t : Pays(s, from, y) \in Int /\ Pays(SplitsOf(r), from, y) \in Int
  <2> HIDE DEF r, s
  <2> QED
    BY <1>1, PaysWhole DEF AreEvents, Eventlike
<1>3. /\ PaidIn(s, from, d) = SumFunction([y \in d |-> Pays(s, from, y)])
      /\ PaidIn(SplitsOf(r), from, DividendsOf(r))
           = SumFunction([y \in DividendsOf(r) |-> Pays(SplitsOf(r), from, y)])
  <2>1. d \subseteq t /\ DividendsOf(r) \subseteq t /\ IsFiniteSet(d) /\ IsFiniteSet(DividendsOf(r))
    BY <1>1 DEF AreEvents, DividendsOf
  <2> HIDE DEF r, s, d
  <2> QED
    BY <1>2, <2>1, PaidIs
<1>4. CASE x.kind = "STOCK_SPLIT"
  <2>1. x \in s /\ SplitsOf(r) = s \ {x} /\ DividendsOf(r) = d
    BY <1>4 DEF SplitsOf, DividendsOf
  <2>2. UnitsOf(s) = UnitsOf(SplitsOf(r)) * x.value
    <3> HIDE DEF s, r
    <3> QED
      BY <1>1, <2>1, UnitsAre DEF AreEvents, Eventlike
  <2>3. ASSUME NEW y \in d PROVE Pays(SplitsOf(r), from, y) = Pays(s, from, y)
    <3>1. y.at \in Int /\ y.at <= x.at
      <4>1. y \in t /\ y.kind = "CASH_DIVIDEND"
        BY DEF DividendsOf
      <4> QED
        BY <1>1, <1>4, <4>1 DEF NotAfter, AreEvents, Eventlike
    <3>2. x.at \notin from..(y.at - 1)
      BY <1>1, <3>1
    <3>3. {split \in SplitsOf(r) : split.at \in from..(y.at - 1)} = {split \in s : split.at \in from..(y.at - 1)}
      <4> HIDE DEF s, r
      <4> QED
        BY <2>1, <3>2
    <3> QED
      BY <3>3 DEF Pays
  <2>4. PaidIn(SplitsOf(r), from, DividendsOf(r)) = PaidIn(s, from, d)
    <3>1. [y \in DividendsOf(r) |-> Pays(SplitsOf(r), from, y)] = [y \in d |-> Pays(s, from, y)]
      <4> HIDE DEF s, r, d
      <4> QED
        BY <2>1, <2>3
    <3> QED
      BY <1>3, <3>1
  <2> HIDE DEF s, r, d
  <2>5. Accrue(x, Come(r, from)) = [units |-> UnitsOf(SplitsOf(r)) * x.value,
                              cash |-> PaidIn(SplitsOf(r), from, DividendsOf(r))]
    BY <1>4 DEF Accrue, Come
  <2>6. Come(t, from) = [units |-> UnitsOf(s), cash |-> PaidIn(s, from, d)]
    BY DEF Come, s, d
  <2>7. Come(t, from) = Accrue(x, Come(r, from))
    BY <2>2, <2>4, <2>5, <2>6
  <2> QED
    BY <2>7 DEF r
<1>5. CASE x.kind = "CASH_DIVIDEND"
  <2>1. x \in d /\ DividendsOf(r) = d \ {x} /\ SplitsOf(r) = s
    BY <1>5 DEF SplitsOf, DividendsOf
  <2>2. {split \in s : split.at \in from..(x.at - 1)} = s
    <3>1. ASSUME NEW y \in s PROVE y.at \in from..(x.at - 1)
      <4>1. y \in t /\ y.kind = "STOCK_SPLIT"
        BY DEF SplitsOf
      <4> QED
        BY <1>1, <1>5, <4>1 DEF NotAfter, AreEvents, Eventlike
    <3> HIDE DEF s
    <3> QED
      BY <3>1
  <2>3. Pays(s, from, x) = x.value * UnitsOf(s)
    <3> HIDE DEF s
    <3> QED
      BY <2>2 DEF Pays
  <2>4. PaidIn(s, from, d) = Pays(s, from, x) + PaidIn(s, from, DividendsOf(r))
    <3> DEFINE f == [y \in d |-> Pays(s, from, y)]
    <3>1. DOMAIN f = d /\ IsFiniteSet(d) /\ (\A y \in d : f[y] \in Int) /\ f[x] = Pays(s, from, x)
      <4>1. \A y \in d : y \in t
        BY DEF DividendsOf
      <4> HIDE DEF s, d
      <4> QED
        BY <1>1, <1>2, <2>1, <4>1 DEF AreEvents
    <3>2. [y \in d \ {x} |-> f[y]] = [y \in DividendsOf(r) |-> Pays(SplitsOf(r), from, y)]
      <4> HIDE DEF s, d, r
      <4> QED
        BY <2>1
    <3> HIDE DEF f
    <3>3. SumFunction(f) = f[x] + SumFunction([y \in d \ {x} |-> f[y]])
      <4> HIDE DEF d
      <4> QED
        BY <2>1, <3>1, Sums
    <3>4. PaidIn(s, from, d) = SumFunction(f)
      BY <1>3 DEF f
    <3> HIDE DEF s, d, r
    <3> QED
      BY <1>3, <2>1, <3>1, <3>2, <3>3, <3>4
  <2>5. PaidIn(s, from, DividendsOf(r)) \in Int /\ UnitsOf(s) \in Int
    <3>1. \A y \in DividendsOf(r) : y \in t
      BY DEF DividendsOf
    <3> HIDE DEF s, d, r
    <3>2. UnitsOf(s) \in Int
      BY <1>1, UnitsAre DEF AreEvents, Eventlike
    <3> DEFINE f == [y \in DividendsOf(r) |-> Pays(SplitsOf(r), from, y)]
    <3>3. IsFiniteSet(DOMAIN f) /\ \A y \in DOMAIN f : f[y] \in Int
      BY <1>1, <1>2, <3>1 DEF AreEvents
    <3>4. PaidIn(s, from, DividendsOf(r)) = SumFunction(f)
      BY <1>3, <2>1
    <3> HIDE DEF f
    <3> QED
      BY <3>2, <3>3, <3>4, Sums
  <2> HIDE DEF s, r, d
  <2>6. Accrue(x, Come(r, from)) = [units |-> UnitsOf(s),
                              cash |-> PaidIn(s, from, DividendsOf(r)) + x.value * UnitsOf(s)]
    BY <1>5, <2>1 DEF Accrue, Come
  <2>7. Come(t, from) = [units |-> UnitsOf(s), cash |-> PaidIn(s, from, d)]
    BY DEF Come, s, d
  <2>8. PaidIn(s, from, d) = PaidIn(s, from, DividendsOf(r)) + x.value * UnitsOf(s)
    <3>1. x.value * UnitsOf(s) \in Int
      BY <1>1, <2>5
    <3> QED
      BY <2>3, <2>4, <2>5, <3>1
  <2>9. Come(t, from) = Accrue(x, Come(r, from))
    BY <2>6, <2>7, <2>8
  <2> QED
    BY <2>9 DEF r
<1> QED
  BY <1>4, <1>5 DEF AreEvents, Eventlike

\* What the code comes to event by event is what was held and paid in all.
LEMMA HoldingIs ==
  ASSUME NEW D, AreEvents(D), NEW from \in Int, \A x \in D : x.at >= from
  PROVE  Holding(D) = Come(D, from)
<1>1. PICK h : /\ Holding(D) = h[D] /\ h[{}] = Start
               /\ \A t \in SUBSET D : t # {} => h[t] = Accrue(Latest(t), h[t \ {Latest(t)}])
  BY HoldingTakes
<1> DEFINE P == {t \in SUBSET D : h[t] = Come(t, from)}
<1>2. ASSUME NEW t \in SUBSET D, \A x \in t : t \ {x} \in P PROVE t \in P
  <2>1. CASE t = {}
    <3>1. IsFiniteSet({}) /\ SplitsOf({}) = {} /\ DividendsOf({}) = {}
      BY FS_EmptySet DEF SplitsOf, DividendsOf
    <3>2. UnitsOf({}) = 1
      BY <3>1, UnitsAre
    <3>3. PaidIn({}, from, {}) = 0
      <4> DEFINE f == [x \in {} |-> Pays({}, from, x)]
      <4>1. PaidIn({}, from, {}) = SumFunction(f)
        BY <3>1, PaidIs
      <4>2. DOMAIN f = {}
        OBVIOUS
      <4> HIDE DEF f
      <4> QED
        BY <3>1, <4>1, <4>2, Sums
    <3> QED
      BY <1>1, <2>1, <3>1, <3>2, <3>3 DEF Come, Start
  <2>2. CASE t # {}
    <3>1. Latest(t) \in t /\ \A other \in t : NotAfter(other, Latest(t))
      BY <2>2, LatestIs
    <3>2. AreEvents(t)
      BY SomeEvents
    <3>3. h[t \ {Latest(t)}] = Come(t \ {Latest(t)}, from)
      BY <1>2, <3>1
    <3>4. Come(t, from) = Accrue(Latest(t), Come(t \ {Latest(t)}, from))
      BY <3>1, <3>2, LastAccrues
    <3> QED
      BY <1>1, <2>2, <3>3, <3>4
  <2> QED
    BY <2>1, <2>2
<1>3. \A t \in SUBSET D : t \in P
  <2> HIDE DEF P
  <2> QED
    BY <1>2, FiniteInduct DEF AreEvents
<1> QED
  BY <1>1, <1>3

-----------------------------------------------------------------------------
(* What the world publishes, and what the complete record has of it.         *)

\* One close is published of an instrument and a session.
OneClose(w) ==
  \A x, y \in w.evidence :
    /\ x.kind = "PRICE_BAR" /\ x.seen <= x.at
    /\ y.kind = "PRICE_BAR" /\ y.seen <= y.at
    /\ x.about = y.about /\ x.at = y.at
    => x.value = y.value

Published(i, kind) ==
  {item \in world.evidence : item.kind = kind /\ item.about = i /\ item.seen <= item.at}
PublishedIn(i, kind, from, to) == {item \in Published(i, kind) : item.at \in from..to}
CloseOf(i, s) == (CHOOSE bar \in PublishedIn(i, "PRICE_BAR", s, s) : TRUE).value

LEMMA CollectedIs ==
  ASSUME NEW s \in Session, NEW i
  PROVE  Collected(Everything, s, i) =
           {item \in world.evidence : item.at = s /\ item.about = i /\ item.seen <= item.at}
BY DEF Collected, Everything, Snapshot

LEMMA CloseIs ==
  ASSUME OneClose(world), NEW s \in Session, NEW i, Closes(Everything, s, i) # {}
  PROVE  (CHOOSE close \in Closes(Everything, s, i) : TRUE) = CloseOf(i, s)
<1> DEFINE bars == PublishedIn(i, "PRICE_BAR", s, s)
<1>1. s..s = {s}
  BY ResolutionAssumption DEF Session
<1>2. bars = {item \in Collected(Everything, s, i) : item.kind = "PRICE_BAR"}
  BY <1>1, CollectedIs DEF PublishedIn, Published
<1>3. Closes(Everything, s, i) = {bar.value : bar \in bars}
  BY <1>2 DEF Closes
<1>4. \A x, y \in bars : x.value = y.value
  BY <1>1 DEF OneClose, PublishedIn, Published
<1> HIDE DEF bars
<1>5. PICK bar \in bars : TRUE
  BY <1>3
<1>6. (CHOOSE x \in bars : TRUE) \in bars
  BY <1>5
<1>7. Closes(Everything, s, i) = {bar.value}
  BY <1>3, <1>4, <1>5
<1>8. (CHOOSE x \in bars : TRUE).value = bar.value
  BY <1>4, <1>5, <1>6
<1> QED
  BY <1>7, <1>8 DEF CloseOf, bars

\* The events of a forecast are what the world published of its instrument, after the
\* anchor and through the target.
LEMMA EventsAre ==
  ASSUME world \in Worlds, NEW i, NEW anchor \in Session, NEW target \in Session
  PROVE  LET events == EventsBetween(Everything, i, anchor, target)
         IN  /\ AreEvents(events) /\ \A x \in events : x.at \in (anchor + 1)..target
             /\ SplitsOf(events) = PublishedIn(i, "STOCK_SPLIT", anchor + 1, target)
             /\ DividendsOf(events) = PublishedIn(i, "CASH_DIVIDEND", anchor + 1, target)
<1> DEFINE events == EventsBetween(Everything, i, anchor, target)
<1>1. anchor \in Nat /\ target \in Nat /\ (anchor + 1)..target \subseteq Session
  BY ResolutionAssumption DEF Session
<1>2. events = {item \in world.evidence : /\ item.about = i /\ item.seen <= item.at
                                          /\ item.at \in (anchor + 1)..target
                                          /\ item.kind # "PRICE_BAR"}
  <2>1. ASSUME NEW item
        PROVE  item \in events <=> \E s \in (anchor + 1)..target :
                                     item \in Collected(Everything, s, i) /\ item.kind # "PRICE_BAR"
    BY DEF EventsBetween
  <2>2. \A s \in (anchor + 1)..target : \A item :
          item \in Collected(Everything, s, i) <=>
            item \in world.evidence /\ item.at = s /\ item.about = i /\ item.seen <= item.at
    BY <1>1, CollectedIs
  <2> HIDE DEF events
  <2> QED
    BY <2>1, <2>2
<1>3. IsFiniteSet(events)
  BY <1>2, EvidenceAssumption, FS_Subset
<1>4. \A x \in events : Eventlike(x) /\ x.at \in (anchor + 1)..target
  BY <1>2, EvidenceAssumption DEF Eventlike
<1> HIDE DEF events
<1>5. /\ SplitsOf(events) = PublishedIn(i, "STOCK_SPLIT", anchor + 1, target)
      /\ DividendsOf(events) = PublishedIn(i, "CASH_DIVIDEND", anchor + 1, target)
  BY <1>2 DEF SplitsOf, DividendsOf, PublishedIn, Published
<1> QED
  BY <1>3, <1>4, <1>5 DEF AreEvents, events

\* Splits beyond the target pay no dividend before it.
LEMMA PaidByThen ==
  ASSUME NEW S, AreEvents(S), NEW from \in Int, NEW to \in Int, NEW all,
         S = {split \in all : split.at \in from..to},
         NEW D, AreEvents(D), \A x \in D : x.at \in from..to
  PROVE  PaidIn(S, from, D) = PaidIn(all, from, D)
<1>1. ASSUME NEW x \in D PROVE Pays(S, from, x) = Pays(all, from, x) /\ Pays(S, from, x) \in Int
  <2>1. from..(x.at - 1) \subseteq from..to
    OBVIOUS
  <2>2. {split \in S : split.at \in from..(x.at - 1)} = {split \in all : split.at \in from..(x.at - 1)}
    BY <2>1
  <2>3. Pays(S, from, x) = Pays(all, from, x)
    BY <2>2 DEF Pays
  <2> QED
    BY <2>3, PaysWhole DEF AreEvents, Eventlike
<1>2. /\ PaidIn(S, from, D) = SumFunction([x \in D |-> Pays(S, from, x)])
      /\ PaidIn(all, from, D) = SumFunction([x \in D |-> Pays(all, from, x)])
  <2>1. IsFiniteSet(D)
    BY DEF AreEvents
  <2>2. \A x \in D : Pays(S, from, x) \in Int
    BY <1>1
  <2>3. \A x \in D : Pays(all, from, x) \in Int
    BY <1>1
  <2>4. PaidIn(S, from, D) = SumFunction([x \in D |-> Pays(S, from, x)])
    BY <2>1, <2>2, PaidIs
  <2>5. PaidIn(all, from, D) = SumFunction([x \in D |-> Pays(all, from, x)])
    BY <2>1, <2>3, PaidIs
  <2> QED
    BY <2>4, <2>5
<1>3. [x \in D |-> Pays(S, from, x)] = [x \in D |-> Pays(all, from, x)]
  BY <1>1
<1> QED
  BY <1>2, <1>3

\* A verdict of the complete record is what a holder of one unit has.
LEMMA HolderHas ==
  ASSUME world \in Worlds, OneClose(world), NEW f,
         f.anchor \in Session, Target(f) \in Session,
         Verdict(Everything, f).status = "RESOLVED"
  PROVE  LET splits == PublishedIn(f.instrument, "STOCK_SPLIT", f.anchor + 1, Target(f))
             dividends == PublishedIn(f.instrument, "CASH_DIVIDEND", f.anchor + 1, Target(f))
         IN  /\ Verdict(Everything, f).paid = CloseOf(f.instrument, f.anchor)
             /\ Verdict(Everything, f).held =
                  UnitsOf(splits) * CloseOf(f.instrument, Target(f))
                  + PaidIn(Published(f.instrument, "STOCK_SPLIT"), f.anchor + 1, dividends)
<1> DEFINE i == f.instrument
           events == EventsBetween(Everything, i, f.anchor, Target(f))
           splits == PublishedIn(i, "STOCK_SPLIT", f.anchor + 1, Target(f))
           dividends == PublishedIn(i, "CASH_DIVIDEND", f.anchor + 1, Target(f))
<1>0. f.anchor + 1 \in Int /\ Target(f) \in Int
  BY ResolutionAssumption DEF Session
<1>1. /\ AreEvents(events) /\ \A x \in events : x.at \in (f.anchor + 1)..Target(f)
      /\ SplitsOf(events) = splits /\ DividendsOf(events) = dividends
  BY EventsAre
<1>2. StatusOf(Everything, f, events) = "RESOLVED"
  BY DEF Verdict
<1>3. /\ Closes(Everything, f.anchor, i) # {} /\ Closes(Everything, Target(f), i) # {}
  BY <1>2 DEF StatusOf
<1>4. /\ (CHOOSE close \in Closes(Everything, f.anchor, i) : TRUE) = CloseOf(i, f.anchor)
      /\ (CHOOSE price \in Closes(Everything, Target(f), i) : TRUE) = CloseOf(i, Target(f))
  BY <1>3, CloseIs
<1>5. Verdict(Everything, f) =
        [status |-> "RESOLVED", paid |-> CloseOf(i, f.anchor),
         held |-> Holding(events).units * CloseOf(i, Target(f)) + Holding(events).cash]
  <2> HIDE DEF i
  <2> QED
    BY <1>2, <1>4 DEF Verdict, i
<1> HIDE DEF events
<1>6. Holding(events) = Come(events, f.anchor + 1)
  <2>1. \A x \in events : x.at >= f.anchor + 1
    BY <1>0, <1>1
  <2> QED
    BY <1>0, <1>1, <2>1, HoldingIs
<1>7. Holding(events).units = UnitsOf(splits) /\ Holding(events).cash = PaidIn(splits, f.anchor + 1, dividends)
  BY <1>1, <1>6 DEF Come
<1>8. PaidIn(splits, f.anchor + 1, dividends)
        = PaidIn(Published(i, "STOCK_SPLIT"), f.anchor + 1, dividends)
  <2>1. AreEvents(splits) /\ AreEvents(dividends)
    BY <1>1, SomeEvents
  <2>2. splits = {split \in Published(i, "STOCK_SPLIT") : split.at \in (f.anchor + 1)..Target(f)}
    BY DEF PublishedIn
  <2>3. \A x \in dividends : x.at \in (f.anchor + 1)..Target(f)
    BY DEF PublishedIn
  <2> HIDE DEF splits, dividends
  <2> QED
    BY <1>0, <2>1, <2>2, <2>3, PaidByThen
<1> QED
  BY <1>5, <1>7, <1>8

\* The total return of resolve_forecast, accumulated event by event, is that of a holder
\* of one unit: each dividend pays on the units that the splits before it left, whatever
\* was announced in between, and whichever pass wrote the verdict.
THEOREM ReturnsAreHolders ==
  ASSUME \A w \in Worlds : OneClose(w)
  PROVE  Spec => []ReturnIsHolders
<1>1. RecordInv => ReturnIsHolders
  <2> SUFFICES ASSUME RecordInv, NEW row \in verdicts, row.verdict.status = "RESOLVED"
               PROVE  LET f == row.forecast
                          splits == PublishedIn(f.instrument, "STOCK_SPLIT", f.anchor + 1, Target(f))
                          dividends == PublishedIn(f.instrument, "CASH_DIVIDEND", f.anchor + 1, Target(f))
                      IN  /\ row.verdict.paid = CloseOf(f.instrument, f.anchor)
                          /\ row.verdict.held =
                               UnitsOf(splits) * CloseOf(f.instrument, Target(f))
                               + PaidIn(Published(f.instrument, "STOCK_SPLIT"), f.anchor + 1, dividends)
    BY DEF ReturnIsHolders, PublishedIn, Published, CloseOf, UnitsOf, PaidIn, Pays
  <2> DEFINE f == row.forecast
  <2>1. world \in Worlds /\ OneClose(world) /\ row.verdict = Verdict(Everything, f)
    BY DEF RecordInv, ResolutionInv, VerdictIsFinal
  <2>2. PICK n \in 0..LAST : snapshots = Frozen(n)
    BY DEF RecordInv, ResolutionInv
  <2>3. DOMAIN snapshots \subseteq Session
    BY <2>2, ResolutionAssumption DEF Frozen, Session
  <2>4. Target(f) \in Session
    BY <2>3 DEF RecordInv, VerdictsFit
  <2>5. f.anchor \in Session
    <3>1. CASE \E panel \in panels : f \in OfPanel(panel)
      <4>1. PICK panel \in panels : f \in OfPanel(panel)
        BY <3>1
      <4>2. f.anchor = panel.unit.cycle
        BY <4>1, FromAnswer DEF Forecast
      <4>3. panel.unit.cycle \in DOMAIN snapshots
        BY <4>1 DEF RecordInv, SealedFit, Sealed
      <4> QED
        BY <2>3, <4>2, <4>3
    <3>2. CASE \E bundle \in decisions : f \in OfDecision(bundle)
      <4>1. PICK bundle \in decisions : f \in OfDecision(bundle)
        BY <3>2
      <4>2. f.anchor = bundle.unit.cycle
        BY <4>1, FromOpinion DEF Forecast
      <4>3. bundle.unit.cycle \in DOMAIN snapshots
        BY <4>1 DEF RecordInv, SealedFit
      <4> QED
        BY <2>3, <4>2, <4>3
    <3> QED
      BY <3>1, <3>2 DEF RecordInv, VerdictsFit
  <2> HIDE DEF f
  <2>6. Verdict(Everything, f).status = "RESOLVED"
    BY <2>1
  <2> QED
    BY <2>1, <2>4, <2>5, <2>6, HolderHas DEF f
<1> QED
  BY <1>1, Recorded, PTL
=============================================================================
