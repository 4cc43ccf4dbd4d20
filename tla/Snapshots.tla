------------------------------ MODULE Snapshots ------------------------------
(***************************************************************************)
(* The evidence of a study: ingestion/pipeline.py, instruments/repository  *)
(* .py, snapshots/builder.py and the reference data of execution/          *)
(* corporate.py, in the order study/pipeline.py runs them, with the daily  *)
(* roots of audit/roots.py sealed over the events they leave.  What a      *)
(* cycle does apart from that is reduced to the events it dates: one if    *)
(* what was ordered the session before is filled, and the decision, or its *)
(* absence.                                                                *)
(*                                                                         *)
(* Appending an event commits what the session wrote before it; so does    *)
(* every version of an instrument.  A run may be stopped anywhere, and is  *)
(* started again from its first session.                                   *)
(***************************************************************************)
EXTENDS SyntheticMarket, Tables

CONSTANTS
  LAST,         (* sessions are 1..LAST                                      *)
  MAX_RUNS,     (* bound: how often the study is run                         *)
  MAX_STATUS    (* bound: status changes recorded by hand                    *)

ASSUME SnapshotsAssumption ==
  {LAST, MAX_RUNS, MAX_STATUS} \subseteq Nat /\ LAST > 0 /\ MAX_RUNS > 0

VARIABLES
  blobs,        (* contents in the blob store                                *)
  metadata,     (* blob_metadata: content -> instant it was first seen       *)
  versions,     (* instrument_versions: instrument -> its versions, in order *)
  claims,       (* corporate_action_applications of the REFERENCE scope      *)
  snapshots,    (* session -> [universe, evidence, status]                   *)
  chain,        (* the event log                                             *)
  roots,        (* daily_roots: day -> its root                              *)
  session, phase, position, candidates, applied,     (* the running process  *)
  runs,
  unsaid        (* history: changes a stop kept from being announced         *)

stored == <<blobs, metadata, versions, claims, snapshots, chain, roots>>
process == <<session, phase, position, candidates, applied>>
vars == <<stored, process, runs, unsaid>>

Session == 1..LAST
AtRest == {"finished", "refused", "stopped"}

EmitAgain(event) == chain' = Append(chain, event)
\* EventStore.append: an event already in the chain is not appended again.
Recorded(event) == Contains(chain, event)
Emit(event) == chain' = IF Recorded(event) THEN chain ELSE Append(chain, event)

Event(type, at, of) == [type |-> type, at |-> at, of |-> of]
Ingested(offer) == Event("DATA_INGESTED", offer.seen, offer)

-----------------------------------------------------------------------------
(* instruments/repository.py *)

Version(ticker, status, from) == [ticker |-> ticker, status |-> status, from |-> from]

Current(i) == versions[i][Len(versions[i])]

AllVersions(i, at) == DOMAIN versions[i]
VersionsAsOf(i, at) == {k \in DOMAIN versions[i] : versions[i][k].from <= at}

\* The universe as of an instant, each instrument in the last of its versions that had
\* come by then: one without any is invisible.
Search(at) ==
  [i \in {x \in DOMAIN versions : VersionsAsOf(x, at) # {}} |->
     versions[i][Max(VersionsAsOf(i, at))]]

\* A change that changes nothing leaves no version.
WithTicker(i, ticker, at) ==
  IF Current(i).ticker = ticker THEN versions
  ELSE [versions EXCEPT ![i] = Append(@, Version(ticker, Current(i).status, at))]

WithStatus(i, status, at) ==
  IF Current(i).status = status THEN versions
  ELSE [versions EXCEPT ![i] = Append(@, Version(Current(i).ticker, status, at))]

NotAdmitted == {i \in Instruments : i \notin DOMAIN versions}

-----------------------------------------------------------------------------
Init ==
  /\ blobs = {} /\ metadata = <<>> /\ versions = <<>> /\ claims = {}
  /\ snapshots = <<>> /\ chain = <<>> /\ roots = <<>>
  /\ session = 1 /\ phase = "opening" /\ position = 1 /\ candidates = {} /\ applied = {}
  /\ runs = 1 /\ unsaid = {}

\* open_study: admission is one commit for each instrument;
\* what is admitted already is found.
Admit ==
  /\ phase = "opening" /\ NotAdmitted # {}
  /\ versions' = WithRow(versions, CHOOSE i \in NotAdmitted : TRUE, <<Version("first", "ACTIVE", 0)>>)
  /\ UNCHANGED <<blobs, metadata, claims, snapshots, chain, roots, process, runs, unsaid>>

Opened ==
  /\ phase = "opening" /\ NotAdmitted = {}
  /\ phase' = "storing"
  /\ UNCHANGED <<stored, session, position, candidates, applied, runs, unsaid>>

-----------------------------------------------------------------------------
(* ingestion/pipeline.py: blob, then event, then metadata *)

Offer == Feed(session)[position]
HasOffer == position <= Len(Feed(session))

\* The next record becomes a candidate, as it was first seen.
Offered(seen) ==
  /\ candidates' = candidates \cup {[what |-> Offer.what, seen |-> seen]}
  /\ position' = position + 1
  /\ phase' = "storing"

StoreKnown ==
  /\ phase = "storing" /\ HasOffer /\ Offer.what \in DOMAIN metadata
  /\ blobs' = blobs \cup {Offer.what}
  /\ Offered(metadata[Offer.what])
  /\ UNCHANGED <<metadata, versions, claims, snapshots, chain, roots, session, applied, runs, unsaid>>

StoreNewUnwritten ==
  /\ phase = "storing" /\ HasOffer /\ Offer.what \notin DOMAIN metadata
  /\ phase' = "logging"
  /\ UNCHANGED <<stored, session, position, candidates, applied, runs, unsaid>>

StoreNew ==
  /\ phase = "storing" /\ HasOffer /\ Offer.what \notin DOMAIN metadata
  /\ blobs' = blobs \cup {Offer.what}
  /\ phase' = "logging"
  /\ UNCHANGED <<metadata, versions, claims, snapshots, chain, roots, session, position,
                 candidates, applied, runs, unsaid>>

LogIngestion ==
  /\ phase = "logging"
  /\ Emit(Ingested(Offer))
  /\ phase' = "describing"
  /\ UNCHANGED <<blobs, metadata, versions, claims, snapshots, roots, session, position,
                 candidates, applied, runs, unsaid>>

Describe ==
  /\ phase = "describing"
  /\ metadata' = WithRow(metadata, Offer.what, Offer.seen)
  /\ Offered(Offer.seen)
  /\ UNCHANGED <<blobs, versions, claims, snapshots, chain, roots, session, applied, runs, unsaid>>

-----------------------------------------------------------------------------
(* snapshots/builder.py *)

VisibleEarly(s) == {c.what : c \in candidates}
Visible(s) == {c.what : c \in {x \in candidates : x.seen <= Cutoff(s)}}

\* Complete when every active instrument has a price of this very session.
Status(universe, evidence, s) ==
  LET active == {i \in DOMAIN universe : universe[i].status = "ACTIVE"}
      fresh == {e.about : e \in {x \in evidence : x.kind = "PRICE_BAR" /\ x.asOf = Cutoff(s)}}
  IN  CASE active \cap fresh = {} -> "INVALID"
        [] active \cap fresh # {} /\ active \subseteq fresh -> "COMPLETE"
        [] OTHER -> "DEGRADED"

Manifest(s) ==
  LET universe == Search(Cutoff(s))
  IN  [universe |-> universe, evidence |-> Visible(s), status |-> Status(universe, Visible(s), s)]

\* The manifest hash covers universe and evidence, and the status follows from them.
SameManifest(s) == snapshots[s] = Manifest(s)

Freeze ==
  /\ phase = "storing" /\ ~HasOffer /\ session \notin DOMAIN snapshots
  /\ snapshots' = WithRow(snapshots, session, Manifest(session))
  /\ Emit(Event("SNAPSHOT_BUILT", Cutoff(session), session))
  /\ phase' = "reference"
  /\ UNCHANGED <<blobs, metadata, versions, claims, roots, session, position, candidates,
                 applied, runs, unsaid>>

ReturnFrozen ==
  /\ phase = "storing" /\ ~HasOffer /\ session \in DOMAIN snapshots /\ SameManifest(session)
  /\ phase' = "reference"
  /\ UNCHANGED <<stored, session, position, candidates, applied, runs, unsaid>>

\* IntegrityError: the study cannot go on.
RefuseDivergent ==
  /\ phase = "storing" /\ ~HasOffer /\ session \in DOMAIN snapshots /\ ~SameManifest(session)
  /\ phase' = "refused"
  /\ UNCHANGED <<stored, session, position, candidates, applied, runs, unsaid>>

-----------------------------------------------------------------------------
(* execution/corporate.py, reference data *)

\* A snapshot is cumulative: only what takes effect at its own cutoff counts.
EffectiveActions ==
  {e \in snapshots[session].evidence : e.kind = "CORPORATE_ACTION" /\ e.asOf = Cutoff(session)}

Unclaimed == {e \in EffectiveActions : e.detail = "TICKER_CHANGE" /\ e \notin claims \cup applied}

ApplyChangeUnclaimed ==
  /\ phase = "reference"
  /\ \E e \in Unclaimed :
       /\ versions' = WithTicker(e.about, "second", Cutoff(session))
       /\ applied' = applied \cup {e}
  /\ UNCHANGED <<blobs, metadata, claims, snapshots, chain, roots, session, phase, position,
                 candidates, runs, unsaid>>

\* The claim is flushed, and committed by the version it leads to.
ApplyChange ==
  /\ phase = "reference"
  /\ \E e \in Unclaimed :
       /\ versions' = WithTicker(e.about, "second", Cutoff(session))
       /\ applied' = applied \cup {e}
       /\ claims' = IF versions' = versions THEN claims ELSE claims \cup applied'
  /\ UNCHANGED <<blobs, metadata, snapshots, chain, roots, session, phase, position, candidates,
                 runs, unsaid>>

AnnounceChanges ==
  /\ phase = "reference" /\ Unclaimed = {} /\ applied # {}
  /\ Emit(Event("CORPORATE_ACTIONS_APPLIED", Cutoff(session), applied))
  /\ claims' = claims \cup applied
  /\ applied' = {}
  /\ phase' = "filling"
  /\ UNCHANGED <<blobs, metadata, versions, snapshots, roots, session, position, candidates,
                 runs, unsaid>>

NothingToAnnounce ==
  /\ phase = "reference" /\ Unclaimed = {} /\ applied = {}
  /\ phase' = "filling"
  /\ UNCHANGED <<stored, session, position, candidates, applied, runs, unsaid>>

-----------------------------------------------------------------------------
(* The rest of the cycle, as far as its events go *)

Decided(s) == Event("DECISION_BUNDLE", Cutoff(s), s)
Missed(s) == Event("CONDITION_MISSING", Cutoff(s), s)

Fill ==
  /\ phase = "filling" /\ Recorded(Decided(session - 1))
  /\ Emit(Event("ORDER_FILLED", Cutoff(session), session))
  /\ phase' = "deciding"
  /\ UNCHANGED <<blobs, metadata, versions, claims, snapshots, roots, session, position,
                 candidates, applied, runs, unsaid>>

NothingToFill ==
  /\ phase = "filling" /\ ~Recorded(Decided(session - 1))
  /\ phase' = "deciding"
  /\ UNCHANGED <<stored, session, position, candidates, applied, runs, unsaid>>

DecideAfresh ==
  /\ phase = "deciding"
  /\ Emit(Decided(session)) \/ Emit(Missed(session))
  /\ phase' = "over"
  /\ UNCHANGED <<blobs, metadata, versions, claims, snapshots, roots, session, position,
                 candidates, applied, runs, unsaid>>

\* What is sealed is loaded; otherwise the model answers or cannot be reached.
Decide ==
  /\ phase = "deciding"
  /\ \/ Emit(Decided(session))
     \/ ~Recorded(Decided(session)) /\ Emit(Missed(session))
  /\ phase' = "over"
  /\ UNCHANGED <<blobs, metadata, versions, claims, snapshots, roots, session, position,
                 candidates, applied, runs, unsaid>>

NextSession ==
  /\ phase = "over" /\ session < LAST
  /\ session' = session + 1 /\ position' = 1 /\ phase' = "storing"
  /\ UNCHANGED <<stored, candidates, applied, runs, unsaid>>

\* The last session, or the last one asked for.
Finish ==
  /\ phase = "over"
  /\ phase' = "finished"
  /\ UNCHANGED <<stored, session, position, candidates, applied, runs, unsaid>>

\* The process dies.  Claims that led to no version go with it.
Stop ==
  /\ phase \notin AtRest
  /\ phase' = "stopped" /\ applied' = {}
  /\ unsaid' = unsaid \cup (applied \cap claims)
  /\ UNCHANGED <<stored, session, position, candidates, runs>>

RunAgain ==
  /\ phase \in AtRest /\ runs < MAX_RUNS
  /\ runs' = runs + 1
  /\ session' = 1 /\ phase' = "opening" /\ position' = 1 /\ candidates' = {} /\ applied' = {}
  /\ UNCHANGED <<stored, unsaid>>

-----------------------------------------------------------------------------
(* By hand, between two runs *)

Latest == IF snapshots = <<>> THEN 0 ELSE CHOOSE s \in DOMAIN snapshots : s + 1 \notin DOMAIN snapshots

\* record_status_change, as of now: after the last snapshot there is.
RecordStatus(i, status) ==
  /\ phase \in AtRest /\ i \in DOMAIN versions /\ Current(i).status # status
  /\ Cardinality({k \in DOMAIN versions[i] : versions[i][k].from % 2 = 1}) < MAX_STATUS
  /\ versions' = WithStatus(i, status, Cutoff(Latest) + 1)
  /\ UNCHANGED <<blobs, metadata, claims, snapshots, chain, roots, process, runs, unsaid>>

\* audit/roots.py
EventsOfDay(day) == {k \in DOMAIN chain : Day(chain[k].at) = day}

\* The chain only grows, so its last event of the day stands for all before it.
Root(day) ==
  LET rows == EventsOfDay(day)
      first == CHOOSE k \in rows : \A j \in rows : k <= j
      last == CHOOSE k \in rows : \A j \in rows : j <= k
  IN  [first |-> first, last |-> last, count |-> Cardinality(rows), head |-> chain[last]]

\* Sealing again does nothing, or is refused: either way the root stays.
Seal(day) ==
  /\ phase \in AtRest /\ EventsOfDay(day) # {} /\ day \notin DOMAIN roots
  /\ roots' = WithRow(roots, day, Root(day))
  /\ UNCHANGED <<blobs, metadata, versions, claims, snapshots, chain, process, runs, unsaid>>

\* verify_all fails on a day with another root, or without events.
Diverges(day) == EventsOfDay(day) = {} \/ Root(day) # roots[day]

Rested == phase \in AtRest /\ runs = MAX_RUNS /\ UNCHANGED vars

Next ==
  \/ Admit \/ Opened
  \/ StoreKnown \/ StoreNew \/ LogIngestion \/ Describe
  \/ Freeze \/ ReturnFrozen \/ RefuseDivergent
  \/ ApplyChange \/ AnnounceChanges \/ NothingToAnnounce
  \/ Fill \/ NothingToFill \/ Decide \/ NextSession \/ Finish \/ Stop \/ RunAgain
  \/ (\E i \in Instruments, status \in {"ACTIVE", "SUSPENDED"} : RecordStatus(i, status))
  \/ (\E day \in Session : Seal(day))
  \/ Rested

Spec == Init /\ [][Next]_vars

-----------------------------------------------------------------------------
(* Properties *)

\* What is stored has the shape the tables give it.
TypeOK ==
  /\ phase \in AtRest \cup {"opening", "storing", "logging", "describing", "reference",
                           "filling", "deciding", "over"}
  /\ session \in Session /\ runs \in 1..MAX_RUNS
  /\ DOMAIN metadata \subseteq blobs
  /\ \A i \in DOMAIN versions : \A k \in 2..Len(versions[i]) :
       versions[i][k] # versions[i][k - 1]
  /\ DOMAIN snapshots \in {1..s : s \in 0..LAST}

OfferedBy(s) == UNION {ToSet(Feed(t)) : t \in 1..s}

\* builder.build: a snapshot holds everything the sessions up to its own offered that
\* had been seen by its cutoff and nothing else, a late item entering with the next
\* one; and its universe knows a ticker change only of a session before it.
PointInTime ==
  \A s \in DOMAIN snapshots :
    /\ snapshots[s].evidence = {offer.what : offer \in {o \in OfferedBy(s) : o.seen <= Cutoff(s)}}
    /\ DOMAIN snapshots[s].universe = Instruments
    /\ \A i \in Instruments :
         snapshots[s].universe[i].ticker =
           IF i = ALPHA /\ s > TICKER_CHANGE THEN "second" ELSE "first"

\* IngestionPipeline._ingest: wherever a run was stopped, every described blob and
\* every member of a snapshot goes back to exactly one ingestion event, which says
\* when it was first seen; at most one event, the last a stop left, is without a
\* description, and none of what the sessions past offered.
IngestionExplained ==
  LET logged == {k \in DOMAIN chain : chain[k].type = "DATA_INGESTED"}
      of(what) == {k \in logged : chain[k].of.what = what}
  IN  /\ \A what \in DOMAIN metadata :
           /\ Cardinality(of(what)) = 1
           /\ \A k \in of(what) : chain[k].of.seen = metadata[what]
      /\ \A s \in DOMAIN snapshots : snapshots[s].evidence \subseteq DOMAIN metadata
      /\ Cardinality({chain[k].of.what : k \in logged} \ DOMAIN metadata) <= 1
      /\ phase \in {"reference", "filling", "deciding", "over", "finished"} =>
           \A offer \in OfferedBy(session) : offer.what \in DOMAIN metadata

\* A repeated run is refused over nothing but a snapshot whose own ticker change has
\* taken effect at its cutoff: late data, new sessions, a stop between any two commits
\* or a status recorded since leave every rebuilt manifest as it was.
RefusedOnlyByOwnChange ==
  phase = "refused" =>
    /\ session = TICKER_CHANGE
    /\ Search(Cutoff(session))[ALPHA].ticker # snapshots[session].universe[ALPHA].ticker
    /\ Visible(session) = snapshots[session].evidence

\* _claim and _announce: a ticker changes with its claim and never twice, and every
\* change is announced except one that a stop caught between version and event,
\* which no later run makes good.
ChangesAnnounced ==
  LET announced == UNION {chain[k].of : k \in {j \in DOMAIN chain :
                            chain[j].type = "CORPORATE_ACTIONS_APPLIED"}}
      renamed == {i \in DOMAIN versions : Current(i).ticker = "second"}
  IN  /\ claims = announced \cup unsaid \cup (applied \cap claims)
      /\ announced \cap unsaid = {}
      /\ renamed = {e.about : e \in claims}

\* DailyRootService: a sealed root stops reproducing exactly when its day gained an
\* event, and a day sealed after its session was over gains none from a repeated run
\* but what follows from a decision that had been missing.
SealedDaysHold ==
  \A day \in DOMAIN roots :
    LET late == {k \in EventsOfDay(day) : k > roots[day].last}
        over == \E k \in 1..roots[day].last : chain[k] \in {Decided(day), Missed(day)}
    IN  /\ Diverges(day) <=> late # {}
        /\ over => \A k \in late : /\ chain[k].type \in {"DECISION_BUNDLE", "ORDER_FILLED"}
                                  /\ \E s \in 1..day : Recorded(Missed(s))

\* builder.py:174-180: calling build again with an unchanged candidate set is "safe to
\* retry after an interrupted cycle".
RetriesAreSafe == phase # "refused"
=============================================================================
