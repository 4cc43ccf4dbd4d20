--------------------------- MODULE Snapshots_proofs ---------------------------
(***************************************************************************)
(* For any world, any number of sessions and runs, wherever each run is    *)
(* stopped: a ticker changes with its claim, once, and is announced unless *)
(* a stop came between; what was ingested is explained by its event; what  *)
(* was frozen is what could be known at its cutoff, and a repeated run     *)
(* rebuilds it; and a sealed day stays as it was sealed.                   *)
(***************************************************************************)
EXTENDS Snapshots, Order_proofs

IsSequence(s) == \E S : s \in Seq(S)

\* The one change of a ticker that the world has.
Change == Content("CORPORATE_ACTION", ALPHA, Cutoff(TICKER_CHANGE), "TICKER_CHANGE")
IsSound(what) == what.detail = "TICKER_CHANGE" => what = Change

\* What is offered is determined by its content: so is the instant it is first seen.
OfferOf(what) ==
  [what |-> what, seen |-> IF what.detail = "late" THEN what.asOf + 1 ELSE what.asOf]

Announced ==
  UNION {chain[k].of : k \in {j \in DOMAIN chain : chain[j].type = "CORPORATE_ACTIONS_APPLIED"}}
Renamed == {i \in DOMAIN versions : Current(i).ticker = "second"}

VersionsFit ==
  /\ DOMAIN versions \subseteq Instruments
  /\ \A i \in DOMAIN versions : IsSequence(versions[i]) /\ versions[i] # << >>
  /\ phase \in {"storing", "logging", "describing", "reference", "filling", "deciding", "over"}
       => Instruments \subseteq DOMAIN versions

EvidenceFits ==
  /\ session \in Session /\ position \in Nat \ {0}
  /\ phase \in {"logging", "describing"} => HasOffer
  /\ \A c \in candidates : IsSound(c.what)
  /\ \A s \in DOMAIN snapshots : \A what \in snapshots[s].evidence : IsSound(what)
  /\ phase = "reference" => session \in DOMAIN snapshots

\* A change is claimed, and then either announced, or lost with a stop, or about
\* to be announced by the process that made it.
ClaimsFit ==
  /\ claims \subseteq {Change} /\ applied \subseteq claims
  /\ claims = Announced \cup unsaid \cup applied
  /\ Announced \cap unsaid = {} /\ applied \cap (Announced \cup unsaid) = {}
  /\ applied # {} => phase = "reference"
  /\ Renamed = {e.about : e \in claims}

EvidenceInv == IsSequence(chain) /\ VersionsFit /\ EvidenceFits /\ ClaimsFit

-----------------------------------------------------------------------------
(* What is offered, and what the stores do with it. *)

LEMMA FeedParts ==
  ASSUME NEW s
  PROVE  \E S : /\ {FetchPriceBars(s), FetchNews(s), FetchMacroRecords(s), FetchFxRates(s),
                     FetchCorporateActions(s)} \subseteq Seq(S)
                /\ \A o \in S : IsSound(o.what) /\ o = OfferOf(o.what) /\ o.what.asOf = Cutoff(s)
<1> DEFINE kinds == {"PRICE_BAR", "NEWS_ITEM", "MACRO_RECORD", "FX_RATE", "CORPORATE_ACTION"}
           about == {ALPHA, BETA, "inflation", "EUR_USD"}
           details == {"halved", "full", "late", "update", "revised", "first", "rate",
                       "CASH_DIVIDEND", "STOCK_SPLIT", "TICKER_CHANGE"}
           whats == [kind : kinds, about : about, asOf : {Cutoff(s)}, detail : details]
           S == {o \in [what : whats, seen : {Cutoff(s), Cutoff(s) + 1}] :
                   IsSound(o.what) /\ o = OfferOf(o.what) /\ o.what.asOf = Cutoff(s)}
<1>0. ASSUME NEW what \in whats, NEW seen \in {Cutoff(s), Cutoff(s) + 1},
             IsSound(what), [what |-> what, seen |-> seen] = OfferOf(what), what.asOf = Cutoff(s)
      PROVE  [what |-> what, seen |-> seen] \in S
  BY <1>0
<1>1. ASSUME NEW kind \in kinds, NEW of \in about, NEW detail \in details \ {"TICKER_CHANGE", "late"}
      PROVE  OnTime(Content(kind, of, Cutoff(s), detail)) \in S
  <2> DEFINE what == Content(kind, of, Cutoff(s), detail)
  <2>1. /\ what \in whats /\ what.asOf = Cutoff(s) /\ what.detail = detail
    BY DEF Content
  <2>2. OnTime(what) = [what |-> what, seen |-> Cutoff(s)] /\ OfferOf(what) = OnTime(what)
    BY <2>1 DEF OnTime, OfferOf
  <2>3. IsSound(what)
    BY <2>1 DEF IsSound
  <2> HIDE DEF what, whats, S
  <2>4. OnTime(what) \in S
    BY <1>0, <2>1, <2>2, <2>3
  <2> QED
    BY <2>4 DEF what
<1>2. FetchPriceBars(s) \in Seq(S)
  <2> HIDE DEF S
  <2>1. \A of \in about, detail \in {"halved", "full"} :
          OnTime(Content("PRICE_BAR", of, Cutoff(s), detail)) \in S
    BY <1>1
  <2> QED
    BY <2>1 DEF FetchPriceBars
<1>3. FetchNews(s) \in Seq(S)
  <2>1. LateNewsItem(s) \in S
    <3> DEFINE what == Content("NEWS_ITEM", ALPHA, Cutoff(s), "late")
    <3>1. what \in whats /\ what.asOf = Cutoff(s) /\ what.detail = "late"
      BY DEF Content
    <3>2. OfferOf(what) = LateNewsItem(s) /\ LateNewsItem(s) = [what |-> what, seen |-> Cutoff(s) + 1]
      BY <3>1 DEF OfferOf, LateNewsItem
    <3>3. IsSound(what)
      BY <3>1 DEF IsSound
    <3> HIDE DEF what, whats, S
    <3> QED
      BY <1>0, <3>1, <3>2, <3>3
  <2>2. OnTime(Content("NEWS_ITEM", BETA, Cutoff(s), "update")) \in S
    BY <1>1
  <2> HIDE DEF S
  <2> QED
    BY <2>1, <2>2 DEF FetchNews
<1>4. FetchMacroRecords(s) \in Seq(S)
  <2> HIDE DEF S
  <2>1. \A detail \in {"revised", "first"} :
          OnTime(Content("MACRO_RECORD", "inflation", Cutoff(s), detail)) \in S
    BY <1>1
  <2> QED
    BY <2>1 DEF FetchMacroRecords
<1>5. FetchFxRates(s) \in Seq(S)
  BY <1>1 DEF FetchFxRates
<1>6. FetchCorporateActions(s) \in Seq(S)
  <2>1. Action(s, "CASH_DIVIDEND") \in S /\ Action(s, "STOCK_SPLIT") \in S
    BY <1>1 DEF Action
  <2>2. s = TICKER_CHANGE => Action(s, "TICKER_CHANGE") \in S
    <3> SUFFICES ASSUME s = TICKER_CHANGE PROVE Action(s, "TICKER_CHANGE") \in S
      OBVIOUS
    <3>1. Change \in whats /\ Change.asOf = Cutoff(s) /\ Change.detail = "TICKER_CHANGE"
      BY DEF Content, Change
    <3>2. /\ Action(s, "TICKER_CHANGE") = [what |-> Change, seen |-> Cutoff(s)]
          /\ OfferOf(Change) = Action(s, "TICKER_CHANGE")
      BY <3>1 DEF OnTime, OfferOf, Action, Change
    <3> HIDE DEF whats, S
    <3> QED
      BY <1>0, <3>1, <3>2 DEF IsSound
  <2> HIDE DEF S
  <2> QED
    BY <2>1, <2>2 DEF FetchCorporateActions
<1>7. \A o \in S : IsSound(o.what) /\ o = OfferOf(o.what) /\ o.what.asOf = Cutoff(s)
  OBVIOUS
<1> HIDE DEF S
<1> QED
  BY <1>2, <1>3, <1>4, <1>5, <1>6, <1>7

LEMMA FeedIsSound ==
  ASSUME NEW s
  PROVE  /\ DOMAIN Feed(s) = 1..Len(Feed(s)) /\ Len(Feed(s)) \in Nat
         /\ \A k \in DOMAIN Feed(s) : /\ IsSound(Feed(s)[k].what)
                                     /\ Feed(s)[k] = OfferOf(Feed(s)[k].what)
                                     /\ Feed(s)[k].what.asOf = Cutoff(s)
<1>1. PICK S : /\ {FetchPriceBars(s), FetchNews(s), FetchMacroRecords(s), FetchFxRates(s),
                    FetchCorporateActions(s)} \subseteq Seq(S)
               /\ \A o \in S : IsSound(o.what) /\ o = OfferOf(o.what) /\ o.what.asOf = Cutoff(s)
  BY FeedParts
<1>2. Feed(s) \in Seq(S)
  BY <1>1 DEF Feed
<1> QED
  BY <1>1, <1>2

\* An event of another kind announces nothing.
LEMMA EmitSilent ==
  ASSUME NEW event, Emit(event), IsSequence(chain), event.type # "CORPORATE_ACTIONS_APPLIED"
  PROVE  IsSequence(chain') /\ Announced' = Announced
<1>1. PICK S : chain \in Seq(S)
  BY DEF IsSequence
<1>2. CASE chain' = chain
  BY <1>1, <1>2 DEF Announced, IsSequence
<1>3. CASE chain' = Append(chain, event)
  <2>1. chain \in Seq(S \cup {event}) /\ chain' \in Seq(S \cup {event})
    BY <1>1, <1>3
  <2>2. /\ DOMAIN chain = 1..Len(chain) /\ Len(chain) \in Nat
        /\ DOMAIN chain' = 1..(Len(chain) + 1)
        /\ chain'[Len(chain) + 1] = event
        /\ \A n \in 1..Len(chain) : chain'[n] = chain[n]
    BY <1>3, <2>1
  <2>3. {j \in DOMAIN chain' : chain'[j].type = "CORPORATE_ACTIONS_APPLIED"}
          = {j \in DOMAIN chain : chain[j].type = "CORPORATE_ACTIONS_APPLIED"}
    BY <2>2
  <2> QED
    BY <2>1, <2>2, <2>3 DEF Announced, IsSequence
<1> QED
  BY <1>2, <1>3 DEF Emit

LEMMA EmitAnnounces ==
  ASSUME NEW event, Emit(event), IsSequence(chain), event.type = "CORPORATE_ACTIONS_APPLIED"
  PROVE  IsSequence(chain') /\ Announced' = Announced \cup event.of
<1>1. PICK S : chain \in Seq(S)
  BY DEF IsSequence
<1>2. CASE chain' = chain /\ Recorded(event)
  <2>1. PICK k \in DOMAIN chain : chain[k] = event
    BY <1>1, <1>2 DEF Recorded, Contains
  <2> QED
    BY <1>1, <1>2, <2>1 DEF Announced, IsSequence
<1>3. CASE chain' = Append(chain, event)
  <2>1. chain \in Seq(S \cup {event}) /\ chain' \in Seq(S \cup {event})
    BY <1>1, <1>3
  <2>2. /\ DOMAIN chain = 1..Len(chain) /\ Len(chain) \in Nat
        /\ DOMAIN chain' = 1..(Len(chain) + 1)
        /\ chain'[Len(chain) + 1] = event
        /\ \A n \in 1..Len(chain) : chain'[n] = chain[n]
    BY <1>3, <2>1
  <2>3. {j \in DOMAIN chain' : chain'[j].type = "CORPORATE_ACTIONS_APPLIED"}
          = {j \in DOMAIN chain : chain[j].type = "CORPORATE_ACTIONS_APPLIED"} \cup {Len(chain) + 1}
    BY <2>2
  <2> QED
    BY <2>1, <2>2, <2>3 DEF Announced, IsSequence
<1> QED
  BY <1>2, <1>3 DEF Emit
-----------------------------------------------------------------------------
LEMMA EvidenceInit == Init => EvidenceInv
<1> SUFFICES ASSUME Init PROVE EvidenceInv
  OBVIOUS
<1> USE DEF Init
<1>1. IsSequence(chain) /\ DOMAIN chain = {} /\ DOMAIN versions = {} /\ DOMAIN snapshots = {}
  BY DEF IsSequence
<1>2. Announced = {} /\ Renamed = {}
  BY <1>1 DEF Announced, Renamed
<1> QED
  BY <1>1, <1>2, SnapshotsAssumption DEF EvidenceInv, VersionsFit, EvidenceFits, ClaimsFit, Session

\* What a step may do to the versions: admit an instrument under its first ticker,
\* add a version with the ticker there was, or change the ticker.
LEMMA VersionAdded ==
  ASSUME VersionsFit, NEW i \in DOMAIN versions, NEW v,
         versions' = [versions EXCEPT ![i] = Append(@, v)]
  PROVE  /\ DOMAIN versions' = DOMAIN versions
         /\ \A j \in DOMAIN versions : IsSequence(versions'[j]) /\ versions'[j] # << >>
         /\ Renamed' = IF v.ticker = "second" THEN Renamed \cup {i} ELSE Renamed \ {i}
<1>1. PICK S : versions[i] \in Seq(S)
  BY DEF VersionsFit, IsSequence
<1>2. Append(versions[i], v) \in Seq(S \cup {v}) /\ Append(versions[i], v) # << >>
      /\ Append(versions[i], v)[Len(Append(versions[i], v))] = v
  <2>1. versions[i] \in Seq(S \cup {v})
    BY <1>1
  <2> QED
    BY <2>1
<1>3. /\ DOMAIN versions' = DOMAIN versions
      /\ versions'[i] = Append(versions[i], v)
      /\ \A j \in DOMAIN versions : j # i => versions'[j] = versions[j]
  OBVIOUS
<1>4. \A j \in DOMAIN versions : IsSequence(versions'[j]) /\ versions'[j] # << >>
  BY <1>2, <1>3 DEF VersionsFit, IsSequence
<1>5. Current(i)' = v /\ \A j \in DOMAIN versions : j # i => Current(j)' = Current(j)
  BY <1>2, <1>3 DEF Current
<1> QED
  BY <1>3, <1>4, <1>5 DEF Renamed

LEMMA VersionsStep ==
  ASSUME EvidenceInv, Next, ~ApplyChange
  PROVE  VersionsFit' /\ Renamed' = Renamed
<1> USE DEF EvidenceInv
<1>1. ASSUME versions' = versions,
             phase' \in {"opening", "stopped", "refused", "finished"}
               \/ Instruments \subseteq DOMAIN versions
      PROVE  VersionsFit' /\ Renamed' = Renamed
  BY <1>1 DEF VersionsFit, Renamed, Current
<1>2. CASE Admit
  <2> DEFINE row == <<Version("first", "ACTIVE", 0)>>
  <2>1. phase' = phase /\ phase = "opening"
    BY <1>2 DEF Admit, process
  <2>2. PICK i \in Instruments : i \notin DOMAIN versions /\ versions' = WithRow(versions, i, row)
    BY <1>2 DEF Admit, NotAdmitted
  <2>3. IsSequence(row) /\ row # << >> /\ row[Len(row)].ticker = "first"
    <3>1. row \in Seq({Version("first", "ACTIVE", 0)})
      OBVIOUS
    <3> QED
      BY <3>1 DEF IsSequence, Version
  <2> HIDE DEF row
  <2>4. /\ DOMAIN versions' = DOMAIN versions \cup {i}
        /\ \A j \in DOMAIN versions : versions'[j] = versions[j]
        /\ versions'[i] = row
    BY <2>2 DEF WithRow
  <2>5. Current(i)'.ticker = "first" /\ \A j \in DOMAIN versions : Current(j)' = Current(j)
    BY <2>3, <2>4 DEF Current
  <2>6. Renamed' = Renamed
    BY <2>2, <2>4, <2>5 DEF Renamed
  <2> QED
    BY <2>1, <2>2, <2>3, <2>4, <2>6 DEF VersionsFit
<1>3. ASSUME NEW i \in Instruments, NEW status, RecordStatus(i, status)
      PROVE  VersionsFit' /\ Renamed' = Renamed
  <2> DEFINE v == Version(Current(i).ticker, status, Cutoff(Latest) + 1)
  <2>1. /\ i \in DOMAIN versions /\ phase' = phase /\ phase \in AtRest
        /\ versions' = [versions EXCEPT ![i] = Append(@, v)]
    BY <1>3 DEF RecordStatus, WithStatus, process
  <2>2. v.ticker = Current(i).ticker
    BY DEF Version
  <2> HIDE DEF v
  <2>3. /\ DOMAIN versions' = DOMAIN versions
        /\ \A j \in DOMAIN versions : IsSequence(versions'[j]) /\ versions'[j] # << >>
        /\ Renamed' = IF v.ticker = "second" THEN Renamed \cup {i} ELSE Renamed \ {i}
    BY <2>1, VersionAdded
  <2>4. Renamed' = Renamed
    BY <2>1, <2>2, <2>3 DEF Renamed
  <2> QED
    BY <2>1, <2>3, <2>4 DEF VersionsFit, AtRest
<1>4. CASE Opened \/ RunAgain
  <2>1. Opened => Instruments \subseteq DOMAIN versions
    BY DEF Opened, NotAdmitted
  <2> QED
    BY <1>1, <1>4, <2>1 DEF Opened, RunAgain, stored
<1>5. CASE StoreKnown \/ StoreNew \/ LogIngestion \/ Describe
  BY <1>1, <1>5 DEF StoreKnown, StoreNew, LogIngestion, Describe, VersionsFit, Offered
<1>6. CASE Freeze \/ ReturnFrozen \/ RefuseDivergent \/ AnnounceChanges \/ NothingToAnnounce
  BY <1>1, <1>6 DEF Freeze, ReturnFrozen, RefuseDivergent, AnnounceChanges, NothingToAnnounce,
                    VersionsFit, stored
<1>7. CASE Fill \/ NothingToFill \/ Decide \/ NextSession \/ Finish \/ Stop
  BY <1>1, <1>7 DEF Fill, NothingToFill, Decide, NextSession, Finish, Stop, VersionsFit, stored
<1>8. CASE (\E day \in Session : Seal(day)) \/ Rested
  <2>1. versions' = versions /\ phase' = phase /\ phase \in AtRest
    BY <1>8 DEF Seal, Rested, vars, stored, process
  <2> QED
    BY <1>1, <2>1 DEF AtRest
<1> QED
  BY <1>2, <1>3, <1>4, <1>5, <1>6, <1>7, <1>8 DEF Next

LEMMA EvidenceStep ==
  ASSUME EvidenceInv, Next
  PROVE  EvidenceFits'
<1> USE DEF EvidenceInv
<1>1. ASSUME session' = session, position' = position, snapshots' = snapshots,
             candidates' = candidates,
             phase' \in {"logging", "describing"} => HasOffer,
             phase' = "reference" => phase = "reference"
      PROVE  EvidenceFits'
  BY <1>1 DEF EvidenceFits, HasOffer
<1>2. CASE StoreKnown \/ Describe
  <2>1. /\ session' = session /\ snapshots' = snapshots /\ phase' = "storing"
        /\ position' = position + 1
        /\ \E seen : candidates' = candidates \cup {[what |-> Offer.what, seen |-> seen]}
    BY <1>2 DEF StoreKnown, Describe, Offered
  <2>2. HasOffer
    BY <1>2 DEF StoreKnown, Describe, EvidenceFits
  <2>3. IsSound(Offer.what)
    BY <2>2, FeedIsSound DEF Offer, HasOffer, EvidenceFits
  <2> QED
    BY <2>1, <2>3 DEF EvidenceFits
<1>3. CASE Freeze
  <2>1. /\ session' = session /\ candidates' = candidates /\ position' = position
        /\ session \notin DOMAIN snapshots /\ phase' = "reference"
        /\ snapshots' = WithRow(snapshots, session, Manifest(session))
    BY <1>3 DEF Freeze
  <2>2. \A what \in Manifest(session).evidence : IsSound(what)
    BY DEF Manifest, Visible, EvidenceFits
  <2>3. /\ DOMAIN snapshots' = DOMAIN snapshots \cup {session}
        /\ \A s \in DOMAIN snapshots : snapshots'[s] = snapshots[s]
        /\ snapshots'[session] = Manifest(session)
    BY <2>1 DEF WithRow
  <2> QED
    BY <2>1, <2>2, <2>3 DEF EvidenceFits
<1>4. CASE ReturnFrozen
  BY <1>4 DEF ReturnFrozen, stored, EvidenceFits
<1>5. CASE NextSession \/ RunAgain
  BY <1>5, SnapshotsAssumption DEF NextSession, RunAgain, stored, EvidenceFits, Session
<1>6. CASE StoreNew \/ LogIngestion
  BY <1>1, <1>6 DEF StoreNew, LogIngestion, EvidenceFits
<1>7. CASE RefuseDivergent \/ ApplyChange \/ AnnounceChanges \/ NothingToAnnounce
  BY <1>1, <1>7 DEF RefuseDivergent, ApplyChange, AnnounceChanges, NothingToAnnounce, stored
<1>8. CASE Admit \/ Opened \/ Fill \/ NothingToFill \/ Decide \/ Finish \/ Stop
  <2>1. /\ session' = session /\ position' = position /\ snapshots' = snapshots
        /\ candidates' = candidates
    BY <1>8 DEF Admit, Opened, Fill, NothingToFill, Decide, Finish, Stop, stored, process
  <2>2. phase' \in {"opening", "storing", "deciding", "over", "finished", "stopped"}
    BY <1>8 DEF Admit, Opened, Fill, NothingToFill, Decide, Finish, Stop, process
  <2> QED
    BY <1>1, <2>1, <2>2
<1>9. CASE (\E i \in Instruments, status \in {"ACTIVE", "SUSPENDED"} : RecordStatus(i, status))
           \/ (\E day \in Session : Seal(day)) \/ Rested
  <2>1. snapshots' = snapshots /\ UNCHANGED process
    BY <1>9 DEF RecordStatus, Seal, Rested, vars, stored
  <2> QED
    BY <1>1, <2>1 DEF process, EvidenceFits
<1> QED
  BY <1>2, <1>3, <1>4, <1>5, <1>6, <1>7, <1>8, <1>9 DEF Next

\* The chain, the claims and who was renamed.
LEMMA ClaimsStep ==
  ASSUME EvidenceInv, Next
  PROVE  IsSequence(chain') /\ ClaimsFit' /\ (ApplyChange => VersionsFit')
<1> USE DEF EvidenceInv
<1>1. ASSUME IsSequence(chain'), Announced' = Announced, ~ApplyChange,
             claims' = claims, applied = {}, applied' = {}, unsaid' = unsaid
      PROVE  IsSequence(chain') /\ ClaimsFit' /\ (ApplyChange => VersionsFit')
  BY <1>1, VersionsStep DEF ClaimsFit
<1>2. chain' = chain => Announced' = Announced
  BY DEF Announced
<1>3. ASSUME NEW event, Emit(event), event.type # "CORPORATE_ACTIONS_APPLIED", ~ApplyChange,
             claims' = claims, applied = {}, applied' = {}, unsaid' = unsaid
      PROVE  IsSequence(chain') /\ ClaimsFit' /\ (ApplyChange => VersionsFit')
  BY <1>1, <1>3, EmitSilent
<1>4. CASE ApplyChange
  <2>1. PICK e \in Unclaimed :
          /\ versions' = WithTicker(e.about, "second", Cutoff(session))
          /\ applied' = applied \cup {e}
          /\ claims' = IF versions' = versions THEN claims ELSE claims \cup applied'
    BY <1>4 DEF ApplyChange
  <2>2. chain' = chain /\ unsaid' = unsaid /\ phase' = phase /\ phase = "reference"
    BY <1>4 DEF ApplyChange
  <2>3. e = Change /\ e \notin claims /\ e \notin applied
    BY <2>1, <2>2 DEF Unclaimed, EffectiveActions, EvidenceFits, IsSound
  <2>4. claims = {} /\ applied = {} /\ Announced = {} /\ unsaid = {} /\ Renamed = {}
    BY <2>3 DEF ClaimsFit
  <2>5. e.about = ALPHA /\ ALPHA \in DOMAIN versions
    BY <2>2, <2>3 DEF Change, Content, VersionsFit, Instruments
  <2> DEFINE v == Version("second", Current(ALPHA).status, Cutoff(session))
  <2>6. Current(ALPHA).ticker # "second"
    BY <2>4, <2>5 DEF Renamed
  <2>7. versions' = [versions EXCEPT ![ALPHA] = Append(@, v)] /\ v.ticker = "second"
    BY <2>1, <2>5, <2>6 DEF WithTicker, Version
  <2> HIDE DEF v
  <2>8. /\ DOMAIN versions' = DOMAIN versions
        /\ \A j \in DOMAIN versions : IsSequence(versions'[j]) /\ versions'[j] # << >>
        /\ Renamed' = {ALPHA}
    BY <2>4, <2>5, <2>7, VersionAdded
  <2>9. versions' # versions
    BY <2>4, <2>8 DEF Renamed, Current
  <2>10. claims' = {e} /\ applied' = {e}
    BY <2>1, <2>4, <2>9
  <2>11. Announced' = {}
    BY <1>2, <2>2, <2>4
  <2>12. ClaimsFit'
    BY <2>2, <2>3, <2>4, <2>5, <2>8, <2>10, <2>11 DEF ClaimsFit, Change
  <2>13. VersionsFit'
    BY <2>2, <2>8 DEF VersionsFit
  <2> QED
    BY <2>2, <2>12, <2>13
<1>5. CASE AnnounceChanges
  <2> DEFINE event == Event("CORPORATE_ACTIONS_APPLIED", Cutoff(session), applied)
  <2>1. /\ Emit(event) /\ claims' = claims \cup applied /\ applied' = {} /\ unsaid' = unsaid
        /\ ~ApplyChange
    BY <1>5 DEF AnnounceChanges, ApplyChange
  <2>2. event.type = "CORPORATE_ACTIONS_APPLIED" /\ event.of = applied
    BY DEF Event
  <2> HIDE DEF event
  <2>3. IsSequence(chain') /\ Announced' = Announced \cup applied
    BY <2>1, <2>2, EmitAnnounces
  <2>4. Renamed' = Renamed
    BY <2>1, VersionsStep
  <2> QED
    BY <2>1, <2>3, <2>4 DEF ClaimsFit
<1>6. CASE Stop
  <2>1. /\ applied' = {} /\ unsaid' = unsaid \cup (applied \cap claims)
        /\ chain' = chain /\ claims' = claims /\ versions' = versions
    BY <1>6 DEF Stop, stored
  <2>2. Announced' = Announced /\ Renamed' = Renamed
    BY <1>2, <2>1 DEF Renamed, Current
  <2>3. ApplyChange => VersionsFit'
    BY <1>6 DEF Stop, ApplyChange, AtRest
  <2> QED
    BY <2>1, <2>2, <2>3 DEF ClaimsFit
<1>7. CASE LogIngestion \/ Freeze \/ Fill \/ Decide
  <2>1. claims' = claims /\ applied = {} /\ applied' = {} /\ unsaid' = unsaid /\ ~ApplyChange
    BY <1>7 DEF LogIngestion, Freeze, Fill, Decide, ApplyChange, ClaimsFit
  <2>2. \E event : Emit(event) /\ event.type # "CORPORATE_ACTIONS_APPLIED"
    BY <1>7 DEF LogIngestion, Freeze, Fill, Decide, Ingested, Decided, Missed, Event
  <2> QED
    BY <1>3, <2>1, <2>2
<1>8. CASE StoreKnown \/ StoreNew \/ Describe
  <2>1. UNCHANGED <<claims, applied, unsaid, chain>> /\ applied = {} /\ ~ApplyChange
    BY <1>8 DEF StoreKnown, StoreNew, Describe, ApplyChange, ClaimsFit
  <2> QED
    BY <1>1, <1>2, <2>1
<1>9. CASE Admit \/ Opened \/ ReturnFrozen \/ RefuseDivergent \/ NothingToAnnounce \/ NothingToFill
           \/ NextSession \/ Finish
  <2>1. UNCHANGED <<claims, applied, unsaid, chain>> /\ applied = {} /\ ~ApplyChange
    BY <1>9 DEF Admit, Opened, ReturnFrozen, RefuseDivergent, NothingToAnnounce, NothingToFill,
                NextSession, Finish, stored, process, ApplyChange, ClaimsFit
  <2> QED
    BY <1>1, <1>2, <2>1
<1>10. CASE RunAgain
  <2>1. UNCHANGED <<claims, unsaid, chain>> /\ applied = {} /\ applied' = {} /\ ~ApplyChange
    BY <1>10 DEF RunAgain, stored, AtRest, ApplyChange, ClaimsFit
  <2> QED
    BY <1>1, <1>2, <2>1
<1>11. CASE (\E i \in Instruments, status \in {"ACTIVE", "SUSPENDED"} : RecordStatus(i, status))
            \/ (\E day \in Session : Seal(day)) \/ Rested
  <2>1. UNCHANGED <<claims, applied, unsaid, chain>> /\ applied = {} /\ ~ApplyChange
    BY <1>11 DEF RecordStatus, Seal, Rested, vars, stored, process, AtRest, ApplyChange, ClaimsFit
  <2> QED
    BY <1>1, <1>2, <2>1
<1> QED
  BY <1>4, <1>5, <1>6, <1>7, <1>8, <1>9, <1>10, <1>11 DEF Next

LEMMA EvidenceInvStep == EvidenceInv /\ [Next]_vars => EvidenceInv'
<1> SUFFICES ASSUME EvidenceInv, [Next]_vars PROVE EvidenceInv'
  OBVIOUS
<1>1. CASE Next
  BY <1>1, VersionsStep, EvidenceStep, ClaimsStep DEF EvidenceInv
<1>2. CASE UNCHANGED vars
  <2>1. Announced' = Announced /\ Renamed' = Renamed
    BY <1>2 DEF vars, stored, Announced, Renamed, Current
  <2> QED
    BY <1>2, <2>1 DEF vars, stored, process, EvidenceInv, VersionsFit, EvidenceFits, ClaimsFit, HasOffer
<1> QED
  BY <1>1, <1>2

-----------------------------------------------------------------------------
\* instruments/repository.py and execution/corporate.py: for any world, any number
\* of sessions, runs and stops, an instrument is renamed when and only when its
\* change is claimed, and what is claimed has been announced, except what a stop
\* kept from being said.
THEOREM ChangesAlwaysAnnounced == Spec => []ChangesAnnounced
<1>1. EvidenceInv => ChangesAnnounced
  BY DEF EvidenceInv, ClaimsFit, ChangesAnnounced, Announced, Renamed
<1> QED
  BY EvidenceInit, EvidenceInvStep, <1>1, PTL DEF Spec

-----------------------------------------------------------------------------
(* What is ingested, frozen, and sealed. *)

\* The phases after the freeze of a session, and those after its reference data.
Past == {"filling", "deciding", "over", "finished"}
AfterFreeze == {"reference"} \cup Past

\* What the run has been offered before it comes to one record of a session.
Before(s, p) == OfferedBy(s - 1) \cup {Feed(s)[k] : k \in {j \in DOMAIN Feed(s) : j < p}}

SeenBy(s) == {offer.what : offer \in {o \in OfferedBy(s) : o.seen <= Cutoff(s)}}

\* A process has been through everything it was offered, and left it described;
\* what is described is logged, and what is logged is stored.
IngestionFits ==
  /\ candidates = Before(session, position)
  /\ \A o \in Before(session, position) : o.what \in DOMAIN metadata
  /\ \A what \in DOMAIN metadata : /\ what \in blobs
                                   /\ metadata[what] = OfferOf(what).seen
                                   /\ Recorded(Ingested(OfferOf(what)))
  /\ phase \in {"logging", "describing"} => Offer.what \in blobs
  /\ phase = "describing" => Recorded(Ingested(Offer))
  /\ phase \in AfterFreeze => ~HasOffer

\* Nothing is in the chain twice, and a record is logged only when all that was
\* offered before it is described.
IsIngested(event, s, p) ==
  event = Ingested(Feed(s)[p]) /\ \A o \in Before(s, p) : o.what \in DOMAIN metadata
ChainFits ==
  /\ \A j, k \in DOMAIN chain : chain[j] = chain[k] => j = k
  /\ \A k \in DOMAIN chain : chain[k].type = "DATA_INGESTED" =>
       \E s \in Session : \E p \in DOMAIN Feed(s) : IsIngested(chain[k], s, p)

-----------------------------------------------------------------------------
(* The order in which records are offered. *)

LEMMA OfferedFirst == OfferedBy(0) = {} /\ Before(1, 1) = {}
<1>1. OfferedBy(0) = {}
  BY DEF OfferedBy
<1>2. \A k \in DOMAIN Feed(1) : ~(k < 1)
  BY FeedIsSound
<1> QED
  BY <1>1, <1>2 DEF Before

LEMMA OfferedNext ==
  ASSUME NEW s \in Nat \ {0}
  PROVE  OfferedBy(s) = OfferedBy(s - 1) \cup {Feed(s)[k] : k \in DOMAIN Feed(s)}
<1>1. 1..s = 1..(s - 1) \cup {s}
  OBVIOUS
<1>2. OfferedBy(s) = OfferedBy(s - 1) \cup ToSet(Feed(s))
  BY <1>1 DEF OfferedBy
<1> QED
  BY <1>2 DEF ToSet

LEMMA BeforeNext ==
  ASSUME NEW s \in Nat \ {0}, NEW p \in Nat \ {0}
  PROVE  /\ p <= Len(Feed(s)) => Before(s, p + 1) = Before(s, p) \cup {Feed(s)[p]}
         /\ p > Len(Feed(s)) => Before(s, p) = OfferedBy(s)
         /\ Before(s + 1, 1) = OfferedBy(s)
<1>1. DOMAIN Feed(s) = 1..Len(Feed(s)) /\ Len(Feed(s)) \in Nat
  BY FeedIsSound
<1>2. ASSUME p <= Len(Feed(s)) PROVE Before(s, p + 1) = Before(s, p) \cup {Feed(s)[p]}
  <2>1. {j \in DOMAIN Feed(s) : j < p + 1} = {j \in DOMAIN Feed(s) : j < p} \cup {p}
    BY <1>1, <1>2
  <2> QED
    BY <2>1 DEF Before
<1>3. ASSUME p > Len(Feed(s)) PROVE Before(s, p) = OfferedBy(s)
  <2>1. {j \in DOMAIN Feed(s) : j < p} = DOMAIN Feed(s)
    BY <1>1, <1>3
  <2> QED
    BY <2>1, OfferedNext DEF Before
<1>4. Before(s + 1, 1) = OfferedBy(s)
  <2>1. {j \in DOMAIN Feed(s + 1) : j < 1} = {}
    BY FeedIsSound
  <2>2. (s + 1) - 1 = s
    OBVIOUS
  <2> QED
    BY <2>1, <2>2 DEF Before
<1> QED
  BY <1>2, <1>3, <1>4

\* Offers of earlier sessions, and earlier offers of one session, come before.
LEMMA BeforeOrder ==
  ASSUME NEW s \in Session, NEW t \in Session,
         NEW p \in DOMAIN Feed(s), NEW q \in DOMAIN Feed(t)
  PROVE  \/ Feed(s)[p] \in Before(t, q)
         \/ Feed(t)[q] \in Before(s, p)
         \/ Feed(s)[p] = Feed(t)[q]
<1>1. s \in Nat \ {0} /\ t \in Nat \ {0} /\ p \in Nat /\ q \in Nat
  BY FeedIsSound, SnapshotsAssumption DEF Session
<1>2. CASE s < t
  <2>1. s \in 1..(t - 1)
    BY <1>1, <1>2
  <2> QED
    BY <2>1 DEF Before, OfferedBy, ToSet
<1>3. CASE t < s
  <2>1. t \in 1..(s - 1)
    BY <1>1, <1>3
  <2> QED
    BY <2>1 DEF Before, OfferedBy, ToSet
<1>4. CASE s = t
  <2>1. p < q \/ q < p \/ p = q
    BY <1>1
  <2> QED
    BY <1>4, <2>1 DEF Before
<1> QED
  BY <1>1, <1>2, <1>3, <1>4

\* Every offer is the one its content determines.
LEMMA OfferedFits ==
  ASSUME NEW s, NEW o \in OfferedBy(s)
  PROVE  o = OfferOf(o.what)
<1>1. PICK t \in 1..s : \E k \in DOMAIN Feed(t) : o = Feed(t)[k]
  BY DEF OfferedBy, ToSet
<1> QED
  BY <1>1, FeedIsSound

-----------------------------------------------------------------------------
(* What an event adds to the chain. *)

LEMMA EmitFits ==
  ASSUME NEW event, Emit(event), IsSequence(chain)
  PROVE  /\ \A e : Contains(chain', e) <=> Recorded(e) \/ e = event
         /\ \A k \in DOMAIN chain : k \in DOMAIN chain' /\ chain'[k] = chain[k]
         /\ \A k \in DOMAIN chain' \ DOMAIN chain :
              /\ k = Len(chain) + 1 /\ chain'[k] = event /\ ~Recorded(event)
         /\ DOMAIN chain = 1..Len(chain) /\ Len(chain) \in Nat
<1>1. PICK S : chain \in Seq(S)
  BY DEF IsSequence
<1>2. DOMAIN chain = 1..Len(chain) /\ Len(chain) \in Nat
  BY <1>1
<1>3. CASE chain' = chain /\ Recorded(event)
  BY <1>2, <1>3 DEF Recorded
<1>4. CASE chain' = Append(chain, event) /\ ~Recorded(event)
  <2>1. chain \in Seq(S \cup {event})
    BY <1>1
  <2>2. /\ DOMAIN chain' = 1..(Len(chain) + 1)
        /\ Len(chain') = Len(chain) + 1
        /\ chain'[Len(chain) + 1] = event
        /\ \A n \in 1..Len(chain) : chain'[n] = chain[n]
    BY <1>4, <2>1
  <2>3. DOMAIN chain' = DOMAIN chain \cup {Len(chain) + 1}
    BY <1>2, <2>2
  <2>4. \A e : Contains(chain', e) <=> \E k \in DOMAIN chain \cup {Len(chain) + 1} : chain'[k] = e
    BY <2>2, <2>3 DEF Contains
  <2>5. \A e : Recorded(e) <=> \E k \in DOMAIN chain : chain[k] = e
    BY <1>2 DEF Recorded, Contains
  <2> QED
    BY <1>2, <1>4, <2>2, <2>3, <2>4, <2>5
<1> QED
  BY <1>3, <1>4 DEF Emit

\* An event that is no ingestion, or the ingestion of the next record, keeps the chain
\* in order.
LEMMA ChainStep ==
  ASSUME IsSequence(chain), ChainFits, NEW event, Emit(event),
         \A what \in DOMAIN metadata : what \in DOMAIN metadata',
         event.type = "DATA_INGESTED" =>
           \E s \in Session : \E p \in DOMAIN Feed(s) : IsIngested(event, s, p)
  PROVE  ChainFits'
<1>1. /\ \A k \in DOMAIN chain : k \in DOMAIN chain' /\ chain'[k] = chain[k]
      /\ \A k \in DOMAIN chain' \ DOMAIN chain :
           k = Len(chain) + 1 /\ chain'[k] = event /\ ~Recorded(event)
      /\ DOMAIN chain = 1..Len(chain)
  BY EmitFits
<1>2. ASSUME NEW j \in DOMAIN chain', NEW k \in DOMAIN chain', chain'[j] = chain'[k]
      PROVE  j = k
  <2>1. \A i \in DOMAIN chain : ~Recorded(event) => chain[i] # event
    BY <1>1 DEF Recorded, Contains
  <2> QED
    BY <1>1, <1>2, <2>1 DEF ChainFits
<1>3. ASSUME NEW k \in DOMAIN chain', chain'[k].type = "DATA_INGESTED"
      PROVE  \E s \in Session : \E p \in DOMAIN Feed(s) : IsIngested(chain'[k], s, p)
  BY <1>1, <1>3 DEF ChainFits
<1>4. ASSUME NEW e, NEW s, NEW p, IsIngested(e, s, p)
      PROVE  e = Ingested(Feed(s)[p]) /\ \A o \in Before(s, p) : o.what \in DOMAIN metadata'
  BY <1>4 DEF IsIngested
<1> QED
  BY <1>2, <1>3, <1>4 DEF ChainFits, IsIngested
-----------------------------------------------------------------------------
(* Ingestion. *)

LEMMA IngestionStep ==
  ASSUME EvidenceInv, IngestionFits, Next
  PROVE  IngestionFits'
<1>0. /\ session \in Nat \ {0} /\ position \in Nat \ {0} /\ IsSequence(chain)
      /\ phase \in {"logging", "describing"} => HasOffer
  BY SnapshotsAssumption DEF EvidenceInv, EvidenceFits, Session
<1>1. ASSUME UNCHANGED <<candidates, session, position, metadata>>, blobs \subseteq blobs',
             \A e : Recorded(e) => Contains(chain', e),
             phase' \in {"logging", "describing"} => Offer.what \in blobs',
             phase' = "describing" => Contains(chain', Ingested(Offer)),
             phase' \in AfterFreeze => ~HasOffer
      PROVE  IngestionFits'
  <2>1. Before(session, position)' = Before(session, position)
    BY <1>1 DEF Before
  <2>2. Offer' = Offer /\ HasOffer' = HasOffer /\ Ingested(Offer)' = Ingested(Offer)
    BY <1>1 DEF Offer, HasOffer
  <2>3. \A what \in DOMAIN metadata' : Contains(chain', Ingested(OfferOf(what)))
    BY <1>1 DEF IngestionFits
  <2> QED
    BY <1>1, <2>1, <2>2, <2>3 DEF IngestionFits, Recorded
<1>2. ASSUME NEW event, Emit(event) PROVE \A e : Recorded(e) \/ e = event => Contains(chain', e)
  BY <1>0, <1>2, EmitFits
<1>3. chain' = chain => \A e : Recorded(e) => Contains(chain', e)
  BY DEF Recorded
<1>4. HasOffer => /\ IsSound(Offer.what) /\ Offer = OfferOf(Offer.what)
                  /\ Before(session, position + 1) = Before(session, position) \cup {Offer}
  <2> SUFFICES ASSUME HasOffer
               PROVE  /\ IsSound(Offer.what) /\ Offer = OfferOf(Offer.what)
                      /\ Before(session, position + 1) = Before(session, position) \cup {Offer}
    OBVIOUS
  <2>1. position \in DOMAIN Feed(session) /\ position <= Len(Feed(session))
    BY <1>0, FeedIsSound DEF HasOffer
  <2> QED
    BY <1>0, <2>1, FeedIsSound, BeforeNext DEF Offer
<1>5. ASSUME HasOffer, Offered(Offer.seen), UNCHANGED <<session, chain>>,
             blobs' = blobs \cup {Offer.what},
             DOMAIN metadata' = DOMAIN metadata \cup {Offer.what},
             \A what \in DOMAIN metadata : metadata'[what] = metadata[what],
             metadata'[Offer.what] = Offer.seen, Recorded(Ingested(Offer))
      PROVE  IngestionFits'
  <2>1. /\ candidates' = candidates \cup {[what |-> Offer.what, seen |-> Offer.seen]}
        /\ position' = position + 1 /\ phase' = "storing"
    BY <1>5 DEF Offered
  <2>2. Offer = [what |-> Offer.what, seen |-> Offer.seen] /\ Offer.seen = OfferOf(Offer.what).seen
    BY <1>4, <1>5 DEF OfferOf
  <2>3. candidates' = Before(session, position)'
    BY <1>4, <1>5, <2>1, <2>2 DEF IngestionFits, Before
  <2>4. \A o \in Before(session, position)' : o.what \in DOMAIN metadata'
    <3>1. Before(session, position)' = Before(session, position + 1)
      BY <1>5, <2>1 DEF Before
    <3> QED
      BY <1>4, <1>5, <3>1 DEF IngestionFits
  <2>5. ASSUME NEW what \in DOMAIN metadata'
        PROVE  /\ what \in blobs' /\ metadata'[what] = OfferOf(what).seen
               /\ Contains(chain', Ingested(OfferOf(what)))
    BY <1>4, <1>5, <2>2 DEF IngestionFits, Recorded
  <2> QED
    BY <2>1, <2>3, <2>4, <2>5 DEF IngestionFits, Recorded, AfterFreeze, Past
<1>6. CASE StoreKnown
  <2>1. /\ HasOffer /\ UNCHANGED <<session, chain, metadata>> /\ Offer.what \in DOMAIN metadata
        /\ blobs' = blobs \cup {Offer.what}
    BY <1>6 DEF StoreKnown
  <2>2. Offer = OfferOf(Offer.what)
    BY <1>4, <2>1
  <2>3. metadata[Offer.what] = Offer.seen /\ Recorded(Ingested(Offer))
    BY <2>1, <2>2 DEF IngestionFits
  <2>4. Offered(Offer.seen)
    BY <1>6, <2>3 DEF StoreKnown, Offered
  <2> QED
    BY <1>5, <2>1, <2>3, <2>4
<1>7. CASE Describe
  <2>1. HasOffer /\ Recorded(Ingested(Offer)) /\ blobs' = blobs \cup {Offer.what}
    BY <1>0, <1>7 DEF Describe, IngestionFits
  <2>2. Offer = OfferOf(Offer.what)
    BY <1>4, <2>1
  <2>3. /\ DOMAIN metadata' = DOMAIN metadata \cup {Offer.what}
        /\ \A what \in DOMAIN metadata : metadata'[what] = metadata[what]
        /\ metadata'[Offer.what] = Offer.seen
    BY <1>7, <2>2 DEF Describe, WithRow, IngestionFits
  <2> QED
    BY <1>5, <1>7, <2>1, <2>3 DEF Describe
<1>8. CASE StoreNew
  BY <1>1, <1>3, <1>8 DEF StoreNew, AfterFreeze, Past
<1>9. CASE LogIngestion
  <2>1. \A e : Recorded(e) \/ e = Ingested(Offer) => Contains(chain', e)
    BY <1>2, <1>9 DEF LogIngestion
  <2> QED
    BY <1>1, <1>9, <2>1 DEF LogIngestion, IngestionFits, AfterFreeze, Past
<1>10. CASE Freeze \/ ReturnFrozen
  <2>1. \A e : Recorded(e) => Contains(chain', e)
    BY <1>2, <1>3, <1>10 DEF Freeze, ReturnFrozen, stored
  <2>2. /\ UNCHANGED <<candidates, session, position, metadata, blobs>>
        /\ ~HasOffer /\ phase' = "reference"
    BY <1>10 DEF Freeze, ReturnFrozen, stored
  <2> QED
    BY <1>1, <2>1, <2>2
<1>11. CASE AnnounceChanges \/ Fill \/ Decide
  <2>1. \A e : Recorded(e) => Contains(chain', e)
    BY <1>2, <1>11 DEF AnnounceChanges, Fill, Decide
  <2>2. /\ UNCHANGED <<candidates, session, position, metadata, blobs>>
        /\ phase \in AfterFreeze /\ phase' \in Past
    BY <1>11 DEF AnnounceChanges, Fill, Decide, AfterFreeze, Past
  <2> QED
    BY <1>1, <2>1, <2>2 DEF IngestionFits, Past
<1>12. CASE ApplyChange \/ NothingToAnnounce \/ NothingToFill \/ Finish
  <2>1. /\ UNCHANGED <<candidates, session, position, metadata, blobs, chain>>
        /\ phase \in AfterFreeze /\ phase' \in AfterFreeze
    BY <1>12 DEF ApplyChange, NothingToAnnounce, NothingToFill, Finish, stored, AfterFreeze, Past
  <2> QED
    BY <1>1, <1>3, <2>1 DEF IngestionFits, AfterFreeze, Past
<1>13. CASE Admit \/ Opened \/ RefuseDivergent \/ Stop
  <2>1. /\ UNCHANGED <<candidates, session, position, metadata, blobs, chain>>
        /\ phase' \in {"opening", "storing", "refused", "stopped"}
    BY <1>13 DEF Admit, Opened, RefuseDivergent, Stop, stored, process
  <2> QED
    BY <1>1, <1>3, <2>1 DEF AfterFreeze, Past
<1>14. CASE (\E i \in Instruments, status \in {"ACTIVE", "SUSPENDED"} : RecordStatus(i, status))
            \/ (\E day \in Session : Seal(day)) \/ Rested
  <2>1. UNCHANGED <<candidates, session, position, metadata, blobs, chain, phase>> /\ phase \in AtRest
    BY <1>14 DEF RecordStatus, Seal, Rested, vars, stored, process
  <2> QED
    BY <1>1, <1>3, <2>1 DEF IngestionFits, AtRest, AfterFreeze, Past
<1>15. ASSUME UNCHANGED <<metadata, blobs, chain>>, phase' \notin AfterFreeze \cup {"logging", "describing"},
              candidates' = Before(session, position)',
              \A o \in candidates' : o.what \in DOMAIN metadata
       PROVE  IngestionFits'
  BY <1>15 DEF IngestionFits, Recorded
<1>16. CASE NextSession
  <2>1. /\ UNCHANGED <<metadata, blobs, chain, candidates>> /\ phase' = "storing" /\ phase = "over"
        /\ session' = session + 1 /\ position' = 1
    BY <1>16 DEF NextSession, stored
  <2>4. candidates = Before(session, position) /\ ~HasOffer
        /\ \A o \in Before(session, position) : o.what \in DOMAIN metadata
    BY <2>1 DEF IngestionFits, AfterFreeze, Past
  <2>2. candidates = OfferedBy(session)
    BY <1>0, <2>4, BeforeNext DEF HasOffer
  <2>3. Before(session, position)' = OfferedBy(session)
    BY <1>0, <2>1, BeforeNext DEF Before
  <2> QED
    BY <1>15, <2>1, <2>2, <2>3, <2>4 DEF AfterFreeze, Past
<1>17. CASE RunAgain
  <2>1. /\ UNCHANGED <<metadata, blobs, chain>> /\ phase' = "opening"
        /\ session' = 1 /\ position' = 1 /\ candidates' = {}
    BY <1>17 DEF RunAgain, stored
  <2>2. Before(session, position)' = {}
    BY <2>1, OfferedFirst DEF Before
  <2> QED
    BY <1>15, <2>1, <2>2 DEF AfterFreeze, Past
<1> QED
  BY <1>6, <1>7, <1>8, <1>9, <1>10, <1>11, <1>12, <1>13, <1>14, <1>16, <1>17 DEF Next

LEMMA MetadataGrows ==
  ASSUME Next PROVE \A what \in DOMAIN metadata : what \in DOMAIN metadata'
BY DEF Next, Admit, Opened, StoreKnown, StoreNew, LogIngestion, Describe, Freeze, ReturnFrozen,
       RefuseDivergent, ApplyChange, AnnounceChanges, NothingToAnnounce, Fill, NothingToFill,
       Decide, NextSession, Finish, Stop, RunAgain, RecordStatus, Seal, Rested, stored, vars,
       WithRow

LEMMA ChainInvStep ==
  ASSUME EvidenceInv, IngestionFits, ChainFits, Next
  PROVE  ChainFits'
<1>0. IsSequence(chain) /\ session \in Session /\ position \in Nat \ {0}
  BY DEF EvidenceInv, EvidenceFits
<1>1. \A what \in DOMAIN metadata : what \in DOMAIN metadata'
  BY MetadataGrows
<1>2. CASE chain' = chain
  BY <1>1, <1>2 DEF ChainFits, IsIngested
<1>3. CASE LogIngestion
  <2>1. Emit(Ingested(Offer)) /\ HasOffer
    BY <1>3 DEF LogIngestion, EvidenceInv, EvidenceFits
  <2>2. position \in DOMAIN Feed(session)
    BY <1>0, <2>1, FeedIsSound DEF HasOffer
  <2>3. IsIngested(Ingested(Offer), session, position)
    BY DEF IsIngested, Offer, IngestionFits
  <2> HIDE DEF Session
  <2> QED
    BY <1>0, <1>1, <2>1, <2>2, <2>3, ChainStep
<1>4. CASE Freeze \/ AnnounceChanges \/ Fill \/ Decide
  <2>1. \E event : Emit(event) /\ event.type # "DATA_INGESTED"
    BY <1>4 DEF Freeze, AnnounceChanges, Fill, Decide, Decided, Missed, Event
  <2> QED
    BY <1>0, <1>1, <2>1, ChainStep
<1>5. Next => chain' = chain \/ LogIngestion \/ Freeze \/ AnnounceChanges \/ Fill \/ Decide
  BY DEF Next, Admit, Opened, StoreKnown, StoreNew, Describe, ReturnFrozen, RefuseDivergent,
         ApplyChange, NothingToAnnounce, NothingToFill, NextSession, Finish, Stop, RunAgain,
         RecordStatus, Seal, Rested, stored, vars
<1> QED
  BY <1>2, <1>3, <1>4, <1>5
-----------------------------------------------------------------------------
(* Snapshots, and the universe they are taken of. *)

\* Sessions are frozen in order, and what is frozen is what was seen by its cutoff.
FrozenAs(universe, s) ==
  [universe |-> universe, evidence |-> SeenBy(s), status |-> Status(universe, SeenBy(s), s)]
SnapshotsFit ==
  /\ \E n \in 0..LAST : /\ DOMAIN snapshots = 1..n
                        /\ n = 0 => snapshots = << >>
                        /\ session <= n + 1
                        /\ phase \in AfterFreeze => session <= n
  /\ \A s \in DOMAIN snapshots : /\ snapshots[s] = FrozenAs(snapshots[s].universe, s)
                                 /\ \A o \in OfferedBy(s) : o.what \in DOMAIN metadata

UniverseKnows(universe, s) ==
  /\ DOMAIN universe = Instruments
  /\ \A i \in Instruments :
       universe[i].ticker = IF i = ALPHA /\ s > TICKER_CHANGE THEN "second" ELSE "first"

\* No session gets past the ticker change before it is claimed.
ChangeIsDue == \/ session > TICKER_CHANGE
               \/ session = TICKER_CHANGE /\ phase \in Past
               \/ \E s \in DOMAIN snapshots : s > TICKER_CHANGE

\* The ticker changes at the cutoff of its own session and for good; every other
\* version comes after all that is frozen, so that a frozen universe is found again,
\* except the one of that session.
HistoryFits ==
  /\ \A i \in DOMAIN versions :
       /\ versions[i][1].from = 0
       /\ \A k \in 2..Len(versions[i]) : versions[i][k] # versions[i][k - 1]
       /\ claims = {} \/ i # ALPHA => \A k \in DOMAIN versions[i] : versions[i][k].ticker = "first"
  /\ claims # {} =>
       /\ TICKER_CHANGE \in DOMAIN snapshots
       /\ \E r \in DOMAIN versions[ALPHA] :
            /\ versions[ALPHA][r].from = Cutoff(TICKER_CHANGE)
            /\ \A k \in r..Len(versions[ALPHA]) : versions[ALPHA][k].ticker = "second"
  /\ ChangeIsDue => claims # {}
  /\ DOMAIN snapshots # {} => Instruments \subseteq DOMAIN versions
  /\ \A s \in DOMAIN snapshots :
       /\ UniverseKnows(snapshots[s].universe, s)
       /\ s # TICKER_CHANGE \/ claims = {} => Search(Cutoff(s)) = snapshots[s].universe

LEMMA ChangeIsSeen == Change \in SeenBy(TICKER_CHANGE)
<1> DEFINE s == TICKER_CHANGE
<1>1. s \in Nat \ {0}
  BY MarketAssumption
<1>2. PICK S : {FetchPriceBars(s), FetchNews(s), FetchMacroRecords(s), FetchFxRates(s),
                FetchCorporateActions(s)} \subseteq Seq(S)
  BY FeedParts
<1> DEFINE a == FetchPriceBars(s) \o FetchNews(s) \o FetchMacroRecords(s) \o FetchFxRates(s)
           b == FetchCorporateActions(s)
           c == (IF s = DIVIDEND THEN <<Action(s, "CASH_DIVIDEND")>> ELSE << >>)
                \o (IF s = SPLIT THEN <<Action(s, "STOCK_SPLIT")>> ELSE << >>)
<1>3. b = c \o <<OnTime(Change)>>
  BY DEF FetchCorporateActions, Action, Change
<1>4. c \in Seq({Action(s, "CASH_DIVIDEND"), Action(s, "STOCK_SPLIT"), OnTime(Change)})
  <2> DEFINE T == {Action(s, "CASH_DIVIDEND"), Action(s, "STOCK_SPLIT"), OnTime(Change)}
  <2>1. Action(s, "CASH_DIVIDEND") \in T /\ Action(s, "STOCK_SPLIT") \in T
    OBVIOUS
  <2> HIDE DEF T
  <2>2. c \in Seq(T)
    BY <2>1
  <2> QED
    BY <2>2 DEF T
<1>5. /\ b[Len(b)] = OnTime(Change) /\ Len(b) \in Nat \ {0}
  <2> HIDE DEF c
  <2> QED
    BY <1>3, <1>4
<1>6. Feed(s) = a \o b /\ a \in Seq(S) /\ b \in Seq(S)
  BY <1>2 DEF Feed
<1>7. Len(a) + Len(b) \in DOMAIN Feed(s) /\ Feed(s)[Len(a) + Len(b)] = OnTime(Change)
  <2> HIDE DEF a, b
  <2> QED
    BY <1>5, <1>6
<1>8. OnTime(Change) \in OfferedBy(s)
  BY <1>1, <1>7, OfferedNext
<1>9. OnTime(Change).seen <= Cutoff(s) /\ OnTime(Change).what = Change
  BY <1>1 DEF OnTime, Change, Content, Cutoff
<1> QED
  BY <1>8, <1>9 DEF SeenBy

LEMMA VisibleIsSeen ==
  ASSUME EvidenceInv, IngestionFits, ~HasOffer
  PROVE  /\ Visible(session) = SeenBy(session)
         /\ \A o \in OfferedBy(session) : o.what \in DOMAIN metadata
<1>1. session \in Nat \ {0} /\ position \in Nat \ {0} /\ position > Len(Feed(session))
  BY SnapshotsAssumption, FeedIsSound DEF EvidenceInv, EvidenceFits, Session, HasOffer
<1>2. Before(session, position) = OfferedBy(session)
  BY <1>1, BeforeNext
<1> QED
  BY <1>2 DEF IngestionFits, Visible, SeenBy

LEMMA EvidenceIsSeen ==
  ASSUME SnapshotsFit, NEW s \in DOMAIN snapshots
  PROVE  /\ snapshots[s].evidence = SeenBy(s)
         /\ SeenBy(s) \subseteq DOMAIN metadata
<1>1. snapshots[s] = FrozenAs(snapshots[s].universe, s)
  BY DEF SnapshotsFit
<1>2. \A o \in OfferedBy(s) : o.what \in DOMAIN metadata
  BY DEF SnapshotsFit
<1> QED
  BY <1>1, <1>2 DEF FrozenAs, SeenBy

LEMMA SnapshotsInvStep ==
  ASSUME EvidenceInv, IngestionFits, SnapshotsFit, Next
  PROVE  SnapshotsFit'
<1>0. PICK n \in 0..LAST : /\ DOMAIN snapshots = 1..n
                           /\ n = 0 => snapshots = << >>
                           /\ session <= n + 1
                           /\ phase \in AfterFreeze => session <= n
  BY DEF SnapshotsFit
<1>1. session \in Session /\ LAST \in Nat
  BY SnapshotsAssumption DEF EvidenceInv, EvidenceFits
<1>2. ASSUME snapshots' = snapshots, session' <= n + 1, phase' \in AfterFreeze => session' <= n
      PROVE  SnapshotsFit'
  BY <1>0, <1>2, MetadataGrows DEF SnapshotsFit, FrozenAs
<1>3. CASE Freeze
  <2>1. /\ session \notin DOMAIN snapshots /\ ~HasOffer /\ session' = session
        /\ snapshots' = WithRow(snapshots, session, Manifest(session))
    BY <1>3 DEF Freeze
  <2>2. session = n + 1 /\ n + 1 \in 0..LAST /\ 1..(n + 1) = 1..n \cup {n + 1}
    BY <1>0, <1>1, <2>1 DEF Session
  <2>3. /\ DOMAIN snapshots' = 1..(n + 1)
        /\ \A s \in DOMAIN snapshots : snapshots'[s] = snapshots[s]
        /\ snapshots'[n + 1] = Manifest(session)
    BY <1>0, <2>1, <2>2 DEF WithRow
  <2>4. Manifest(session) = FrozenAs(Manifest(session).universe, session)
    BY <2>1, VisibleIsSeen DEF Manifest, FrozenAs
  <2>5. \A s \in DOMAIN snapshots' :
          /\ snapshots'[s] = FrozenAs(snapshots'[s].universe, s)
          /\ \A o \in OfferedBy(s) : o.what \in DOMAIN metadata'
    BY <1>0, <2>1, <2>2, <2>3, <2>4, VisibleIsSeen, MetadataGrows DEF SnapshotsFit
  <2> QED
    BY <2>1, <2>2, <2>3, <2>5 DEF SnapshotsFit, FrozenAs
<1>4. CASE ReturnFrozen
  BY <1>0, <1>1, <1>2, <1>4 DEF ReturnFrozen, stored, Session
<1>5. CASE NextSession \/ RunAgain
  BY <1>0, <1>1, <1>2, <1>5 DEF NextSession, RunAgain, stored, AfterFreeze, Past, Session
<1>6. CASE ApplyChange \/ AnnounceChanges \/ NothingToAnnounce \/ Fill \/ NothingToFill \/ Decide
           \/ Finish
  BY <1>0, <1>2, <1>6 DEF ApplyChange, AnnounceChanges, NothingToAnnounce, Fill, NothingToFill,
                          Decide, Finish, stored, AfterFreeze, Past
<1>7. CASE Admit \/ Opened \/ StoreKnown \/ StoreNew \/ LogIngestion \/ Describe
           \/ RefuseDivergent \/ Stop
  BY <1>0, <1>2, <1>7 DEF Admit, Opened, StoreKnown, StoreNew, LogIngestion, Describe, Offered,
                          RefuseDivergent, Stop, stored, process, AfterFreeze, Past
<1>8. CASE (\E i \in Instruments, status \in {"ACTIVE", "SUSPENDED"} : RecordStatus(i, status))
           \/ (\E day \in Session : Seal(day)) \/ Rested
  <2>1. snapshots' = snapshots /\ session' = session /\ phase' = phase
    BY <1>8 DEF RecordStatus, Seal, Rested, vars, stored, process
  <2> QED
    BY <1>0, <1>2, <2>1
<1> QED
  BY <1>3, <1>4, <1>5, <1>6, <1>7, <1>8 DEF Next
\* The version an instrument has at an instant is one of its versions of by then, and
\* no later one is.
LEMMA SearchFinds ==
  ASSUME VersionsFit, NEW at \in Nat, NEW i \in DOMAIN versions, versions[i][1].from = 0
  PROVE  /\ i \in DOMAIN Search(at)
         /\ \E k \in VersionsAsOf(i, at) : /\ Search(at)[i] = versions[i][k]
                                          /\ \A j \in VersionsAsOf(i, at) : j <= k
<1>1. PICK S : versions[i] \in Seq(S) /\ versions[i] # << >>
  BY DEF VersionsFit, IsSequence
<1>2. /\ DOMAIN versions[i] = 1..Len(versions[i]) /\ Len(versions[i]) \in Nat
      /\ 1 \in DOMAIN versions[i]
  BY <1>1
<1>3. 1 \in VersionsAsOf(i, at) /\ VersionsAsOf(i, at) \subseteq 1..Len(versions[i])
  BY <1>2 DEF VersionsAsOf
<1>4. Max(VersionsAsOf(i, at)) \in VersionsAsOf(i, at)
      /\ \A j \in VersionsAsOf(i, at) : j <= Max(VersionsAsOf(i, at))
  BY <1>2, <1>3, Greatest
<1> QED
  BY <1>3, <1>4 DEF Search

\* A version from later on changes nothing as of an earlier instant.
LEMMA SearchKept ==
  ASSUME VersionsFit, NEW at, NEW i \in DOMAIN versions, NEW v, ~(v.from <= at),
         versions' = [versions EXCEPT ![i] = Append(@, v)]
  PROVE  Search(at)' = Search(at)
<1>1. DOMAIN versions' = DOMAIN versions
  OBVIOUS
<1>2. ASSUME NEW x \in DOMAIN versions
      PROVE  /\ VersionsAsOf(x, at)' = VersionsAsOf(x, at)
             /\ \A k \in VersionsAsOf(x, at) : versions'[x][k] = versions[x][k]
             /\ VersionsAsOf(x, at) # {} =>
                  Max(VersionsAsOf(x, at)) \in VersionsAsOf(x, at)
  <2>1. PICK S : versions[x] \in Seq(S)
    BY DEF VersionsFit, IsSequence
  <2>2. versions[x] \in Seq(S \cup {v})
    BY <2>1
  <2>3. VersionsAsOf(x, at) # {} => Max(VersionsAsOf(x, at)) \in VersionsAsOf(x, at)
    <3>1. Len(versions[x]) \in Nat /\ VersionsAsOf(x, at) \subseteq 1..Len(versions[x])
      BY <2>2 DEF VersionsAsOf
    <3> QED
      BY <3>1, Greatest
  <2>4. CASE x # i
    BY <2>3, <2>4 DEF VersionsAsOf
  <2>5. CASE x = i
    <3>1. versions'[x] = Append(versions[x], v)
      BY <2>5
    <3>2. /\ DOMAIN versions[x] = 1..Len(versions[x]) /\ Len(versions[x]) \in Nat
          /\ DOMAIN versions'[x] = DOMAIN versions[x] \cup {Len(versions[x]) + 1}
          /\ versions'[x][Len(versions[x]) + 1] = v
          /\ \A k \in DOMAIN versions[x] : versions'[x][k] = versions[x][k]
      BY <2>2, <3>1
    <3>3. VersionsAsOf(x, at)' = VersionsAsOf(x, at)
      <4>1. \A k \in DOMAIN versions'[x] : versions'[x][k].from <= at => k \in DOMAIN versions[x]
        BY <3>2
      <4> QED
        BY <3>2, <4>1 DEF VersionsAsOf
    <3> QED
      BY <2>3, <3>2, <3>3 DEF VersionsAsOf
  <2> QED
    BY <2>4, <2>5
<1>3. {x \in DOMAIN versions' : VersionsAsOf(x, at)' # {}}
        = {x \in DOMAIN versions : VersionsAsOf(x, at) # {}}
  BY <1>1, <1>2
<1>4. \A x \in {y \in DOMAIN versions : VersionsAsOf(y, at) # {}} :
        versions'[x][Max(VersionsAsOf(x, at)')] = versions[x][Max(VersionsAsOf(x, at))]
  BY <1>2
<1> QED
  BY <1>3, <1>4 DEF Search

\* What a step may do to one instrument's versions: add one that differs from the last.
LEMMA VersionAppended ==
  ASSUME VersionsFit, NEW i \in DOMAIN versions, NEW v, v # Current(i),
         versions[i][1].from = 0,
         \A k \in 2..Len(versions[i]) : versions[i][k] # versions[i][k - 1],
         versions' = [versions EXCEPT ![i] = Append(@, v)]
  PROVE  /\ versions'[i][1].from = 0
         /\ \A k \in 2..Len(versions'[i]) : versions'[i][k] # versions'[i][k - 1]
         /\ Len(versions[i]) \in Nat \ {0} /\ Len(versions'[i]) = Len(versions[i]) + 1
         /\ DOMAIN versions[i] = 1..Len(versions[i])
         /\ DOMAIN versions'[i] = 1..(Len(versions[i]) + 1)
         /\ \A k \in DOMAIN versions[i] : versions'[i][k] = versions[i][k]
         /\ versions'[i][Len(versions[i]) + 1] = v
<1>1. PICK S : versions[i] \in Seq(S) /\ versions[i] # << >>
  BY DEF VersionsFit, IsSequence
<1>2. versions[i] \in Seq(S \cup {v}) /\ versions'[i] = Append(versions[i], v)
  BY <1>1
<1>3. /\ Len(versions[i]) \in Nat \ {0} /\ Len(versions'[i]) = Len(versions[i]) + 1
      /\ DOMAIN versions[i] = 1..Len(versions[i])
      /\ DOMAIN versions'[i] = 1..(Len(versions[i]) + 1)
      /\ \A k \in DOMAIN versions[i] : versions'[i][k] = versions[i][k]
      /\ versions'[i][Len(versions[i]) + 1] = v
  BY <1>1, <1>2
<1>4. ASSUME NEW k \in 2..Len(versions'[i]) PROVE versions'[i][k] # versions'[i][k - 1]
  <2>1. CASE k = Len(versions[i]) + 1
    <3>1. k - 1 = Len(versions[i]) /\ k - 1 \in DOMAIN versions[i]
      BY <1>3, <2>1
    <3> QED
      BY <1>3, <2>1, <3>1 DEF Current
  <2>2. CASE k # Len(versions[i]) + 1
    <3>1. k \in 2..Len(versions[i]) /\ k \in DOMAIN versions[i] /\ k - 1 \in DOMAIN versions[i]
      BY <1>3, <2>2
    <3> QED
      BY <1>3, <3>1
  <2> QED
    BY <2>1, <2>2
<1> QED
  BY <1>3, <1>4
LEMMA HistoryKept ==
  ASSUME HistoryFits, UNCHANGED <<versions, claims, snapshots>>, ChangeIsDue' => claims # {}
  PROVE  HistoryFits'
<1>1. \A at : Search(at)' = Search(at)
  BY DEF Search, VersionsAsOf
<1> QED
  BY <1>1 DEF HistoryFits, UniverseKnows

LEMMA AdmitHistory ==
  ASSUME EvidenceInv, HistoryFits, Admit
  PROVE  HistoryFits'
<1> DEFINE first == Version("first", "ACTIVE", 0)
           row == <<first>>
<1>1. PICK i \in Instruments : i \notin DOMAIN versions /\ versions' = WithRow(versions, i, row)
  BY DEF Admit, NotAdmitted
<1>2. UNCHANGED <<claims, snapshots, session, phase>>
  BY DEF Admit, process
<1>3. row \in Seq({first}) /\ Len(row) = 1 /\ DOMAIN row = 1..1 /\ row[1] = first
  OBVIOUS
<1>4. first.ticker = "first" /\ first.from = 0
  BY DEF Version
<1> HIDE DEF row, first
<1>5. /\ DOMAIN versions' = DOMAIN versions \cup {i}
      /\ \A j \in DOMAIN versions : versions'[j] = versions[j]
      /\ versions'[i] = row
  BY <1>1 DEF WithRow
<1>6. DOMAIN snapshots = {} /\ claims = {}
  BY <1>1 DEF HistoryFits
<1>7. /\ \A j \in DOMAIN versions' :
           /\ versions'[j][1].from = 0
           /\ \A k \in 2..Len(versions'[j]) : versions'[j][k] # versions'[j][k - 1]
           /\ \A k \in DOMAIN versions'[j] : versions'[j][k].ticker = "first"
  BY <1>3, <1>4, <1>5, <1>6 DEF HistoryFits
<1>8. ~ChangeIsDue'
  BY <1>2, <1>6 DEF HistoryFits, ChangeIsDue
<1> QED
  BY <1>2, <1>6, <1>7, <1>8 DEF HistoryFits

\* A version from after everything frozen.
LEMMA StatusHistory ==
  ASSUME EvidenceInv, SnapshotsFit, HistoryFits, NEW i \in Instruments, NEW status,
         RecordStatus(i, status)
  PROVE  HistoryFits'
<1> DEFINE v == Version(Current(i).ticker, status, Cutoff(Latest) + 1)
<1>1. /\ i \in DOMAIN versions /\ Current(i).status # status
      /\ versions' = [versions EXCEPT ![i] = Append(@, v)]
      /\ UNCHANGED <<claims, snapshots, session, phase>>
  BY DEF RecordStatus, WithStatus, process
<1>2. VersionsFit
  BY DEF EvidenceInv
<1>3. v # Current(i) /\ v.ticker = Current(i).ticker /\ v.from = Cutoff(Latest) + 1
  BY <1>1 DEF Version
<1>4. ASSUME NEW s \in DOMAIN snapshots PROVE ~(v.from <= Cutoff(s))
  <2>1. PICK n \in 0..LAST : DOMAIN snapshots = 1..n
    BY DEF SnapshotsFit
  <2>2. s \in Nat /\ n \in Nat /\ s <= n /\ n \in DOMAIN snapshots /\ n + 1 \notin DOMAIN snapshots
    BY <2>1, SnapshotsAssumption
  <2>3. snapshots # << >>
    <3>1. DOMAIN << >> = {}
      OBVIOUS
    <3> QED
      BY <3>1
  <2>4. Latest = n
    <3>1. \A m \in DOMAIN snapshots : m + 1 \notin DOMAIN snapshots => m = n
      BY <2>1, SnapshotsAssumption
    <3> QED
      BY <2>2, <2>3, <3>1 DEF Latest
  <2> QED
    BY <1>3, <2>2, <2>4 DEF Cutoff
<1> HIDE DEF v
<1>14. /\ versions[i][1].from = 0
       /\ \A k \in 2..Len(versions[i]) : versions[i][k] # versions[i][k - 1]
  BY <1>1 DEF HistoryFits
<1>5. /\ versions'[i][1].from = 0
      /\ \A k \in 2..Len(versions'[i]) : versions'[i][k] # versions'[i][k - 1]
      /\ Len(versions[i]) \in Nat \ {0} /\ Len(versions'[i]) = Len(versions[i]) + 1
      /\ DOMAIN versions[i] = 1..Len(versions[i])
      /\ DOMAIN versions'[i] = 1..(Len(versions[i]) + 1)
      /\ \A k \in DOMAIN versions[i] : versions'[i][k] = versions[i][k]
      /\ versions'[i][Len(versions[i]) + 1] = v
  BY <1>1, <1>2, <1>3, <1>14, VersionAppended
<1>6. DOMAIN versions' = DOMAIN versions /\ \A j \in DOMAIN versions : j # i => versions'[j] = versions[j]
  BY <1>1
<1>7. Len(versions[i]) \in DOMAIN versions[i]
  BY <1>5
<1>8. ASSUME NEW j \in DOMAIN versions', claims = {} \/ j # ALPHA, NEW k \in DOMAIN versions'[j]
      PROVE  versions'[j][k].ticker = "first"
  <2>1. \A l \in DOMAIN versions[j] : versions[j][l].ticker = "first"
    BY <1>6, <1>8 DEF HistoryFits
  <2>2. CASE j # i
    BY <1>6, <1>8, <2>1, <2>2
  <2>3. CASE j = i
    <3>1. k \in DOMAIN versions[i] \/ k = Len(versions[i]) + 1
      BY <1>5, <1>8, <2>3
    <3>2. v.ticker = "first"
      BY <1>3, <1>7, <2>1, <2>3 DEF Current
    <3> QED
      BY <1>5, <2>1, <2>3, <3>1, <3>2
  <2> QED
    BY <2>2, <2>3
<1>9. ASSUME claims # {}, NEW r \in DOMAIN versions[ALPHA],
             \A k \in r..Len(versions[ALPHA]) : versions[ALPHA][k].ticker = "second"
      PROVE  /\ r \in DOMAIN versions'[ALPHA] /\ versions'[ALPHA][r] = versions[ALPHA][r]
             /\ \A k \in r..Len(versions'[ALPHA]) : versions'[ALPHA][k].ticker = "second"
  <2>1. CASE i # ALPHA
    <3>1. versions'[ALPHA] = versions[ALPHA]
      BY <1>1, <2>1
    <3> QED
      BY <1>9, <3>1
  <2>2. CASE i = ALPHA
    <3>1. r \in 1..Len(versions[i])
      BY <1>5, <1>9, <2>2
    <3>2. \A k \in r..Len(versions'[i]) : k \in r..Len(versions[i]) \/ k = Len(versions[i]) + 1
      BY <1>5, <3>1
    <3>3. Len(versions[i]) \in r..Len(versions[i])
      BY <1>5, <3>1
    <3>4. v.ticker = "second"
      BY <1>3, <1>9, <2>2, <3>3 DEF Current
    <3>5. \A k \in r..Len(versions[i]) : k \in DOMAIN versions[i]
      BY <1>5, <3>1
    <3>6. r \in DOMAIN versions'[i] /\ versions'[i][r] = versions[i][r]
      BY <1>5, <3>1
    <3>7. ASSUME NEW k \in r..Len(versions'[i]) PROVE versions'[i][k].ticker = "second"
      BY <1>5, <1>9, <2>2, <3>2, <3>4, <3>5, <3>7
    <3> QED
      BY <2>2, <3>6, <3>7
  <2> QED
    BY <2>1, <2>2
<1>10. claims # {} => \E r \in DOMAIN versions'[ALPHA] :
            /\ versions'[ALPHA][r].from = Cutoff(TICKER_CHANGE)
            /\ \A k \in r..Len(versions'[ALPHA]) : versions'[ALPHA][k].ticker = "second"
  BY <1>9 DEF HistoryFits
<1>11. \A s \in DOMAIN snapshots : Search(Cutoff(s))' = Search(Cutoff(s))
  BY <1>1, <1>2, <1>4, SearchKept
<1>12. ChangeIsDue' <=> ChangeIsDue
  BY <1>1 DEF ChangeIsDue
<1>13. \A j \in DOMAIN versions' :
         /\ versions'[j][1].from = 0
         /\ \A k \in 2..Len(versions'[j]) : versions'[j][k] # versions'[j][k - 1]
  BY <1>5, <1>6 DEF HistoryFits
<1> QED
  BY <1>1, <1>6, <1>8, <1>10, <1>11, <1>12, <1>13 DEF HistoryFits
\* The ticker change: found nowhere yet, so no later session is frozen.
LEMMA ChangeHistory ==
  ASSUME EvidenceInv, SnapshotsFit, HistoryFits, ApplyChange
  PROVE  HistoryFits'
<1>1. PICK e \in Unclaimed :
        /\ versions' = WithTicker(e.about, "second", Cutoff(session))
        /\ applied' = applied \cup {e}
        /\ claims' = IF versions' = versions THEN claims ELSE claims \cup applied'
  BY DEF ApplyChange
<1>2. UNCHANGED <<snapshots, session, phase>> /\ phase = "reference"
  BY DEF ApplyChange
<1>3. /\ e = Change /\ e \notin claims /\ e.asOf = Cutoff(session)
  BY <1>1, <1>2 DEF Unclaimed, EffectiveActions, EvidenceInv, EvidenceFits, IsSound
<1>4. claims = {} /\ Renamed = {}
  BY <1>3 DEF EvidenceInv, ClaimsFit
<1>5. session = TICKER_CHANGE /\ session \in Nat
  BY <1>3, MarketAssumption, SnapshotsAssumption
  DEF Change, Content, Cutoff, EvidenceInv, EvidenceFits, Session
<1>6. e.about = ALPHA /\ ALPHA \in DOMAIN versions /\ VersionsFit
  BY <1>2, <1>3 DEF Change, Content, EvidenceInv, VersionsFit, Instruments
<1> DEFINE v == Version("second", Current(ALPHA).status, Cutoff(session))
<1>7. Current(ALPHA).ticker # "second"
  BY <1>4, <1>6 DEF Renamed
<1>8. /\ versions' = [versions EXCEPT ![ALPHA] = Append(@, v)]
      /\ v.ticker = "second" /\ v.from = Cutoff(TICKER_CHANGE) /\ v # Current(ALPHA)
  BY <1>1, <1>5, <1>6, <1>7 DEF WithTicker, Version
<1> HIDE DEF v
<1>17. /\ versions[ALPHA][1].from = 0
       /\ \A k \in 2..Len(versions[ALPHA]) : versions[ALPHA][k] # versions[ALPHA][k - 1]
  BY <1>6 DEF HistoryFits
<1>9. /\ versions'[ALPHA][1].from = 0
      /\ \A k \in 2..Len(versions'[ALPHA]) : versions'[ALPHA][k] # versions'[ALPHA][k - 1]
      /\ Len(versions[ALPHA]) \in Nat \ {0} /\ Len(versions'[ALPHA]) = Len(versions[ALPHA]) + 1
      /\ DOMAIN versions[ALPHA] = 1..Len(versions[ALPHA])
      /\ DOMAIN versions'[ALPHA] = 1..(Len(versions[ALPHA]) + 1)
      /\ \A k \in DOMAIN versions[ALPHA] : versions'[ALPHA][k] = versions[ALPHA][k]
      /\ versions'[ALPHA][Len(versions[ALPHA]) + 1] = v
  <2>1. /\ VersionsFit /\ ALPHA \in DOMAIN versions /\ v # Current(ALPHA)
        /\ versions' = [versions EXCEPT ![ALPHA] = Append(@, v)]
    BY <1>6, <1>8
  <2> QED
    BY <1>17, <2>1, VersionAppended
<1>10. /\ DOMAIN versions' = DOMAIN versions
       /\ \A j \in DOMAIN versions : j # ALPHA => versions'[j] = versions[j]
  BY <1>8
<1>11. /\ Len(versions[ALPHA]) + 1 \in DOMAIN versions'[ALPHA]
       /\ \A k \in (Len(versions[ALPHA]) + 1)..Len(versions'[ALPHA]) :
            versions'[ALPHA][k].ticker = "second"
  BY <1>8, <1>9
<1>12. session \in DOMAIN snapshots
  BY <1>2 DEF EvidenceInv, EvidenceFits
<1>13. ASSUME NEW s \in DOMAIN snapshots, s # TICKER_CHANGE
       PROVE  Search(Cutoff(s))' = snapshots[s].universe
  <2>1. s \in Nat /\ ~(s > TICKER_CHANGE)
    BY <1>4, SnapshotsAssumption DEF HistoryFits, ChangeIsDue, SnapshotsFit
  <2>2. ~(v.from <= Cutoff(s))
    BY <1>8, <1>13, <2>1, MarketAssumption DEF Cutoff
  <2>3. Search(Cutoff(s))' = Search(Cutoff(s))
    BY <1>6, <1>8, <2>2, SearchKept
  <2> QED
    BY <1>4, <2>3 DEF HistoryFits
<1>14. claims' # {}
  BY <1>1, <1>4, <1>7, <1>8, <1>9 DEF Current
<1>15. \A j \in DOMAIN versions' :
         /\ versions'[j][1].from = 0
         /\ \A k \in 2..Len(versions'[j]) : versions'[j][k] # versions'[j][k - 1]
         /\ j # ALPHA => \A k \in DOMAIN versions'[j] : versions'[j][k].ticker = "first"
  BY <1>4, <1>9, <1>10 DEF HistoryFits
<1>16. \E r \in DOMAIN versions'[ALPHA] :
            /\ versions'[ALPHA][r].from = Cutoff(TICKER_CHANGE)
            /\ \A k \in r..Len(versions'[ALPHA]) : versions'[ALPHA][k].ticker = "second"
  <2>1. versions'[ALPHA][Len(versions[ALPHA]) + 1].from = Cutoff(TICKER_CHANGE)
    BY <1>8, <1>9
  <2> QED
    BY <1>11, <2>1
<1> QED
  BY <1>2, <1>5, <1>10, <1>12, <1>13, <1>14, <1>15, <1>16 DEF HistoryFits

\* Once it is claimed, the change is found as of its own cutoff and ever after.
LEMMA ChangeFound ==
  ASSUME EvidenceInv, HistoryFits, claims # {}, ALPHA \in DOMAIN versions,
         NEW at \in Nat, Cutoff(TICKER_CHANGE) <= at
  PROVE  Search(at)[ALPHA].ticker = "second"
<1>1. VersionsFit /\ versions[ALPHA][1].from = 0
  BY DEF EvidenceInv, HistoryFits
<1>2. PICK r \in DOMAIN versions[ALPHA] :
        /\ versions[ALPHA][r].from = Cutoff(TICKER_CHANGE)
        /\ \A k \in r..Len(versions[ALPHA]) : versions[ALPHA][k].ticker = "second"
  BY DEF HistoryFits
<1>3. PICK k \in VersionsAsOf(ALPHA, at) : /\ Search(at)[ALPHA] = versions[ALPHA][k]
                                          /\ \A j \in VersionsAsOf(ALPHA, at) : j <= k
  BY <1>1, SearchFinds
<1>4. PICK S : versions[ALPHA] \in Seq(S)
  BY <1>1 DEF VersionsFit, IsSequence
<1>5. r \in Nat /\ k \in 1..Len(versions[ALPHA]) /\ Len(versions[ALPHA]) \in Nat
  BY <1>3, <1>4 DEF VersionsAsOf
<1>6. r <= k => Search(at)[ALPHA].ticker = "second"
  BY <1>2, <1>3, <1>5
<1>7. r \in VersionsAsOf(ALPHA, at)
  BY <1>2 DEF VersionsAsOf
<1> QED
  BY <1>3, <1>6, <1>7

\* What a new snapshot knows of the instruments.
LEMMA UniverseFits ==
  ASSUME EvidenceInv, HistoryFits, Instruments \subseteq DOMAIN versions,
         session > TICKER_CHANGE => claims # {},
         claims # {} => session > TICKER_CHANGE \/ session \in DOMAIN snapshots
  PROVE  session \notin DOMAIN snapshots => UniverseKnows(Search(Cutoff(session)), session)
<1> SUFFICES ASSUME session \notin DOMAIN snapshots
             PROVE  UniverseKnows(Search(Cutoff(session)), session)
  OBVIOUS
<1> DEFINE at == Cutoff(session)
<1>1. session \in Nat /\ at \in Nat /\ VersionsFit /\ DOMAIN versions = Instruments
  <2>1. session \in Nat /\ VersionsFit
    BY SnapshotsAssumption DEF EvidenceInv, EvidenceFits, Session
  <2>2. DOMAIN versions \subseteq Instruments
    BY <2>1 DEF VersionsFit
  <2> QED
    BY <2>1, <2>2 DEF Cutoff
<1>6. session > TICKER_CHANGE => Cutoff(TICKER_CHANGE) <= at
  BY <1>1, MarketAssumption DEF Cutoff
<1> HIDE DEF at
<1>2. ASSUME NEW i \in Instruments
      PROVE  /\ i \in DOMAIN Search(at)
             /\ \E k \in VersionsAsOf(i, at) : /\ Search(at)[i] = versions[i][k]
                                              /\ \A j \in VersionsAsOf(i, at) : j <= k
  BY <1>1, SearchFinds DEF HistoryFits
<1>3. DOMAIN Search(at) = Instruments
  BY <1>1, <1>2 DEF Search
<1>4. ASSUME NEW i \in Instruments, i # ALPHA \/ ~(session > TICKER_CHANGE)
      PROVE  Search(at)[i].ticker = "first"
  BY <1>1, <1>2, <1>4 DEF HistoryFits, VersionsAsOf
<1>5. session > TICKER_CHANGE => Search(at)[ALPHA].ticker = "second"
  <2>1. ALPHA \in DOMAIN versions
    BY <1>1 DEF Instruments
  <2> QED
    BY <1>1, <1>6, <2>1, ChangeFound
<1> QED
  BY <1>3, <1>4, <1>5 DEF UniverseKnows, at
LEMMA FreezeHistory ==
  ASSUME EvidenceInv, IngestionFits, SnapshotsFit, HistoryFits, Freeze
  PROVE  HistoryFits'
<1>1. /\ session \notin DOMAIN snapshots /\ UNCHANGED <<versions, claims, session>>
      /\ phase = "storing" /\ phase' = "reference"
      /\ snapshots' = WithRow(snapshots, session, Manifest(session))
  BY DEF Freeze
<1>2. /\ DOMAIN snapshots' = DOMAIN snapshots \cup {session}
      /\ \A s \in DOMAIN snapshots : snapshots'[s] = snapshots[s]
      /\ snapshots'[session].universe = Search(Cutoff(session))
  BY <1>1 DEF WithRow, Manifest
<1>3. Instruments \subseteq DOMAIN versions
  BY <1>1 DEF EvidenceInv, VersionsFit
<1>4. session > TICKER_CHANGE => claims # {}
  BY DEF HistoryFits, ChangeIsDue
<1>5. claims # {} => session > TICKER_CHANGE \/ session \in DOMAIN snapshots
  <2>1. PICK n \in 0..LAST : DOMAIN snapshots = 1..n /\ session <= n + 1
    BY DEF SnapshotsFit
  <2>2. session \in Nat \ {0} /\ n \in Nat /\ TICKER_CHANGE \in Nat
    BY SnapshotsAssumption, MarketAssumption DEF EvidenceInv, EvidenceFits, Session
  <2>3. session = n + 1
    BY <1>1, <2>1, <2>2
  <2>4. claims # {} => TICKER_CHANGE \in 1..n
    BY <2>1 DEF HistoryFits
  <2> QED
    BY <2>2, <2>3, <2>4
<1>6. UniverseKnows(Search(Cutoff(session)), session)
  BY <1>1, <1>3, <1>4, <1>5, UniverseFits
<1>7. \A s : Search(Cutoff(s))' = Search(Cutoff(s))
  BY <1>1 DEF Search, VersionsAsOf
<1>8. \A s \in DOMAIN snapshots' :
        /\ UniverseKnows(snapshots'[s].universe, s)
        /\ s # TICKER_CHANGE \/ claims = {} => Search(Cutoff(s))' = snapshots'[s].universe
  BY <1>2, <1>6, <1>7 DEF HistoryFits
<1>9. ChangeIsDue' => claims # {}
  BY <1>1, <1>2, <1>4 DEF HistoryFits, ChangeIsDue, Past
<1>10. claims # {} => TICKER_CHANGE \in DOMAIN snapshots'
  BY <1>2 DEF HistoryFits
<1> QED
  BY <1>1, <1>3, <1>8, <1>9, <1>10 DEF HistoryFits, UniverseKnows

LEMMA HistoryInvStep ==
  ASSUME EvidenceInv, IngestionFits, SnapshotsFit, HistoryFits, Next
  PROVE  HistoryFits'
<1>1. ASSUME UNCHANGED <<versions, claims, snapshots, session>>,
             phase' \in Past => phase \in Past
      PROVE  HistoryFits'
  <2>1. ChangeIsDue' => ChangeIsDue
    BY <1>1 DEF ChangeIsDue
  <2> QED
    BY <1>1, <2>1, HistoryKept DEF HistoryFits
<1>2. CASE AnnounceChanges \/ NothingToAnnounce
  <2>1. /\ UNCHANGED <<versions, snapshots, session>> /\ phase = "reference" /\ Unclaimed = {}
        /\ claims' = claims \cup applied \/ claims' = claims
    BY <1>2 DEF AnnounceChanges, NothingToAnnounce, stored
  <2>2. applied \subseteq claims
    BY DEF EvidenceInv, ClaimsFit
  <2>3. claims' = claims
    BY <2>1, <2>2
  <2>4. session = TICKER_CHANGE => claims # {}
    <3>1. session \in DOMAIN snapshots
      BY <2>1 DEF EvidenceInv, EvidenceFits
    <3>2. snapshots[session].evidence = SeenBy(session)
      BY <3>1 DEF SnapshotsFit, FrozenAs
    <3>3. session = TICKER_CHANGE => Change \in EffectiveActions /\ Change.detail = "TICKER_CHANGE"
      BY <3>2, ChangeIsSeen DEF EffectiveActions, Change, Content
    <3> QED
      BY <2>1, <2>2, <3>3 DEF Unclaimed
  <2>5. ChangeIsDue' => claims # {}
    BY <2>1, <2>4 DEF HistoryFits, ChangeIsDue
  <2> QED
    BY <2>1, <2>3, <2>5, HistoryKept
<1>3. CASE NextSession
  <2>1. /\ UNCHANGED <<versions, claims, snapshots>> /\ session' = session + 1
        /\ phase = "over" /\ phase' = "storing"
    BY <1>3 DEF NextSession, stored
  <2>2. session \in Nat /\ TICKER_CHANGE \in Nat
    BY SnapshotsAssumption, MarketAssumption DEF EvidenceInv, EvidenceFits, Session
  <2>3. ChangeIsDue' => ChangeIsDue
    BY <2>1, <2>2 DEF ChangeIsDue, Past
  <2> QED
    BY <2>1, <2>3, HistoryKept DEF HistoryFits
<1>4. CASE RunAgain
  <2>1. UNCHANGED <<versions, claims, snapshots>> /\ session' = 1 /\ phase' = "opening"
    BY <1>4 DEF RunAgain, stored
  <2>2. ChangeIsDue' => ChangeIsDue
    BY <2>1, MarketAssumption DEF ChangeIsDue, Past
  <2> QED
    BY <2>1, <2>2, HistoryKept DEF HistoryFits
<1>5. CASE Opened \/ StoreKnown \/ StoreNew \/ LogIngestion \/ Describe \/ ReturnFrozen
           \/ RefuseDivergent \/ Stop
  BY <1>1, <1>5 DEF Opened, StoreKnown, StoreNew, LogIngestion, Describe, Offered, ReturnFrozen,
                    RefuseDivergent, Stop, stored, Past
<1>6. CASE Fill \/ NothingToFill \/ Decide \/ Finish
  BY <1>1, <1>6 DEF Fill, NothingToFill, Decide, Finish, stored, Past
<1>7. CASE (\E day \in Session : Seal(day)) \/ Rested
  <2>1. UNCHANGED <<versions, claims, snapshots, session, phase>>
    BY <1>7 DEF Seal, Rested, vars, stored, process
  <2> QED
    BY <1>1, <2>1
<1> QED
  BY <1>2, <1>3, <1>4, <1>5, <1>6, <1>7, AdmitHistory, StatusHistory, ChangeHistory, FreezeHistory
  DEF Next

-----------------------------------------------------------------------------
(* The process: its phases, and what it takes to be refused. *)

PhaseFits ==
  /\ runs \in 1..MAX_RUNS
  /\ phase \in AtRest \cup {"opening", "storing", "logging", "describing", "reference",
                           "filling", "deciding", "over"}
  /\ phase = "refused" => /\ session = TICKER_CHANGE /\ session \in DOMAIN snapshots
                          /\ claims # {} /\ ~HasOffer

LEMMA PhaseStep ==
  ASSUME EvidenceInv, IngestionFits, SnapshotsFit, HistoryFits, PhaseFits, Next
  PROVE  PhaseFits'
<1>1. runs' \in 1..MAX_RUNS
  <2>1. CASE RunAgain
    BY <2>1, SnapshotsAssumption DEF PhaseFits, RunAgain
  <2>2. CASE ~RunAgain
    BY <2>2 DEF PhaseFits, Next, Admit, Opened, StoreKnown, StoreNew, LogIngestion, Describe, Freeze,
       ReturnFrozen, RefuseDivergent, ApplyChange, AnnounceChanges, NothingToAnnounce, Fill,
       NothingToFill, Decide, NextSession, Finish, Stop, RecordStatus, Seal, Rested, vars
  <2> QED
    BY <2>1, <2>2
<1>2. phase' = phase \/ phase' \in AtRest \cup {"opening", "storing", "logging", "describing",
                                               "reference", "filling", "deciding", "over"}
  BY DEF Next, Admit, Opened, StoreKnown, StoreNew, LogIngestion, Describe, Offered, Freeze,
         ReturnFrozen, RefuseDivergent, ApplyChange, AnnounceChanges, NothingToAnnounce, Fill,
         NothingToFill, Decide, NextSession, Finish, Stop, RunAgain, RecordStatus, Seal, Rested,
         stored, process, vars, AtRest
<1>3. CASE RefuseDivergent
  <2>1. /\ session \in DOMAIN snapshots /\ ~HasOffer /\ ~SameManifest(session)
        /\ UNCHANGED <<snapshots, claims, session, position>>
    BY <1>3 DEF RefuseDivergent, stored
  <2>2. snapshots[session] = FrozenAs(snapshots[session].universe, session)
    BY <2>1 DEF SnapshotsFit
  <2>3. Manifest(session) = FrozenAs(Search(Cutoff(session)), session)
    BY <2>1, VisibleIsSeen DEF Manifest, FrozenAs
  <2>4. Search(Cutoff(session)) # snapshots[session].universe
    BY <2>1, <2>2, <2>3 DEF SameManifest
  <2>5. session = TICKER_CHANGE /\ claims # {}
    BY <2>1, <2>4 DEF HistoryFits
  <2> QED
    BY <1>1, <1>2, <2>1, <2>5 DEF PhaseFits, HasOffer
<1>4. CASE phase' # "refused"
  BY <1>1, <1>2, <1>4 DEF PhaseFits
<1>5. ASSUME ~RefuseDivergent, phase' = "refused" PROVE PhaseFits'
  <2>1. phase = "refused" /\ UNCHANGED <<snapshots, claims, session, position>>
    BY <1>5 DEF Next, Admit, Opened, StoreKnown, StoreNew, LogIngestion, Describe, Offered, Freeze,
           ReturnFrozen, ApplyChange, AnnounceChanges, NothingToAnnounce, Fill, NothingToFill,
           Decide, NextSession, Finish, Stop, RunAgain, RecordStatus, Seal, Rested, stored, process,
           vars
  <2> QED
    BY <1>1, <1>2, <2>1 DEF PhaseFits, HasOffer
<1> QED
  BY <1>3, <1>4, <1>5

-----------------------------------------------------------------------------
RebuildInv ==
  /\ EvidenceInv
  /\ IngestionFits /\ ChainFits /\ SnapshotsFit /\ HistoryFits /\ PhaseFits

LEMMA RebuildInit == Init => RebuildInv
<1> SUFFICES ASSUME Init PROVE RebuildInv
  OBVIOUS
<1>1. EvidenceInv
  BY EvidenceInit
<1>2. DOMAIN metadata = {} /\ DOMAIN snapshots = {} /\ DOMAIN chain = {} /\ DOMAIN versions = {}
  BY DEF Init
<1>3. IngestionFits
  BY <1>2, OfferedFirst DEF Init, IngestionFits, AfterFreeze, Past
<1>4. ChainFits
  BY <1>2 DEF ChainFits
<1>5. SnapshotsFit
  <2>1. 1..0 = {} /\ 0 \in 0..LAST
    BY SnapshotsAssumption
  <2> QED
    BY <1>2, <2>1 DEF Init, SnapshotsFit, AfterFreeze, Past
<1>6. HistoryFits
  BY <1>2, MarketAssumption DEF Init, HistoryFits, ChangeIsDue, Past
<1>7. PhaseFits
  BY SnapshotsAssumption DEF Init, PhaseFits
<1> QED
  BY <1>1, <1>3, <1>4, <1>5, <1>6, <1>7 DEF RebuildInv

LEMMA RebuildStep == RebuildInv /\ [Next]_vars => RebuildInv'
<1> SUFFICES ASSUME RebuildInv, [Next]_vars PROVE RebuildInv'
  OBVIOUS
<1>1. EvidenceInv'
  BY EvidenceInvStep DEF RebuildInv
<1>2. CASE Next
  BY <1>1, <1>2, IngestionStep, ChainInvStep, SnapshotsInvStep, HistoryInvStep, PhaseStep
  DEF RebuildInv
<1>3. CASE UNCHANGED vars
  <2>1. UNCHANGED <<blobs, metadata, versions, claims, snapshots, chain, session, phase, position,
                    candidates, runs>>
    BY <1>3 DEF vars, stored, process
  <2>2. IngestionFits'
    BY <2>1 DEF RebuildInv, IngestionFits, Before, Recorded, Offer, HasOffer
  <2>3. ChainFits'
    BY <2>1 DEF RebuildInv, ChainFits, IsIngested
  <2>4. SnapshotsFit'
    BY <2>1 DEF RebuildInv, SnapshotsFit, FrozenAs
  <2>5. HistoryFits'
    <3>1. ChangeIsDue' => ChangeIsDue
      BY <2>1 DEF ChangeIsDue
    <3> QED
      BY <2>1, <3>1, HistoryKept DEF RebuildInv, HistoryFits
  <2>6. PhaseFits'
    BY <2>1 DEF RebuildInv, PhaseFits, HasOffer
  <2> QED
    BY <1>1, <2>2, <2>3, <2>4, <2>5, <2>6 DEF RebuildInv
<1> QED
  BY <1>2, <1>3
LEMMA Rebuilt == Spec => []RebuildInv
BY RebuildInit, RebuildStep, PTL DEF Spec

\* The tables keep their shape: snapshots are frozen in the order of the sessions,
\* nothing is described that is not stored, and no version repeats the one before it.
THEOREM ShapesHold == Spec => []TypeOK
<1>1. RebuildInv => TypeOK
  <2> SUFFICES ASSUME RebuildInv PROVE TypeOK
    OBVIOUS
  <2>1. DOMAIN snapshots \in {1..s : s \in 0..LAST}
    BY DEF RebuildInv, SnapshotsFit
  <2>2. DOMAIN metadata \subseteq blobs
    BY DEF RebuildInv, IngestionFits
  <2>3. session \in Session
    BY DEF RebuildInv, EvidenceInv, EvidenceFits
  <2>4. \A i \in DOMAIN versions : \A k \in 2..Len(versions[i]) :
          versions[i][k] # versions[i][k - 1]
    BY DEF RebuildInv, HistoryFits
  <2> QED
    BY <2>1, <2>2, <2>3, <2>4 DEF RebuildInv, PhaseFits, TypeOK
<1> QED
  BY <1>1, Rebuilt, PTL

\* snapshots/builder.py: however often a study is run and wherever it is stopped, a
\* snapshot holds what its sessions offered and its cutoff had seen, and a ticker change
\* only of a session before it.
THEOREM SnapshotsArePointInTime == Spec => []PointInTime
<1>1. RebuildInv => PointInTime
  <2> SUFFICES ASSUME RebuildInv, NEW s \in DOMAIN snapshots
               PROVE  /\ snapshots[s].evidence = SeenBy(s)
                      /\ UniverseKnows(snapshots[s].universe, s)
    BY DEF PointInTime, SeenBy, UniverseKnows
  <2>1. snapshots[s].evidence = SeenBy(s)
    BY EvidenceIsSeen DEF RebuildInv
  <2> QED
    BY <2>1 DEF RebuildInv, HistoryFits
<1> QED
  BY <1>1, Rebuilt, PTL

\* ingestion/pipeline.py: whatever is described, or frozen into a snapshot, has exactly
\* one event that says when it was first seen; a stop leaves one event unmatched at most.
THEOREM IngestionAlwaysExplained == Spec => []IngestionExplained
<1> DEFINE logged == {k \in DOMAIN chain : chain[k].type = "DATA_INGESTED"}
           of(what) == {k \in logged : chain[k].of.what = what}
           unmatched == {chain[k].of.what : k \in logged} \ DOMAIN metadata
<1>1. ASSUME RebuildInv, NEW k \in logged
      PROVE  \E s \in Session : \E p \in DOMAIN Feed(s) :
               /\ IsIngested(chain[k], s, p) /\ chain[k].of = Feed(s)[p]
               /\ chain[k] = Ingested(OfferOf(chain[k].of.what))
  <2>1. PICK s \in Session : \E p \in DOMAIN Feed(s) : IsIngested(chain[k], s, p)
    BY <1>1 DEF RebuildInv, ChainFits
  <2>2. PICK p \in DOMAIN Feed(s) : IsIngested(chain[k], s, p)
    BY <2>1
  <2>3. chain[k].of = Feed(s)[p] /\ chain[k] = Ingested(Feed(s)[p])
    BY <2>2 DEF IsIngested, Ingested, Event
  <2>4. Feed(s)[p] = OfferOf(Feed(s)[p].what)
    BY FeedIsSound
  <2> QED
    BY <2>2, <2>3, <2>4
<1>2. ASSUME RebuildInv, NEW what \in DOMAIN metadata
      PROVE  /\ Cardinality(of(what)) = 1
             /\ \A k \in of(what) : chain[k].of.seen = metadata[what]
  <2>1. Recorded(Ingested(OfferOf(what))) /\ metadata[what] = OfferOf(what).seen
    BY <1>2 DEF RebuildInv, IngestionFits
  <2>2. IsSequence(chain)
    BY <1>2 DEF RebuildInv, EvidenceInv
  <2>3. PICK k \in DOMAIN chain : chain[k] = Ingested(OfferOf(what))
    BY <2>1, <2>2 DEF Recorded, Contains, IsSequence
  <2>4. k \in of(what)
    BY <2>3 DEF Ingested, Event, OfferOf
  <2>5. \A j \in of(what) : chain[j] = chain[k]
    BY <1>1, <1>2, <2>3
  <2>6. \A j \in of(what) : j = k
    BY <1>2, <2>5 DEF RebuildInv, ChainFits
  <2>7. of(what) = {k}
    BY <2>4, <2>6
  <2>8. Cardinality(of(what)) = 1
    BY <2>7, FS_Singleton
  <2>9. \A j \in of(what) : chain[j].of.seen = metadata[what]
    BY <2>1, <2>3, <2>5 DEF Ingested, Event
  <2> QED
    BY <2>8, <2>9
<1>3. ASSUME RebuildInv PROVE Cardinality(unmatched) <= 1
  <2>1. ASSUME NEW j \in logged, NEW k \in logged,
               chain[j].of.what \notin DOMAIN metadata, chain[k].of.what \notin DOMAIN metadata
        PROVE  chain[j].of.what = chain[k].of.what
    <3>1. PICK s \in Session : \E p \in DOMAIN Feed(s) :
               IsIngested(chain[j], s, p) /\ chain[j].of = Feed(s)[p]
      BY <1>1, <1>3
    <3>2. PICK p \in DOMAIN Feed(s) : IsIngested(chain[j], s, p) /\ chain[j].of = Feed(s)[p]
      BY <3>1
    <3>3. PICK t \in Session : \E q \in DOMAIN Feed(t) :
               IsIngested(chain[k], t, q) /\ chain[k].of = Feed(t)[q]
      BY <1>1, <1>3
    <3>4. PICK q \in DOMAIN Feed(t) : IsIngested(chain[k], t, q) /\ chain[k].of = Feed(t)[q]
      BY <3>3
    <3>5. Feed(s)[p] \notin Before(t, q) /\ Feed(t)[q] \notin Before(s, p)
      BY <2>1, <3>2, <3>4 DEF IsIngested
    <3>6. Feed(s)[p] = Feed(t)[q]
      BY <3>5, BeforeOrder
    <3> QED
      BY <3>2, <3>4, <3>6
  <2>2. CASE unmatched = {}
    BY <2>2, FS_EmptySet
  <2>3. CASE unmatched # {}
    <3>1. PICK w \in unmatched : TRUE
      BY <2>3
    <3>2. unmatched = {w}
      BY <2>1, <3>1
    <3>3. Cardinality(unmatched) = 1
      BY <3>2, FS_Singleton
    <3> QED
      BY <3>3
  <2> QED
    BY <2>2, <2>3
<1>4. ASSUME RebuildInv
      PROVE  \A s \in DOMAIN snapshots : snapshots[s].evidence \subseteq DOMAIN metadata
  BY <1>4, EvidenceIsSeen DEF RebuildInv
<1>5. ASSUME RebuildInv, phase \in {"reference", "filling", "deciding", "over", "finished"}
      PROVE  \A offer \in OfferedBy(session) : offer.what \in DOMAIN metadata
  <2>1. ~HasOffer
    BY <1>5 DEF RebuildInv, IngestionFits, AfterFreeze, Past
  <2> QED
    BY <1>5, <2>1, VisibleIsSeen DEF RebuildInv
<1> HIDE DEF logged, of, unmatched
<1>6. RebuildInv => IngestionExplained
  BY <1>2, <1>3, <1>4, <1>5 DEF IngestionExplained, logged, of, unmatched
<1> QED
  BY <1>6, Rebuilt, PTL

\* snapshots/builder.py:174-180: whatever is recorded or offered since, a repeated run
\* rebuilds every snapshot but the one of the ticker change's own session.
THEOREM OnlyTheChangeDiverges == Spec => []RefusedOnlyByOwnChange
<1>1. RebuildInv => RefusedOnlyByOwnChange
  <2> SUFFICES ASSUME RebuildInv, phase = "refused"
               PROVE  /\ session = TICKER_CHANGE
                      /\ Search(Cutoff(session))[ALPHA].ticker
                           # snapshots[session].universe[ALPHA].ticker
                      /\ Visible(session) = snapshots[session].evidence
    BY DEF RefusedOnlyByOwnChange
  <2>1. /\ session = TICKER_CHANGE /\ session \in DOMAIN snapshots
        /\ claims # {} /\ ~HasOffer
    BY DEF RebuildInv, PhaseFits
  <2>2. session \in Nat /\ Cutoff(session) \in Nat
    BY <2>1, MarketAssumption DEF Cutoff
  <2>3. ALPHA \in DOMAIN versions /\ ALPHA \in Instruments
    BY <2>1 DEF RebuildInv, HistoryFits, Instruments
  <2>4. Search(Cutoff(session))[ALPHA].ticker = "second"
    BY <2>1, <2>2, <2>3, ChangeFound DEF RebuildInv
  <2>5. snapshots[session].universe[ALPHA].ticker = "first"
    BY <2>1, <2>2, <2>3 DEF RebuildInv, HistoryFits, UniverseKnows
  <2>6. snapshots[session].evidence = SeenBy(session)
    BY <2>1 DEF RebuildInv, SnapshotsFit, FrozenAs
  <2> QED
    BY <2>1, <2>4, <2>5, <2>6, VisibleIsSeen DEF RebuildInv
<1> QED
  BY <1>1, Rebuilt, PTL
-----------------------------------------------------------------------------
(* Daily roots: what is recorded of a day before its outcome, and what after. *)

Outcome(d) == Recorded(Decided(d)) \/ Recorded(Missed(d))
Filled(d) == Event("ORDER_FILLED", Cutoff(d), d)
Settled(d) == d = 1 \/ Recorded(Filled(d)) \/ Recorded(Missed(d - 1))

\* A session whose outcome is known has been frozen, its change announced or lost, and
\* what was ordered before it filled, or nothing was ordered for want of a decision.
OutcomeFits ==
  /\ ~Outcome(0)
  /\ \A d \in Session : Outcome(d) => /\ d \in DOMAIN snapshots
                                      /\ d = TICKER_CHANGE => Change \in Announced \cup unsaid
                                      /\ Settled(d)
  /\ phase = "over" => Outcome(session)
  /\ session > 1 => Outcome(session - 1)
  /\ phase = "deciding" => Settled(session)
  /\ applied # {} => session = TICKER_CHANGE

\* After its outcome a day gains nothing but a decision that had been missing, or a fill
\* of what such a decision ordered.
MayFollow(event, d) ==
  event.type \in {"DECISION_BUNDLE", "ORDER_FILLED"} /\ \E s \in 1..d : Recorded(Missed(s))
ClosedDays ==
  \A d \in Session : \A j, k \in DOMAIN chain :
    j < k /\ chain[j] \in {Decided(d), Missed(d)} /\ Day(chain[k].at) = d => MayFollow(chain[k], d)

\* A root is what it was when it was sealed.
RootFits(r, d) ==
  /\ r.first \in EventsOfDay(d) /\ \A k \in EventsOfDay(d) : r.first <= k
  /\ r.last \in EventsOfDay(d)
  /\ r = [first |-> r.first, last |-> r.last,
          count |-> Cardinality({k \in EventsOfDay(d) : k <= r.last}), head |-> chain[r.last]]
RootsFit == DOMAIN roots \subseteq Session /\ \A d \in DOMAIN roots : RootFits(roots[d], d)

SealInv == RebuildInv /\ OutcomeFits /\ ClosedDays /\ RootsFit

LEMMA DayOfCutoff == ASSUME NEW s \in Nat PROVE Day(Cutoff(s)) = s /\ Day(Cutoff(s) + 1) = s
BY DEF Day, Cutoff

\* The chain is extended at its end, if at all.
LEMMA ChainExtends ==
  ASSUME RebuildInv, Next
  PROVE  /\ DOMAIN chain = 1..Len(chain) /\ Len(chain) \in Nat
         /\ \A k \in DOMAIN chain : k \in DOMAIN chain' /\ chain'[k] = chain[k]
         /\ \A k \in DOMAIN chain' \ DOMAIN chain : k = Len(chain) + 1
         /\ \A e : Recorded(e) => Contains(chain', e)
<1>1. IsSequence(chain)
  BY DEF RebuildInv, EvidenceInv
<1>2. chain' = chain \/ \E event : Emit(event)
  BY DEF Next, Admit, Opened, StoreKnown, StoreNew, LogIngestion, Describe, Freeze, ReturnFrozen,
         RefuseDivergent, ApplyChange, AnnounceChanges, NothingToAnnounce, Fill, NothingToFill,
         Decide, NextSession, Finish, Stop, RunAgain, RecordStatus, Seal, Rested, stored, vars
<1>3. DOMAIN chain = 1..Len(chain) /\ Len(chain) \in Nat
  BY <1>1 DEF IsSequence
<1>4. CASE chain' = chain
  BY <1>3, <1>4 DEF Recorded
<1>5. CASE \E event : Emit(event)
  BY <1>1, <1>5, EmitFits
<1> QED
  BY <1>2, <1>4, <1>5

LEMMA AnnouncedGrows ==
  ASSUME RebuildInv, Next
  PROVE  Announced \subseteq Announced' /\ unsaid \subseteq unsaid'
<1>1. Announced \subseteq Announced'
  <2>1. {j \in DOMAIN chain : chain[j].type = "CORPORATE_ACTIONS_APPLIED"}
          \subseteq {j \in DOMAIN chain' : chain'[j].type = "CORPORATE_ACTIONS_APPLIED"}
    BY ChainExtends
  <2>2. \A k \in DOMAIN chain : chain'[k].of = chain[k].of
    BY ChainExtends
  <2> QED
    BY <2>1, <2>2 DEF Announced
<1>2. unsaid \subseteq unsaid'
  BY DEF Next, Admit, Opened, StoreKnown, StoreNew, LogIngestion, Describe, Freeze, ReturnFrozen,
         RefuseDivergent, ApplyChange, AnnounceChanges, NothingToAnnounce, Fill, NothingToFill,
         Decide, NextSession, Finish, Stop, RunAgain, RecordStatus, Seal, Rested, vars
<1> QED
  BY <1>1, <1>2

LEMMA RootsStep ==
  ASSUME SealInv, Next
  PROVE  RootsFit'
<1> USE DEF SealInv
<1>1. /\ DOMAIN chain = 1..Len(chain) /\ Len(chain) \in Nat
      /\ \A k \in DOMAIN chain : k \in DOMAIN chain' /\ chain'[k] = chain[k]
      /\ \A k \in DOMAIN chain' \ DOMAIN chain : k = Len(chain) + 1
  BY ChainExtends
<1>2. ASSUME NEW d, NEW r, RootFits(r, d) PROVE RootFits(r, d)'
  <2>1. /\ \A k \in EventsOfDay(d) : k \in EventsOfDay(d)' /\ k \in 1..Len(chain)
        /\ \A k \in EventsOfDay(d)' : k \in EventsOfDay(d) \/ k = Len(chain) + 1
    BY <1>1 DEF EventsOfDay
  <2>2. r.last \in 1..Len(chain) /\ r.first \in 1..Len(chain)
    BY <1>2, <2>1 DEF RootFits
  <2>3. {k \in EventsOfDay(d)' : k <= r.last} = {k \in EventsOfDay(d) : k <= r.last}
    BY <1>1, <2>1, <2>2
  <2>4. \A k \in EventsOfDay(d)' : r.first <= k
    BY <1>1, <1>2, <2>1, <2>2 DEF RootFits
  <2>5. chain'[r.last] = chain[r.last]
    BY <1>1, <2>2
  <2> QED
    BY <1>2, <2>1, <2>3, <2>4, <2>5 DEF RootFits
<1>3. CASE roots' = roots
  BY <1>2, <1>3 DEF RootsFit
<1>4. ASSUME NEW day \in Session, Seal(day) PROVE RootsFit'
  <2> DEFINE rows == EventsOfDay(day)
  <2>0. PICK r : r = Root(day)
    OBVIOUS
  <2>1. rows # {} /\ roots' = WithRow(roots, day, r) /\ chain' = chain
    BY <1>4, <2>0 DEF Seal
  <2>2. rows \in SUBSET (1..Len(chain)) /\ rows \in SUBSET Nat
    BY <1>1 DEF EventsOfDay
  <2>3. \E k \in rows : \A j \in rows : k <= j
    BY <2>1, <2>2, LeastOf
  <2>4. \E k \in rows : \A j \in rows : j <= k
    BY <1>1, <2>1, <2>2, Greatest
  <2>5. /\ r.first \in rows /\ \A j \in rows : r.first <= j
        /\ r.last \in rows /\ \A j \in rows : j <= r.last
        /\ r = [first |-> r.first, last |-> r.last, count |-> Cardinality(rows),
                head |-> chain[r.last]]
    BY <2>0, <2>3, <2>4 DEF Root
  <2>6. {k \in rows : k <= r.last} = rows
    BY <2>5
  <2>7. RootFits(r, day)
    BY <2>5, <2>6 DEF RootFits
  <2>8. RootFits(r, day)'
    BY <1>2, <2>7
  <2>9. /\ DOMAIN roots' = DOMAIN roots \cup {day}
        /\ \A d \in DOMAIN roots : roots'[d] = roots[d]
        /\ day \notin DOMAIN roots => roots'[day] = r
    BY <2>1 DEF WithRow
  <2>10. day \notin DOMAIN roots
    BY <1>4 DEF Seal
  <2>11. \A d \in DOMAIN roots : \A x : x = roots[d] => RootFits(x, d)'
    BY <1>2 DEF RootsFit
  <2> QED
    BY <2>8, <2>9, <2>10, <2>11 DEF RootsFit
<1>5. Next => roots' = roots \/ \E day \in Session : Seal(day)
  BY DEF Next, Admit, Opened, StoreKnown, StoreNew, LogIngestion, Describe, Freeze, ReturnFrozen,
         RefuseDivergent, ApplyChange, AnnounceChanges, NothingToAnnounce, Fill, NothingToFill,
         Decide, NextSession, Finish, Stop, RunAgain, RecordStatus, Rested, stored, vars
<1> QED
  BY <1>3, <1>4, <1>5

\* Which outcomes an event may add.
LEMMA OutcomeAdds ==
  ASSUME NEW event, Emit(event), IsSequence(chain)
  PROVE  \A d : Outcome(d)' <=> Outcome(d) \/ event \in {Decided(d), Missed(d)}
<1>1. \A e : Contains(chain', e) <=> Recorded(e) \/ e = event
  BY EmitFits
<1> QED
  BY <1>1 DEF Outcome, Recorded

LEMMA OutcomeStep ==
  ASSUME SealInv, Next
  PROVE  OutcomeFits'
<1> USE DEF SealInv
<1>0. /\ session \in Session /\ Session = 1..LAST /\ LAST \in Nat /\ IsSequence(chain)
      /\ \A e : Recorded(e) => Contains(chain', e)
      /\ Announced \subseteq Announced' /\ unsaid \subseteq unsaid'
      /\ DOMAIN snapshots \subseteq DOMAIN snapshots'
  <2>1. DOMAIN snapshots \subseteq DOMAIN snapshots'
    BY DEF Next, Admit, Opened, StoreKnown, StoreNew, LogIngestion, Describe, Freeze,
           ReturnFrozen, RefuseDivergent, ApplyChange, AnnounceChanges, NothingToAnnounce, Fill,
           NothingToFill, Decide, NextSession, Finish, Stop, RunAgain, RecordStatus, Seal, Rested,
           stored, vars, WithRow
  <2> QED
    BY <2>1, ChainExtends, AnnouncedGrows, SnapshotsAssumption
    DEF RebuildInv, EvidenceInv, EvidenceFits, Session
<1>1. \A d : Settled(d) => Settled(d)'
  BY <1>0 DEF Settled, Recorded
<1>2. \A d : Outcome(d) => Outcome(d)'
  BY <1>0 DEF Outcome, Recorded
<1>3. \/ ~Decide /\ \A d : Outcome(d)' => Outcome(d)
      \/ Decide /\ Outcome(session)' /\ \A d : Outcome(d)' => Outcome(d) \/ d = session
  <2>1. CASE Decide
    <3>1. PICK event \in {Decided(session), Missed(session)} : Emit(event)
      BY <2>1 DEF Decide
    <3>2. \A d : event \in {Decided(d), Missed(d)} <=> d = session
      BY <3>1 DEF Decided, Missed, Event
    <3>3. \A d : Outcome(d)' <=> Outcome(d) \/ d = session
      BY <1>0, <3>1, <3>2, OutcomeAdds
    <3>4. session' = session
      BY <2>1 DEF Decide
    <3> QED
      BY <2>1, <3>3, <3>4
  <2>2. CASE ~Decide /\ (LogIngestion \/ Freeze \/ AnnounceChanges \/ Fill)
    <3>1. PICK event : /\ Emit(event)
                       /\ event.type \in {"DATA_INGESTED", "SNAPSHOT_BUILT", "ORDER_FILLED",
                                          "CORPORATE_ACTIONS_APPLIED"}
      BY <2>2 DEF LogIngestion, Freeze, AnnounceChanges, Fill, Ingested, Event
    <3>2. \A d : event \notin {Decided(d), Missed(d)}
      BY <3>1 DEF Decided, Missed, Event
    <3> QED
      BY <1>0, <2>2, <3>1, <3>2, OutcomeAdds
  <2>3. CASE ~(Decide \/ LogIngestion \/ Freeze \/ AnnounceChanges \/ Fill)
    <3>1. chain' = chain
      BY <2>3 DEF Next, Admit, Opened, StoreKnown, StoreNew, Describe, ReturnFrozen,
           RefuseDivergent, ApplyChange, NothingToAnnounce, NothingToFill, NextSession, Finish,
           Stop, RunAgain, RecordStatus, Seal, Rested, stored, vars
    <3> QED
      BY <2>3, <3>1 DEF Outcome, Recorded
  <2> QED
    BY <2>1, <2>2, <2>3
<1>4. ASSUME NEW d \in Session, Outcome(d)'
      PROVE  /\ d \in DOMAIN snapshots'
             /\ d = TICKER_CHANGE => Change \in Announced' \cup unsaid'
             /\ Settled(d)'
  <2>1. CASE Outcome(d)
    BY <1>0, <1>1, <2>1 DEF OutcomeFits
  <2>2. CASE Decide /\ d = session
    <3>1. phase = "deciding" /\ Settled(d)
      BY <2>2 DEF Decide, OutcomeFits
    <3>2. d \in DOMAIN snapshots
      BY <1>0, <2>2, <3>1 DEF RebuildInv, SnapshotsFit, AfterFreeze, Past
    <3>3. d = TICKER_CHANGE => claims # {} /\ applied = {}
      BY <2>2, <3>1 DEF RebuildInv, HistoryFits, ChangeIsDue, Past, EvidenceInv, ClaimsFit
    <3>4. d = TICKER_CHANGE => Change \in Announced \cup unsaid
      BY <3>3 DEF RebuildInv, EvidenceInv, ClaimsFit
    <3> QED
      BY <1>0, <1>1, <3>1, <3>2, <3>4
  <2> QED
    BY <1>3, <1>4, <2>1, <2>2
<1>5. ~Outcome(0)'
  BY <1>0, <1>3 DEF OutcomeFits
<1>6. phase' = "over" => Outcome(session)'
  <2>1. phase' = "over" => Decide /\ session' = session
    BY DEF Next, Admit, Opened, StoreKnown, StoreNew, LogIngestion, Describe, Offered, Freeze,
           ReturnFrozen, RefuseDivergent, ApplyChange, AnnounceChanges, NothingToAnnounce, Fill,
           NothingToFill, Decide, NextSession, Finish, Stop, RunAgain, RecordStatus, Seal, Rested,
           stored, process, vars, AtRest
  <2> QED
    BY <1>3, <2>1 DEF Outcome, Decided, Missed, Cutoff
<1>7. session' > 1 => Outcome(session - 1)'
  <2>1. \/ session' = session
        \/ session' = session + 1 /\ phase = "over"
        \/ session' = 1
    BY DEF Next, Admit, Opened, StoreKnown, StoreNew, LogIngestion, Describe, Offered, Freeze,
           ReturnFrozen, RefuseDivergent, ApplyChange, AnnounceChanges, NothingToAnnounce, Fill,
           NothingToFill, Decide, NextSession, Finish, Stop, RunAgain, RecordStatus, Seal, Rested,
           stored, process, vars
  <2>2. session + 1 - 1 = session
    BY <1>0
  <2> QED
    BY <1>0, <1>2, <2>1, <2>2 DEF OutcomeFits
<1>8. phase' = "deciding" => Settled(session)'
  <2>1. phase' = "deciding" => session' = session /\ (Fill \/ NothingToFill)
    BY DEF Next, Admit, Opened, StoreKnown, StoreNew, LogIngestion, Describe, Offered, Freeze,
           ReturnFrozen, RefuseDivergent, ApplyChange, AnnounceChanges, NothingToAnnounce, Fill,
           NothingToFill, Decide, NextSession, Finish, Stop, RunAgain, RecordStatus, Seal, Rested,
           stored, process, vars, AtRest
  <2>2. Fill => Contains(chain', Filled(session))
    BY <1>0, EmitFits DEF Fill, Filled
  <2>3. NothingToFill => Settled(session)
    BY <1>0 DEF NothingToFill, OutcomeFits, Outcome, Settled
  <2>4. ASSUME session' = session, Contains(chain', Filled(session)) PROVE Settled(session)'
    BY <2>4 DEF Settled, Recorded
  <2>5. ASSUME session' = session, Settled(session) PROVE Settled(session)'
    BY <1>0, <2>5 DEF Settled, Recorded
  <2> QED
    BY <2>1, <2>2, <2>3, <2>4, <2>5
<1>9. applied' # {} => session' = TICKER_CHANGE
  <2>1. CASE ApplyChange
    <3>1. PICK e \in Unclaimed : TRUE
      BY <2>1 DEF ApplyChange
    <3>2. phase = "reference" /\ session' = session
      BY <2>1 DEF ApplyChange
    <3>3. e = Change /\ e.asOf = Cutoff(session)
      BY <3>1, <3>2 DEF Unclaimed, EffectiveActions, RebuildInv, EvidenceInv, EvidenceFits, IsSound
    <3> QED
      BY <1>0, <3>2, <3>3, MarketAssumption DEF Change, Content, Cutoff
  <2>2. CASE ~ApplyChange
    <3>1. \/ applied' = {}
          \/ applied' = applied /\ session' = session
          \/ applied' = applied /\ phase = "over"
      BY <2>2 DEF Next, Admit, Opened, StoreKnown, StoreNew, LogIngestion, Describe, Offered,
           Freeze, ReturnFrozen, RefuseDivergent, AnnounceChanges, NothingToAnnounce, Fill,
           NothingToFill, Decide, NextSession, Finish, Stop, RunAgain, RecordStatus, Seal, Rested,
           stored, process, vars
    <3> QED
      BY <3>1 DEF OutcomeFits, RebuildInv, EvidenceInv, ClaimsFit
  <2> QED
    BY <2>1, <2>2
<1> QED
  BY <1>4, <1>5, <1>6, <1>7, <1>8, <1>9 DEF OutcomeFits

\* An event that may follow the outcome of its day, if that is known, keeps the days closed.
LEMMA ClosedKept ==
  ASSUME IsSequence(chain), ClosedDays, NEW event, Emit(event),
         \A d \in Session :
           ~Recorded(event) /\ Outcome(d) /\ Day(event.at) = d => MayFollow(event, d)
  PROVE  ClosedDays'
<1>1. /\ \A e : Contains(chain', e) <=> Recorded(e) \/ e = event
      /\ \A k \in DOMAIN chain : k \in DOMAIN chain' /\ chain'[k] = chain[k]
      /\ \A k \in DOMAIN chain' \ DOMAIN chain :
           k = Len(chain) + 1 /\ chain'[k] = event /\ ~Recorded(event)
      /\ DOMAIN chain = 1..Len(chain) /\ Len(chain) \in Nat
  BY EmitFits
<1>2. SUFFICES ASSUME NEW d \in Session, NEW j \in DOMAIN chain', NEW k \in DOMAIN chain',
                      j < k, chain'[j] \in {Decided(d), Missed(d)}, Day(chain'[k].at) = d
               PROVE  /\ chain'[k].type \in {"DECISION_BUNDLE", "ORDER_FILLED"}
                      /\ \E s \in 1..d : Contains(chain', Missed(s))
  BY DEF ClosedDays, MayFollow, Recorded, Decided, Missed, Event, Day, Cutoff
<1>3. j \in DOMAIN chain
  BY <1>1, <1>2
<1>4. chain[j] \in {Decided(d), Missed(d)}
  BY <1>1, <1>2, <1>3
<1>5. CASE k \in DOMAIN chain
  <2>1. MayFollow(chain[k], d)
    BY <1>1, <1>2, <1>3, <1>4, <1>5 DEF ClosedDays
  <2> QED
    BY <1>1, <1>5, <2>1 DEF MayFollow
<1>6. CASE k \notin DOMAIN chain
  <2>1. chain'[k] = event /\ ~Recorded(event)
    BY <1>1, <1>2, <1>6
  <2>2. Outcome(d)
    BY <1>1, <1>3, <1>4 DEF Outcome, Recorded, Contains
  <2>3. MayFollow(event, d)
    BY <1>2, <2>1, <2>2
  <2> QED
    BY <1>1, <2>1, <2>3 DEF MayFollow
<1> QED
  BY <1>5, <1>6

LEMMA ClosedStep ==
  ASSUME SealInv, Next
  PROVE  ClosedDays'
<1> USE DEF SealInv
<1>0. /\ session \in Session /\ session \in Nat \ {0} /\ IsSequence(chain)
      /\ Day(Cutoff(session)) = session
  BY SnapshotsAssumption, DayOfCutoff DEF RebuildInv, EvidenceInv, EvidenceFits, Session
<1>1. CASE LogIngestion
  <2>1. HasOffer /\ Emit(Ingested(Offer))
    BY <1>1 DEF LogIngestion, RebuildInv, EvidenceInv, EvidenceFits
  <2>2. position \in DOMAIN Feed(session)
    BY <2>1, FeedIsSound DEF HasOffer, RebuildInv, EvidenceInv, EvidenceFits
  <2>3. /\ Offer \in OfferedBy(session) /\ Offer = OfferOf(Offer.what)
        /\ Offer.what.asOf = Cutoff(session)
    BY <1>0, <2>2, FeedIsSound, OfferedNext DEF Offer
  <2>4. Day(Offer.seen) = session
    BY <1>0, <2>3, DayOfCutoff DEF OfferOf
  <2>5. Ingested(Offer).at = Offer.seen
    BY DEF Ingested, Event
  <2>6. ASSUME Outcome(session) PROVE Recorded(Ingested(Offer))
    <3>1. session \in DOMAIN snapshots
      BY <1>0, <2>6 DEF OutcomeFits
    <3>2. Offer.what \in DOMAIN metadata
      BY <2>3, <3>1 DEF RebuildInv, SnapshotsFit
    <3> QED
      BY <2>3, <3>2 DEF RebuildInv, IngestionFits
  <2> QED
    BY <1>0, <2>1, <2>4, <2>5, <2>6, ClosedKept
<1>2. CASE Freeze
  <2> DEFINE event == Event("SNAPSHOT_BUILT", Cutoff(session), session)
  <2>1. Emit(event) /\ Day(event.at) = session /\ ~Outcome(session)
    BY <1>0, <1>2 DEF Freeze, Event, OutcomeFits
  <2> HIDE DEF event
  <2> QED
    BY <1>0, <2>1, ClosedKept
<1>3. CASE AnnounceChanges
  <2> DEFINE event == Event("CORPORATE_ACTIONS_APPLIED", Cutoff(session), applied)
  <2>1. Emit(event) /\ Day(event.at) = session /\ applied # {}
    BY <1>0, <1>3 DEF AnnounceChanges, Event
  <2>2. Change \in applied /\ Change \notin Announced \cup unsaid
    BY <2>1 DEF RebuildInv, EvidenceInv, ClaimsFit
  <2>3. ~Outcome(session)
    BY <1>0, <2>1, <2>2 DEF OutcomeFits
  <2> HIDE DEF event
  <2> QED
    BY <1>0, <2>1, <2>3, ClosedKept
<1>4. CASE Fill
  <2>1. /\ Emit(Filled(session)) /\ Day(Filled(session).at) = session
        /\ Filled(session).type = "ORDER_FILLED" /\ Recorded(Decided(session - 1))
    BY <1>0, <1>4 DEF Fill, Filled, Event
  <2>2. ASSUME ~Recorded(Filled(session)), Outcome(session)
        PROVE  \E s \in 1..session : Recorded(Missed(s))
    <3>1. session = 1 \/ Recorded(Missed(session - 1))
      BY <1>0, <2>2 DEF OutcomeFits, Settled
    <3>2. session # 1
      BY <2>1 DEF OutcomeFits, Outcome
    <3>3. session - 1 \in 1..session
      BY <1>0, <3>2
    <3> QED
      BY <3>1, <3>2, <3>3
  <2> HIDE DEF Filled
  <2>3. \A d \in Session : ~Recorded(Filled(session)) /\ Outcome(d) /\ Day(Filled(session).at) = d
                            => MayFollow(Filled(session), d)
    BY <2>1, <2>2 DEF MayFollow
  <2> QED
    BY <1>0, <2>1, <2>3, ClosedKept
<1>5. CASE Decide
  <2>1. PICK event \in {Decided(session), Missed(session)} :
          /\ Emit(event)
          /\ event = Decided(session) \/ ~Recorded(Decided(session))
    BY <1>5 DEF Decide
  <2>2. Day(event.at) = session /\ (event = Decided(session) => event.type = "DECISION_BUNDLE")
    BY <1>0, <2>1 DEF Decided, Missed, Event
  <2>3. ~Recorded(event) /\ Outcome(session) => event = Decided(session) /\ Recorded(Missed(session))
    BY <2>1 DEF Outcome
  <2>4. session \in 1..session
    BY <1>0
  <2>5. \A d \in Session : ~Recorded(event) /\ Outcome(d) /\ Day(event.at) = d => MayFollow(event, d)
    BY <2>2, <2>3, <2>4 DEF MayFollow
  <2> QED
    BY <1>0, <2>1, <2>5, ClosedKept
<1>6. CASE chain' = chain
  BY <1>6 DEF ClosedDays, MayFollow, Recorded, Decided, Missed
<1>7. Next => chain' = chain \/ LogIngestion \/ Freeze \/ AnnounceChanges \/ Fill \/ Decide
  BY DEF Next, Admit, Opened, StoreKnown, StoreNew, Describe, ReturnFrozen, RefuseDivergent,
         ApplyChange, NothingToAnnounce, NothingToFill, NextSession, Finish, Stop, RunAgain,
         RecordStatus, Seal, Rested, stored, vars
<1> QED
  BY <1>1, <1>2, <1>3, <1>4, <1>5, <1>6, <1>7

LEMMA SealInit == Init => SealInv
<1> SUFFICES ASSUME Init PROVE SealInv
  OBVIOUS
<1>1. DOMAIN chain = {} /\ DOMAIN roots = {} /\ \A e : ~Recorded(e)
  BY DEF Init, Recorded, Contains
<1>2. OutcomeFits
  BY <1>1 DEF Init, OutcomeFits, Outcome
<1>3. ClosedDays /\ RootsFit
  BY <1>1 DEF ClosedDays, RootsFit
<1> QED
  BY <1>2, <1>3, RebuildInit DEF SealInv

LEMMA SealStep == SealInv /\ [Next]_vars => SealInv'
<1> SUFFICES ASSUME SealInv, [Next]_vars PROVE SealInv'
  OBVIOUS
<1>1. RebuildInv'
  BY RebuildStep DEF SealInv
<1>2. CASE Next
  BY <1>1, <1>2, OutcomeStep, ClosedStep, RootsStep DEF SealInv
<1>3. CASE UNCHANGED vars
  <2>1. UNCHANGED <<snapshots, chain, roots, session, phase, applied, unsaid>>
    BY <1>3 DEF vars, stored, process
  <2>2. OutcomeFits' /\ ClosedDays'
    BY <2>1 DEF SealInv, OutcomeFits, ClosedDays, Outcome, Settled, MayFollow, Recorded, Announced,
                Decided, Missed, Filled
  <2>3. RootsFit'
    <3>1. \A d : EventsOfDay(d)' = EventsOfDay(d)
      BY <2>1 DEF EventsOfDay
    <3>2. \A r, d : RootFits(r, d) => RootFits(r, d)'
      BY <2>1, <3>1 DEF RootFits
    <3> QED
      BY <2>1, <3>2 DEF SealInv, RootsFit
  <2> QED
    BY <1>1, <2>2, <2>3 DEF SealInv
<1> QED
  BY <1>2, <1>3

\* audit/roots.py: a sealed root fails to reproduce exactly when its day gained an event,
\* and one sealed after its session was over gains only what follows a missing decision.
THEOREM SealedDaysAlwaysHold == Spec => []SealedDaysHold
<1>1. ASSUME SealInv, NEW day \in DOMAIN roots,
             NEW late, late = {k \in EventsOfDay(day) : k > roots[day].last}
      PROVE  /\ Diverges(day) <=> late # {}
             /\ (\E k \in 1..roots[day].last : chain[k] \in {Decided(day), Missed(day)}) =>
                  \A k \in late : MayFollow(chain[k], day)
  <2> DEFINE rows == EventsOfDay(day)
  <2>0. PICK r : r = roots[day]
    OBVIOUS
  <2>1. RootFits(r, day) /\ IsSequence(chain) /\ ClosedDays /\ day \in Session
    BY <1>1, <2>0 DEF SealInv, RootsFit, RebuildInv, EvidenceInv
  <2>2. DOMAIN chain = 1..Len(chain) /\ Len(chain) \in Nat
    BY <2>1 DEF IsSequence
  <2>3. /\ rows \in SUBSET (1..Len(chain)) /\ rows \in SUBSET Nat /\ rows # {}
        /\ r.first \in rows /\ r.last \in rows /\ \A k \in rows : r.first <= k
    BY <2>1, <2>2 DEF EventsOfDay, RootFits
  <2>4. PICK n \in rows : \A k \in rows : k <= n
    BY <2>2, <2>3, Greatest
  <2>5. /\ Root(day).first = r.first /\ Root(day).last = n
        /\ Root(day) = [first |-> r.first, last |-> n, count |-> Cardinality(rows),
                        head |-> chain[n]]
    <3>1. \A k \in rows : (\A j \in rows : k <= j) <=> k = r.first
      BY <2>3
    <3>2. \A k \in rows : (\A j \in rows : j <= k) <=> k = n
      BY <2>3, <2>4
    <3> HIDE DEF rows
    <3>3. (CHOOSE k \in rows : \A j \in rows : k <= j) = r.first
      BY <2>3, <3>1
    <3>4. (CHOOSE k \in rows : \A j \in rows : j <= k) = n
      BY <2>4, <3>2
    <3> QED
      BY <3>3, <3>4 DEF Root, rows
  <2>6. late = {} <=> n = r.last
    BY <1>1, <2>0, <2>3, <2>4
  <2>7. n = r.last => {k \in rows : k <= r.last} = rows
    BY <2>4
  <2>8. Root(day) = r <=> n = r.last
    <3>1. r = [first |-> r.first, last |-> r.last,
               count |-> Cardinality({k \in rows : k <= r.last}), head |-> chain[r.last]]
      BY <2>1 DEF RootFits
    <3> HIDE DEF rows
    <3>2. n = r.last => Root(day) = [first |-> r.first, last |-> r.last,
               count |-> Cardinality({k \in rows : k <= r.last}), head |-> chain[r.last]]
      BY <2>5, <2>7
    <3> QED
      BY <2>5, <3>1, <3>2
  <2>9. Diverges(day) <=> late # {}
    BY <2>0, <2>3, <2>6, <2>8 DEF Diverges
  <2>10. ASSUME NEW j \in 1..r.last, chain[j] \in {Decided(day), Missed(day)}, NEW k \in late
         PROVE  MayFollow(chain[k], day)
    <3>1. j \in DOMAIN chain /\ k \in DOMAIN chain /\ j < k /\ Day(chain[k].at) = day
      BY <1>1, <2>0, <2>2, <2>3, <2>10 DEF EventsOfDay
    <3> QED
      BY <2>1, <2>10, <3>1 DEF ClosedDays
  <2> QED
    BY <2>0, <2>9, <2>10
<1>2. SealInv => SealedDaysHold
  BY <1>1 DEF SealedDaysHold, MayFollow
<1> QED
  BY <1>2, SealInit, SealStep, PTL DEF Spec
=============================================================================
