------------------------------ MODULE Retrieval ------------------------------
(***************************************************************************)
(* retrieval/types.py and retrieval/tools.py: the frozen index every       *)
(* condition reads from, and the six tools that are a model's only way in. *)
(*                                                                         *)
(* A piece of evidence is [id, kind, about, asOf, words, chars]: what it   *)
(* is about, its own domain time, the words it can be found by and the     *)
(* length it has once written out.  A tool hands over a sequence of        *)
(* evidence; a quote is a sequence of at most one.                         *)
(***************************************************************************)
EXTENDS Sifting

CONSTANTS
  CUTOFF,       (* the instant the snapshot is frozen at                     *)
  Universe,     (* sequence of [id, status, words, chars], by id             *)
  Evidence,     (* sequence of evidence, by (asOf, id)                       *)
  LONGEST       (* bound: characters of the longest piece of evidence        *)

ASSUME RetrievalAssumption ==
  /\ LONGEST \in Nat
  /\ Evidence \in Seq(ToSet(Evidence)) /\ Universe \in Seq(ToSet(Universe))
  /\ \A k \in DOMAIN Evidence : Evidence[k].chars \in 0..LONGEST /\ Evidence[k].asOf \in Int
  /\ \A k \in DOMAIN Universe : Universe[k].chars \in 0..LONGEST
  /\ \A k \in 1..(Len(Evidence) - 1) : Evidence[k].asOf <= Evidence[k + 1].asOf
  /\ \A j, k \in DOMAIN Universe : Universe[j].id = Universe[k].id => j = k

-----------------------------------------------------------------------------
(* RetrievalIndex *)

Resolves(id) == \E k \in DOMAIN Universe : Universe[k].id = id
Citable(id) == \E k \in DOMAIN Evidence : Evidence[k].id = id

\* Oldest first: the index is in that order already.
EvidenceOfKind(kind, subject) ==
  Sift(Evidence, LAMBDA e : e.kind = kind /\ subject \in e.about)

\* Without a subject, whatever it is about.
EveryOfKind(kind) == Sift(Evidence, LAMBDA e : e.kind = kind)

\* The most recent by its own domain time, if there is any.
LatestOf(kind, subject) ==
  LET matches == EvidenceOfKind(kind, subject)
  IN  IF matches = <<>> THEN <<>> ELSE <<matches[Len(matches)]>>

Found(query, words) == query = {} \/ query \cap words # {}

SearchInstruments(query) == Sift(Universe, LAMBDA v : Found(query, v.words))

-----------------------------------------------------------------------------
(* RetrievalToolkit *)

\* items[:limit]; a negative limit counts from the end.
FirstOf(items, limit) ==
  LET upTo == IF limit < 0 THEN Len(items) + limit ELSE limit
  IN  SubSeq(items, 1, IF upTo < Len(items) THEN upTo ELSE Len(items))

Newest(items, limit) ==
  IF limit > 0 THEN SubSeq(items, Len(items) - limit + 1, Len(items)) ELSE <<>>

\* items[-limit:], also when there are fewer than limit.
LastOf(items, limit) == IF limit > Len(items) THEN items ELSE Newest(items, limit)

NewsMatching(query, subjects) ==
  Sift(EveryOfKind("NEWS_ITEM"),
       LAMBDA e : (subjects = {} \/ subjects \cap e.about # {}) /\ Found(query, e.words))

SearchNews(query, subjects, limit) == LastOf(NewsMatching(query, subjects), limit)

Tools == {"get_price_quote", "search_news", "get_macro_indicator", "get_fx_rate",
          "get_corporate_actions", "search_instruments"}

\* What a tool hands over: call is [tool, about, words, limit], about being a set
\* of at most one subject.
Result(call) ==
  CASE call.tool = "search_news" -> SearchNews(call.words, call.about, call.limit)
    [] call.tool = "search_instruments" -> FirstOf(SearchInstruments(call.words), call.limit)
    [] OTHER ->
         LET subject == CHOOSE s \in call.about : TRUE
         IN  CASE call.tool = "get_price_quote" -> LatestOf("PRICE_BAR", subject)
               [] call.tool = "get_macro_indicator" -> LatestOf("MACRO_RECORD", subject)
               [] call.tool = "get_fx_rate" -> LatestOf("FX_RATE", subject)
               [] call.tool = "get_corporate_actions" ->
                    EvidenceOfKind("CORPORATE_ACTION", subject)

\* One element for each character handed over; nothing hands over more pieces
\* than there are.
Characters(items) ==
  {c \in (DOMAIN Evidence \cup DOMAIN Universe) \X (1..LONGEST) :
     c[1] \in DOMAIN items /\ c[2] <= items[c[1]].chars}
CharCost(items) == Cardinality(Characters(items))

-----------------------------------------------------------------------------
(* forecasting/panel.py *)

Priced ==
  UNION {Evidence[k].about : k \in {j \in DOMAIN Evidence :
           Evidence[j].kind = "PRICE_BAR" /\ Evidence[j].asOf = CUTOFF}}

\* Every active instrument with a fresh price, at every horizon: instrument by
\* instrument, and of each all horizons.
BuildPanel(horizons) ==
  LET asked == Sift(Universe, LAMBDA v : v.status = "ACTIVE" /\ v.id \in Priced)
      size == Len(horizons)
  IN  [n \in 1..(Len(asked) * size) |->
         <<asked[((n - 1) \div size) + 1].id, horizons[((n - 1) % size) + 1]>>]
=============================================================================
