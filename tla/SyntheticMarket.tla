--------------------------- MODULE SyntheticMarket ---------------------------
(***************************************************************************)
(* ingestion/synthetic.py: the fixed world a study is run on, session by   *)
(* session.  Session s has its cutoff at instant 2s; an odd instant lies   *)
(* between two cutoffs.  A record is an offer [what, seen]: what is its    *)
(* content, which names it in the blob store, and seen the instant the     *)
(* platform first observes it.  Prices are reduced to whether they are     *)
(* quoted before or after the split.                                       *)
(***************************************************************************)
EXTENDS Integers, SequencesExt

CONSTANTS
  ALPHA, BETA,            (* the instruments: ALPHA is the one things happen *)
                          (* to, BETA stands for the others                  *)
  NO_NEWS, LATE_DATA, MACRO_REVISION, SPLIT, DIVIDEND,
  TICKER_CHANGE           (* the sessions the fixtures are scripted for      *)

\* A fixture after the last session of a study never happens.
ASSUME MarketAssumption ==
  /\ ALPHA # BETA
  /\ {NO_NEWS, LATE_DATA, MACRO_REVISION, SPLIT, DIVIDEND, TICKER_CHANGE} \subseteq Nat \ {0}

Instruments == {ALPHA, BETA}
Cutoff(s) == 2 * s
Day(at) == at \div 2

Content(kind, about, asOf, detail) ==
  [kind |-> kind, about |-> about, asOf |-> asOf, detail |-> detail]
OnTime(what) == [what |-> what, seen |-> what.asOf]

FetchPriceBars(s) ==
  LET bar(i) == OnTime(Content("PRICE_BAR", i, Cutoff(s),
                               IF i = ALPHA /\ s >= SPLIT THEN "halved" ELSE "full"))
  IN  <<bar(ALPHA), bar(BETA)>>

\* Half an hour after the cutoff, about the session before it.
LateNewsItem(s) ==
  [what |-> Content("NEWS_ITEM", ALPHA, Cutoff(s), "late"), seen |-> Cutoff(s) + 1]

FetchNews(s) ==
  IF s = NO_NEWS THEN <<>>
  ELSE <<OnTime(Content("NEWS_ITEM", BETA, Cutoff(s), "update"))>>
       \o IF s = LATE_DATA THEN <<LateNewsItem(s)>> ELSE <<>>

FetchMacroRecords(s) ==
  <<OnTime(Content("MACRO_RECORD", "inflation", Cutoff(s),
                   IF s >= MACRO_REVISION THEN "revised" ELSE "first"))>>

FetchFxRates(s) == <<OnTime(Content("FX_RATE", "EUR_USD", Cutoff(s), "rate"))>>

Action(s, detail) == OnTime(Content("CORPORATE_ACTION", ALPHA, Cutoff(s), detail))
FetchCorporateActions(s) ==
  (IF s = DIVIDEND THEN <<Action(s, "CASH_DIVIDEND")>> ELSE <<>>)
  \o (IF s = SPLIT THEN <<Action(s, "STOCK_SPLIT")>> ELSE <<>>)
  \o (IF s = TICKER_CHANGE THEN <<Action(s, "TICKER_CHANGE")>> ELSE <<>>)

\* Study._ingest: what one session offers, in the order it is stored.
Feed(s) ==
  FetchPriceBars(s) \o FetchNews(s) \o FetchMacroRecords(s) \o FetchFxRates(s)
  \o FetchCorporateActions(s)
=============================================================================
