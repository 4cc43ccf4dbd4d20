---------------------------- MODULE MCDecisionLoop ----------------------------
(* A snapshot of two instruments, one of them suspended, and a model that may *)
(* say anything.                                                              *)
EXTENDS DecisionLoop

CONSTANTS a, b, ghost, old, bar, early, news

TwoInstruments ==
  <<[id |-> a, status |-> "ACTIVE", words |-> {"alpha"}, chars |-> 1],
    [id |-> b, status |-> "SUSPENDED", words |-> {"beta"}, chars |-> 1]>>

AnEvidence(id, kind, about, asOf, words, chars) ==
  [id |-> id, kind |-> kind, about |-> about, asOf |-> asOf, words |-> words, chars |-> chars]

FourPieces ==
  <<AnEvidence(old, "PRICE_BAR", {a}, 1, {}, 1),
    AnEvidence(early, "NEWS_ITEM", {a}, 1, {"alpha"}, 2),
    AnEvidence(bar, "PRICE_BAR", {a}, 2, {}, 1),
    AnEvidence(news, "NEWS_ITEM", {}, 2, {"alpha"}, 2)>>

TwoHorizons == <<1, 2>>

ACall(tool, about, words, limit, arguments) ==
  [tool |-> tool, about |-> about, words |-> words, limit |-> limit, arguments |-> arguments]

SomeCalls ==
  {ACall("get_price_quote", {a}, {}, 0, "fits"),
   ACall("search_news", {}, {"alpha"}, 1, "fits"),
   ACall("search_news", {a}, {}, 5, "fits"),
   ACall("search_instruments", {}, {"beta"}, 1, "fits"),
   ACall("search_news", {}, {}, 1, "not_text"),
   ACall("get_fx_rate", {}, {}, 0, "unfit"),
   ACall("get_order_book", {a}, {}, 0, "fits")}

AForecast(instrument, horizon, probable, cites) ==
  [instrument |-> instrument, horizon |-> horizon, probable |-> probable, cites |-> cites]

SomeForecasts ==
  {AForecast(a, 1, TRUE, <<bar>>), AForecast(a, 1, TRUE, <<>>), AForecast(a, 1, FALSE, <<>>),
   AForecast(a, 2, TRUE, <<ghost, bar>>), AForecast(ghost, 1, FALSE, <<>>)}

SomeIntents == {[instrument |-> a, cites |-> <<news>>], [instrument |-> ghost, cites |-> <<ghost>>]}

UpTo(n, S) == BoundedSeq(S, n)

Decisions == [forecasts : UpTo(2, SomeForecasts), intents : UpTo(1, SomeIntents)]

AResponse(refused, what, calling) == [refused |-> refused, decision |-> what, calls |-> calling]

AnyResponse ==
  {AResponse(TRUE, NONE, <<>>)}
  \cup {AResponse(FALSE, d, <<>>) : d \in Decisions}
  \cup {AResponse(FALSE, NONE, c) : c \in UpTo(2, SomeCalls)}
  \cup {AResponse(FALSE, CHOOSE d \in Decisions : TRUE, <<c>>) : c \in SomeCalls}
=============================================================================
