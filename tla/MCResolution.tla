---------------------------- MODULE MCResolution ----------------------------
(* Worlds and answers for the instances of Resolution.                       *)
EXTENDS Resolution

CONSTANTS a, one, two, first, second

Alike == Permutations({one, two}) \cup Permutations({first, second})

Closing == <<9, 8, 12, 6>>
Fact(kind, at, seen, value) == [kind |-> kind, about |-> a, at |-> at, seen |-> seen, value |-> value]
Bar(s) == Fact("PRICE_BAR", s, s, Closing[s])
Split(s, ratio) == Fact("STOCK_SPLIT", s, s, ratio)
Dividend(s) == Fact("CASH_DIVIDEND", s, s, 3)

Bars == {Bar(s) : s \in Session}
Without(s) == Bars \ {Bar(s)}
Listed == [s \in Session |-> [i \in Instrument |-> "ACTIVE"]]
World(evidence) == [evidence |-> evidence, statuses |-> Listed]

\* Forecasts are anchored in session 2.
Eventful == {World(Bars \cup {Dividend(2), Split(3, 2), Dividend(4)}),
             World(Bars \cup {Split(2, 2), Dividend(3), Split(4, 3)}),
             World(Bars \cup {Dividend(3), Split(3, 2), Dividend(4)})}
\* Bars and dividends that come late, a bar and a split that are not positive, a
\* delisting.
Faulty == {World(Without(3) \cup {Fact("PRICE_BAR", 3, 4, 12), Fact("CASH_DIVIDEND", 3, 4, 3)}),
           World(Without(3) \cup {Fact("PRICE_BAR", 3, 3, 0)}),
           World(Bars \cup {Split(4, 0)}),
           [evidence |-> Without(4), statuses |-> [Listed EXCEPT ![4][a] = "DELISTED"]]}
AllWorlds == Eventful \cup Faulty

Opinion(horizon, probability) ==
  [instrument |-> a, horizon |-> horizon, probability |-> probability]
\* Twice about one question, or not at all.
Twice == {<<Opinion(1, 30), Opinion(1, 70)>>}
Unchecked == {<<Opinion(0, 30)>>}
InFull == {{}, {Opinion(1, 30), Opinion(2, 70)}}
=============================================================================
