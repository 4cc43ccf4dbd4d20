---------------------------- MODULE MCCycleDriver ----------------------------
(* Worlds, calendars and decisions for the instances of CycleDriver.         *)
EXTENDS CycleDriver

CONSTANTS a, b

(* Prices rise and fall; all even, so that a 2-for-1 split divides them.      *)
Ask == <<8, 12, 8, 16, 12>>
Bar(s) == [bid |-> Ask[s + 1] - 2, ask |-> Ask[s + 1], cap |-> 5, tradable |-> TRUE]

Plain == [i \in Instrument |-> [s \in Session |-> Bar(s)]]
Halted(at) == [Plain EXCEPT ![a][at].tradable = FALSE]
Thin(at) == [Plain EXCEPT ![a][at].cap = 2]
Dry(at) == [Plain EXCEPT ![a][at].cap = 0]

World(quotes, actions) == [quotes |-> quotes, actions |-> actions]
Dividend(at) == [ref |-> 100, instrument |-> a, at |-> at, type |-> "CASH_DIVIDEND",
                 amount |-> 1, num |-> 1, den |-> 1]
SplitBy(num, den, at) == [ref |-> 101, instrument |-> a, at |-> at, type |-> "STOCK_SPLIT",
                          amount |-> 0, num |-> num, den |-> den]

QuietWorlds == {World(Plain, << >>), World(Halted(2), << >>), World(Thin(2), << >>),
                World(Dry(1), << >>)}
\* Every fill is of two units, which a 1-for-2 consolidation halves.
Pairs == [i \in Instrument |-> [s \in Session |-> [Bar(s) EXCEPT !.cap = 2]]]
MergingWorlds == {World(Pairs, <<SplitBy(1, 2, s)>>) : s \in 1..LAST}
EventfulWorlds == {World(Plain, <<Dividend(s)>>) : s \in 1..LAST}
              \cup {World(Thin(2), <<SplitBy(2, 1, s)>>) : s \in 1..LAST}
              \cup {World(Plain, <<Dividend(2), SplitBy(2, 1, 3)>>)}
              \cup {World(Thin(2), <<Dividend(2), SplitBy(2, 1, 2)>>)}
              \cup MergingWorlds

NextDay == [i \in Instrument |-> [s \in Session |-> s + 1]]
TPlus1 == [i \in Instrument |-> 1]
TPlus2 == [i \in Instrument |-> 2]
AtOnce == [i \in Instrument |-> 0]

AnyIntents == SUBSET (Instrument \X {"BUY", "SELL"})
=============================================================================
