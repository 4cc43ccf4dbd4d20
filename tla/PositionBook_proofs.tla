-------------------------- MODULE PositionBook_proofs --------------------------
(***************************************************************************)
(* What the operations of accounting/positions.py do to any table of rows, *)
(* and that the rows of one position implement a queue of parcels.         *)
(***************************************************************************)
EXTENDS PositionBook, Order_proofs

Row == [lot : Seq(Nat), at : Nat, rank : Nat, index : Nat, delta : Int, cost : Nat, ref : Nat]
Lot == [lot : Seq(Nat), quantity : Int, cost : Nat]
OpenLot == [lot : Seq(Nat), quantity : Nat \ {0}, cost : Nat]
Taking == [remaining : Int, taken : Seq(OpenLot)]

(* Lists of each, kept folded away from the provers.                         *)
Tables == Seq(Row)
LotLists == Seq(Lot)

InsertStep == [p \in Tables \X Row |-> Insert(p[1], p[2])]
ReplayStep == [p \in LotLists \X Row |-> Replayed(p[1], p[2])]
TakeStep == [p \in Taking \X OpenLot |-> Take(p[1], p[2])]

-----------------------------------------------------------------------------
(* The folds of a position, one element after another. *)

\* A row that is inserted leaves a table.
LEMMA InsertFits ==
  ASSUME NEW table \in Tables, NEW row \in Row
  PROVE  Insert(table, row) \in Tables /\ Inserted(table, row) \in Tables
<1> DEFINE Low == {k \in DOMAIN table : Key(table[k]) <= Key(row)}
           High == {k \in DOMAIN table : Key(table[k]) > Key(row)}
<1>1. Chosen(table, Low) \in Seq(Row) /\ Chosen(table, High) \in Seq(Row)
  <2>1. table \in Seq(Row) /\ Low \in SUBSET DOMAIN table /\ High \in SUBSET DOMAIN table
    BY DEF Tables
  <2> HIDE DEF Low, High
  <2> QED
    BY <2>1, ChosenIs
<1>2. Inserted(table, row) = Append(Chosen(table, Low), row) \o Chosen(table, High)
  BY DEF Inserted, Sift
<1> HIDE DEF Low, High
<1>3. Inserted(table, row) \in Seq(Row)
  BY <1>1, <1>2
<1> QED
  BY <1>3 DEF Insert, Tables

\* Every row finds its lot, or is the first of one.
LEMMA ReplayedFits ==
  ASSUME NEW lots \in LotLists, NEW row \in Row
  PROVE  Replayed(lots, row) \in LotLists
<1>1. lots \in Seq(Lot)
  BY DEF LotLists
<1>2. CASE \E n \in DOMAIN lots : lots[n].lot = row.lot
  <2> DEFINE n == CHOOSE n \in DOMAIN lots : lots[n].lot = row.lot
  <2>1. n \in DOMAIN lots /\ Replayed(lots, row) = [lots EXCEPT ![n].quantity = @ + row.delta]
    BY <1>2 DEF Replayed
  <2> HIDE DEF n
  <2>2. lots[n] \in Lot
    BY <1>1, <2>1
  <2>3. [lots[n] EXCEPT !.quantity = @ + row.delta] \in Lot
    <3>1. \A l \in Lot : \A d \in Int : [l EXCEPT !.quantity = l.quantity + d] \in Lot
      BY DEF Lot
    <3>2. row.delta \in Int
      BY DEF Row
    <3> QED
      BY <2>2, <3>1, <3>2
  <2>4. [lots EXCEPT ![n].quantity = @ + row.delta]
          = [lots EXCEPT ![n] = [lots[n] EXCEPT !.quantity = @ + row.delta]]
    BY <2>1
  <2>5. \A l \in Lot : [lots EXCEPT ![n] = l] \in Seq(Lot)
    BY <1>1, <2>1
  <2> QED
    BY <2>1, <2>3, <2>4, <2>5 DEF LotLists
<1>3. CASE ~ \E n \in DOMAIN lots : lots[n].lot = row.lot
  <2>1. [lot |-> row.lot, quantity |-> row.delta, cost |-> row.cost] \in Lot
    BY DEF Row, Lot
  <2> QED
    BY <1>1, <1>3, <2>1 DEF Replayed, LotLists
<1> QED
  BY <1>2, <1>3

\* What a sale takes of the lots are parts of them.
LEMMA TakeFits ==
  ASSUME NEW acc \in Taking, NEW lot \in OpenLot
  PROVE  Take(acc, lot) \in Taking
<1> DEFINE part == IF lot.quantity <= acc.remaining THEN lot.quantity ELSE acc.remaining
<1>1. acc.remaining \in Int /\ acc.taken \in Seq(OpenLot)
  BY DEF Taking
<1>2. CASE acc.remaining <= 0
  BY <1>2 DEF Take
<1>3. CASE ~(acc.remaining <= 0)
  <2>1. part \in Nat \ {0}
    BY <1>1, <1>3 DEF OpenLot
  <2>2. Take(acc, lot) = [remaining |-> acc.remaining - part,
                          taken |-> Append(acc.taken, [lot EXCEPT !.quantity = part])]
    BY <1>3 DEF Take
  <2> HIDE DEF part
  <2>3. [lot EXCEPT !.quantity = part] \in OpenLot /\ acc.remaining - part \in Int
    <3>1. \A l \in OpenLot : \A q \in Nat \ {0} : [l EXCEPT !.quantity = q] \in OpenLot
      BY DEF OpenLot
    <3> QED
      BY <1>1, <2>1, <3>1
  <2>4. Append(acc.taken, [lot EXCEPT !.quantity = part]) \in Seq(OpenLot)
    BY <1>1, <2>3
  <2> QED
    BY <2>2, <2>3, <2>4 DEF Taking
<1> QED
  BY <1>2, <1>3

LEMMA Steps == /\ InsertStep \in StepOn(Tables, Row)
               /\ ReplayStep \in StepOn(LotLists, Row)
               /\ TakeStep \in StepOn(Taking, OpenLot)
BY InsertFits, ReplayedFits, TakeFits DEF InsertStep, ReplayStep, TakeStep, StepOn

\* Each of the three folds does these steps.
LEMMA InsertFolds == ASSUME NEW base \in Tables, NEW s \in Seq(Row)
                    PROVE  FoldLeft(Insert, base, s) = Folded(InsertStep, base, s)
<1> DEFINE Does(iter) == [t \in SUBSET DOMAIN s |-> Insert(iter[t \ {Max(t)}], s[Max(t)])]
           found == CHOOSE any : any = [t \in SUBSET DOMAIN s |->
                      IF t = {} THEN base ELSE Insert(any[t \ {Max(t)}], s[Max(t)])]
<1>1. \A t \in SUBSET DOMAIN s : t # {} => s[Max(t)] \in Row
  BY LastOfThose
<1>2. PICK iter, step : Solves(iter, step, InsertStep, Tables, base, s)
  BY Steps, Recursion, Zenon
<1>3. /\ iter \in [SUBSET DOMAIN s -> Tables] /\ Unfolds(iter, step, base, s)
      /\ step = [t \in SUBSET DOMAIN s |-> InsertStep[<<iter[t \ {Max(t)}], s[Max(t)]>>]]
  BY <1>2 DEF Solves
<1>4. ASSUME NEW t \in SUBSET DOMAIN s, t # {} PROVE step[t] = Does(iter)[t]
  <2>1. iter[t \ {Max(t)}] \in Tables
    BY <1>3
  <2> QED
    BY <1>1, <1>3, <1>4, <2>1 DEF InsertStep
<1>5. found = [t \in SUBSET DOMAIN s |->
                 IF t = {} THEN base ELSE Insert(found[t \ {Max(t)}], s[Max(t)])]
  <2>1. iter = [t \in SUBSET DOMAIN s |->
                   IF t = {} THEN base ELSE Insert(iter[t \ {Max(t)}], s[Max(t)])]
    BY <1>3, <1>4 DEF Unfolds
  <2>2. \E any : any = [t \in SUBSET DOMAIN s |->
                   IF t = {} THEN base ELSE Insert(any[t \ {Max(t)}], s[Max(t)])]
    BY <2>1, Zenon
  <2> QED
    BY <2>2, Zenon
<1>6. FoldLeft(Insert, base, s) = found[DOMAIN s]
  BY DEF FoldLeft, MapThenFoldSet
<1> HIDE DEF found
<1>7. Unfolds(found, Does(found), base, s)
  BY <1>5 DEF Unfolds
<1>8. StepsBy(found, Does(found), InsertStep, Tables, s)
  BY <1>1 DEF StepsBy, InsertStep
<1> HIDE DEF Does
<1>9. found[DOMAIN s] = Folded(InsertStep, base, s)
  BY <1>7, <1>8, Steps, Iterated
<1> QED
  BY <1>6, <1>9

LEMMA ReplayFolds == ASSUME NEW base \in LotLists, NEW s \in Seq(Row)
                    PROVE  FoldLeft(Replayed, base, s) = Folded(ReplayStep, base, s)
<1> DEFINE Does(iter) == [t \in SUBSET DOMAIN s |-> Replayed(iter[t \ {Max(t)}], s[Max(t)])]
           found == CHOOSE any : any = [t \in SUBSET DOMAIN s |->
                      IF t = {} THEN base ELSE Replayed(any[t \ {Max(t)}], s[Max(t)])]
<1>1. \A t \in SUBSET DOMAIN s : t # {} => s[Max(t)] \in Row
  BY LastOfThose
<1>2. PICK iter, step : Solves(iter, step, ReplayStep, LotLists, base, s)
  BY Steps, Recursion, Zenon
<1>3. /\ iter \in [SUBSET DOMAIN s -> LotLists] /\ Unfolds(iter, step, base, s)
      /\ step = [t \in SUBSET DOMAIN s |-> ReplayStep[<<iter[t \ {Max(t)}], s[Max(t)]>>]]
  BY <1>2 DEF Solves
<1>4. ASSUME NEW t \in SUBSET DOMAIN s, t # {} PROVE step[t] = Does(iter)[t]
  <2>1. iter[t \ {Max(t)}] \in LotLists
    BY <1>3
  <2> QED
    BY <1>1, <1>3, <1>4, <2>1 DEF ReplayStep
<1>5. found = [t \in SUBSET DOMAIN s |->
                 IF t = {} THEN base ELSE Replayed(found[t \ {Max(t)}], s[Max(t)])]
  <2>1. iter = [t \in SUBSET DOMAIN s |->
                   IF t = {} THEN base ELSE Replayed(iter[t \ {Max(t)}], s[Max(t)])]
    BY <1>3, <1>4 DEF Unfolds
  <2>2. \E any : any = [t \in SUBSET DOMAIN s |->
                   IF t = {} THEN base ELSE Replayed(any[t \ {Max(t)}], s[Max(t)])]
    BY <2>1, Zenon
  <2> QED
    BY <2>2, Zenon
<1>6. FoldLeft(Replayed, base, s) = found[DOMAIN s]
  BY DEF FoldLeft, MapThenFoldSet
<1> HIDE DEF found
<1>7. Unfolds(found, Does(found), base, s)
  BY <1>5 DEF Unfolds
<1>8. StepsBy(found, Does(found), ReplayStep, LotLists, s)
  BY <1>1 DEF StepsBy, ReplayStep
<1> HIDE DEF Does
<1>9. found[DOMAIN s] = Folded(ReplayStep, base, s)
  BY <1>7, <1>8, Steps, Iterated
<1> QED
  BY <1>6, <1>9

LEMMA TakeFolds == ASSUME NEW base \in Taking, NEW s \in Seq(OpenLot)
                    PROVE  FoldLeft(Take, base, s) = Folded(TakeStep, base, s)
<1> DEFINE Does(iter) == [t \in SUBSET DOMAIN s |-> Take(iter[t \ {Max(t)}], s[Max(t)])]
           found == CHOOSE any : any = [t \in SUBSET DOMAIN s |->
                      IF t = {} THEN base ELSE Take(any[t \ {Max(t)}], s[Max(t)])]
<1>1. \A t \in SUBSET DOMAIN s : t # {} => s[Max(t)] \in OpenLot
  BY LastOfThose
<1>2. PICK iter, step : Solves(iter, step, TakeStep, Taking, base, s)
  BY Steps, Recursion, Zenon
<1>3. /\ iter \in [SUBSET DOMAIN s -> Taking] /\ Unfolds(iter, step, base, s)
      /\ step = [t \in SUBSET DOMAIN s |-> TakeStep[<<iter[t \ {Max(t)}], s[Max(t)]>>]]
  BY <1>2 DEF Solves
<1>4. ASSUME NEW t \in SUBSET DOMAIN s, t # {} PROVE step[t] = Does(iter)[t]
  <2>1. iter[t \ {Max(t)}] \in Taking
    BY <1>3
  <2> QED
    BY <1>1, <1>3, <1>4, <2>1 DEF TakeStep
<1>5. found = [t \in SUBSET DOMAIN s |->
                 IF t = {} THEN base ELSE Take(found[t \ {Max(t)}], s[Max(t)])]
  <2>1. iter = [t \in SUBSET DOMAIN s |->
                   IF t = {} THEN base ELSE Take(iter[t \ {Max(t)}], s[Max(t)])]
    BY <1>3, <1>4 DEF Unfolds
  <2>2. \E any : any = [t \in SUBSET DOMAIN s |->
                   IF t = {} THEN base ELSE Take(any[t \ {Max(t)}], s[Max(t)])]
    BY <2>1, Zenon
  <2> QED
    BY <2>2, Zenon
<1>6. FoldLeft(Take, base, s) = found[DOMAIN s]
  BY DEF FoldLeft, MapThenFoldSet
<1> HIDE DEF found
<1>7. Unfolds(found, Does(found), base, s)
  BY <1>5 DEF Unfolds
<1>8. StepsBy(found, Does(found), TakeStep, Taking, s)
  BY <1>1 DEF StepsBy, TakeStep
<1> HIDE DEF Does
<1>9. found[DOMAIN s] = Folded(TakeStep, base, s)
  BY <1>7, <1>8, Steps, Iterated
<1> QED
  BY <1>6, <1>9

\* Adding rows is inserting one after another.
LEMMA AddedIs ==
  ASSUME NEW table \in Tables
  PROVE  /\ Added(table, << >>) = table
         /\ \A new \in Seq(Row) : Added(table, new) \in Tables
         /\ \A new \in Seq(Row) : \A row \in Row :
              Added(table, Append(new, row)) = Insert(Added(table, new), row)
<1>1. \A new \in Seq(Row) : Added(table, new) = Folded(InsertStep, table, new)
  BY InsertFolds DEF Added
<1>2. /\ Folded(InsertStep, table, << >>) = table
      /\ \A new \in Seq(Row) : Folded(InsertStep, table, new) \in Tables
      /\ \A new \in Seq(Row) : \A row \in Row :
           Folded(InsertStep, table, Append(new, row)) = InsertStep[<<Folded(InsertStep, table, new), row>>]
  BY Steps, FoldedIs
<1>3. << >> \in Seq(Row) /\ \A new \in Seq(Row) : \A row \in Row : Append(new, row) \in Seq(Row)
  OBVIOUS
<1>4. \A t \in Tables : \A row \in Row : InsertStep[<<t, row>>] = Insert(t, row)
  BY DEF InsertStep
<1>5. Added(table, << >>) = table
  BY <1>1, <1>2, <1>3
<1>6. ASSUME NEW new \in Seq(Row) PROVE Added(table, new) \in Tables
  BY <1>1, <1>2
<1>7. ASSUME NEW new \in Seq(Row), NEW row \in Row
      PROVE  Added(table, Append(new, row)) = Insert(Added(table, new), row)
  <2>1. Added(table, Append(new, row)) = InsertStep[<<Added(table, new), row>>]
    <3>1. Added(table, Append(new, row)) = Folded(InsertStep, table, Append(new, row))
      BY <1>1, <1>3
    <3>2. Added(table, new) = Folded(InsertStep, table, new)
      BY <1>1
    <3> QED
      BY <1>2, <3>1, <3>2
  <2> QED
    BY <1>4, <1>6, <2>1
<1> QED
  BY <1>5, <1>6, <1>7

\* Lots are replayed from one row after another.
LEMMA LotsReplayed ==
  /\ Lots(<< >>) = << >>
  /\ \A table \in Tables : Lots(table) \in LotLists
  /\ \A table \in Tables : \A row \in Row :
       Lots(Append(table, row)) = Replayed(Lots(table), row)
<1>0. << >> \in LotLists
  BY DEF LotLists
<1>1. \A table \in Tables : Lots(table) = Folded(ReplayStep, << >>, table)
  BY <1>0, ReplayFolds DEF Lots, Tables
<1>2. /\ Folded(ReplayStep, << >>, << >>) = << >>
      /\ \A table \in Seq(Row) : Folded(ReplayStep, << >>, table) \in LotLists
      /\ \A table \in Seq(Row) : \A row \in Row :
           Folded(ReplayStep, << >>, Append(table, row))
             = ReplayStep[<<Folded(ReplayStep, << >>, table), row>>]
  BY <1>0, Steps, FoldedIs
<1>3. << >> \in Seq(Row) /\ \A new \in Seq(Row) : \A row \in Row : Append(new, row) \in Seq(Row)
  OBVIOUS
<1>4. \A l \in LotLists : \A row \in Row : ReplayStep[<<l, row>>] = Replayed(l, row)
  BY DEF ReplayStep
<1>5. Lots(<< >>) = << >>
  BY <1>1, <1>2, <1>3 DEF Tables
<1>6. ASSUME NEW table \in Tables PROVE Lots(table) \in LotLists
  BY <1>1, <1>2 DEF Tables
<1>7. ASSUME NEW table \in Tables, NEW row \in Row
      PROVE  Lots(Append(table, row)) = Replayed(Lots(table), row)
  <2>1. Lots(Append(table, row)) = ReplayStep[<<Lots(table), row>>]
    <3>1. Append(table, row) \in Tables /\ table \in Seq(Row)
      BY <1>3 DEF Tables
    <3>2. Lots(Append(table, row)) = Folded(ReplayStep, << >>, Append(table, row))
      BY <1>1, <3>1
    <3>3. Lots(table) = Folded(ReplayStep, << >>, table)
      BY <1>1
    <3> QED
      BY <1>2, <3>1, <3>2, <3>3
  <2> QED
    BY <1>4, <1>6, <2>1
<1> QED
  BY <1>5, <1>6, <1>7

-----------------------------------------------------------------------------
(* Sums over the rows of a table. *)

Weights == [Row -> Int]
SumStep(w) == [p \in Int \X Row |-> p[1] + w[p[2]]]
SumOf(w, table) == Folded(SumStep(w), 0, table)

LEMMA SumOfAdds ==
  ASSUME NEW w \in Weights
  PROVE  /\ SumOf(w, << >>) = 0
         /\ \A table \in Tables : SumOf(w, table) \in Int
         /\ \A table \in Tables : \A row \in Row :
              SumOf(w, Append(table, row)) = SumOf(w, table) + w[row]
<1>1. SumStep(w) \in StepOn(Int, Row) /\ 0 \in Int
  BY DEF SumStep, StepOn, Weights
<1>2. /\ Folded(SumStep(w), 0, << >>) = 0
      /\ \A table \in Seq(Row) : Folded(SumStep(w), 0, table) \in Int
      /\ \A table \in Seq(Row) : \A row \in Row :
           Folded(SumStep(w), 0, Append(table, row))
             = SumStep(w)[<<Folded(SumStep(w), 0, table), row>>]
  <2> DEFINE F == SumStep(w)
             Numbers == Int
             zero == 0
  <2>1. F \in StepOn(Numbers, Row) /\ zero \in Numbers
    BY <1>1
  <2> HIDE DEF F, Numbers, zero
  <2>2. /\ Folded(F, zero, << >>) = zero
        /\ \A table \in Seq(Row) : Folded(F, zero, table) \in Numbers
        /\ \A table \in Seq(Row) : \A row \in Row :
             Folded(F, zero, Append(table, row)) = F[<<Folded(F, zero, table), row>>]
    BY <2>1, FoldedIs
  <2> QED
    BY <2>2 DEF F, Numbers, zero
<1>3. \A n \in Int : \A row \in Row : SumStep(w)[<<n, row>>] = n + w[row]
  BY DEF SumStep
<1> QED
  BY <1>2, <1>3 DEF SumOf, Tables

\* A table with a row put into it.
LEMMA TableJoined ==
  ASSUME NEW low \in Tables, NEW high \in Tables, NEW row \in Row
  PROVE  /\ low \o high \in Tables /\ Append(low, row) \in Tables
         /\ Append(low, row) \o high \in Tables
         /\ low \o << >> = low /\ << >> \in Tables
         /\ Append(low, row) \o << >> = Append(low, row)
         /\ Append(high, row) \in Tables
BY DEF Tables

\* A row adds the same to a sum wherever it stands.
LEMMA SumInserted ==
  ASSUME NEW w \in Weights, NEW low \in Tables, NEW row \in Row
  PROVE  \A high \in Tables :
           SumOf(w, Append(low, row) \o high) = SumOf(w, low \o high) + w[row]
<1> DEFINE P == {high \in Tables :
                   SumOf(w, Append(low, row) \o high) = SumOf(w, low \o high) + w[row]}
<1>1. << >> \in P
  <2>1. << >> \in Tables /\ low \o << >> = low /\ Append(low, row) \o << >> = Append(low, row)
    BY TableJoined
  <2>2. SumOf(w, Append(low, row)) = SumOf(w, low) + w[row]
    BY SumOfAdds
  <2> QED
    BY <2>1, <2>2
<1>2. ASSUME NEW high \in Seq(Row), NEW x \in Row, high \in P PROVE Append(high, x) \in P
  <2>1. high \in Tables /\ SumOf(w, Append(low, row) \o high) = SumOf(w, low \o high) + w[row]
    BY <1>2
  <2>2. /\ low \o high \in Tables /\ Append(low, row) \o high \in Tables
        /\ Append(high, x) \in Tables
    BY <2>1, TableJoined
  <2>3. /\ low \o Append(high, x) = Append(low \o high, x)
        /\ Append(low, row) \o Append(high, x) = Append(Append(low, row) \o high, x)
    <3>1. low \in Seq(Row) /\ Append(low, row) \in Seq(Row)
      BY DEF Tables
    <3> QED
      BY <3>1, JoinedLast
  <2>4. /\ SumOf(w, low \o high) \in Int /\ SumOf(w, Append(low, row) \o high) \in Int
        /\ SumOf(w, Append(low \o high, x)) = SumOf(w, low \o high) + w[x]
        /\ SumOf(w, Append(Append(low, row) \o high, x))
             = SumOf(w, Append(low, row) \o high) + w[x]
    BY <2>2, SumOfAdds
  <2>5. w[x] \in Int /\ w[row] \in Int
    BY DEF Weights
  <2>6. SumOf(w, Append(low, row) \o Append(high, x)) = SumOf(w, low \o Append(high, x)) + w[row]
    <3> DEFINE A == SumOf(w, Append(low, row) \o high)
               B == SumOf(w, low \o high)
    <3>1. A \in Int /\ B \in Int /\ A = B + w[row]
      BY <2>1, <2>4
    <3>2. /\ SumOf(w, low \o Append(high, x)) = B + w[x]
          /\ SumOf(w, Append(low, row) \o Append(high, x)) = A + w[x]
      BY <2>3, <2>4
    <3> HIDE DEF A, B
    <3> QED
      BY <2>5, <3>1, <3>2
  <2> QED
    BY <2>2, <2>6
<1> HIDE DEF P
<1>3. \A high \in Seq(Row) : high \in P
  BY <1>1, <1>2, ListInduct
<1> QED
  BY <1>3 DEF P, Tables

\* The units of a lot, and what all the units cost.
OfLot(a) == [row \in Row |-> IF row.lot = a THEN row.delta ELSE 0]
Units(table, a) == SumOf(OfLot(a), table)
AtCost == [row \in Row |-> row.delta * row.cost]
Worth(table) == SumOf(AtCost, table)

LEMMA WeightsAre == AtCost \in Weights /\ \A a : OfLot(a) \in Weights
BY DEF AtCost, OfLot, Weights, Row

-----------------------------------------------------------------------------
(* The lots of a table, by the positions of the rows that come first of theirs. *)

Leads(table) == {k \in DOMAIN table : \A j \in 1..(k - 1) : table[j].lot # table[k].lot}
Live(table) == {k \in Leads(table) : Units(table, table[k].lot) > 0}

LotAt(table, k) ==
  [lot |-> table[k].lot, quantity |-> Units(table, table[k].lot), cost |-> table[k].cost]

\* These lots are those of the rows at some positions.
Pictures(lots, table, positions) ==
  \E q : /\ Lists(q, Len(lots), positions)
         /\ \A n \in 1..Len(lots) : lots[n] = LotAt(table, q[n])

LEMMA TableIs ==
  ASSUME NEW table \in Tables
  PROVE  /\ Len(table) \in Nat /\ DOMAIN table = 1..Len(table)
         /\ \A k \in DOMAIN table :
              /\ table[k] \in Row /\ table[k].lot \in Seq(Nat) /\ table[k].at \in Nat
              /\ table[k].rank \in Nat /\ table[k].index \in Nat /\ table[k].delta \in Int
              /\ table[k].cost \in Nat /\ table[k].ref \in Nat
         /\ Leads(table) \in SUBSET DOMAIN table /\ Live(table) \in SUBSET Leads(table)
         /\ Leads(table) \in SUBSET Nat /\ Live(table) \in SUBSET Nat
         /\ \A a : Units(table, a) \in Int
<1>1. table \in Seq(Row)
  BY DEF Tables
<1>2. Len(table) \in Nat /\ DOMAIN table = 1..Len(table) /\ \A k \in DOMAIN table : table[k] \in Row
  BY <1>1
<1>3. \A a : Units(table, a) \in Int
  BY WeightsAre, SumOfAdds DEF Units
<1>4. \A k \in DOMAIN table : k \in Nat
  BY <1>2
<1> QED
  BY <1>2, <1>3, <1>4 DEF Row, Leads, Live

\* Some row comes first of every lot.
LEMMA LeadOf ==
  ASSUME NEW table \in Tables, NEW j \in DOMAIN table
  PROVE  \E k \in Leads(table) : table[k].lot = table[j].lot /\ k <= j
<1> DEFINE T == {i \in DOMAIN table : table[i].lot = table[j].lot}
<1>1. T \in SUBSET Nat /\ j \in T /\ DOMAIN table = 1..Len(table) /\ Len(table) \in Nat
  BY TableIs
<1>2. PICK k \in T : \A i \in T : k <= i
  BY <1>1, LeastOf
<1>3. \A i \in 1..(k - 1) : table[i].lot # table[k].lot
  <2> SUFFICES ASSUME NEW i \in 1..(k - 1), table[i].lot = table[k].lot PROVE FALSE
    OBVIOUS
  <2>1. i \in T /\ ~(k <= i)
    BY <1>1
  <2> QED
    BY <1>2, <2>1
<1> QED
  BY <1>1, <1>2, <1>3 DEF Leads

\* And only one.
LEMMA LeadsDiffer ==
  ASSUME NEW table \in Tables, NEW k \in Leads(table), NEW l \in Leads(table),
         table[k].lot = table[l].lot
  PROVE  k = l
<1>1. k \in Nat /\ l \in Nat /\ k >= 1 /\ l >= 1
  BY TableIs DEF Leads
<1>2. ~(k < l)
  <2>1. k < l => k \in 1..(l - 1)
    BY <1>1
  <2> QED
    BY <2>1 DEF Leads
<1>3. ~(l < k)
  <2>1. l < k => l \in 1..(k - 1)
    BY <1>1
  <2> QED
    BY <2>1 DEF Leads
<1> QED
  BY <1>1, <1>2, <1>3

\* One picture is all there is.
LEMMA OnePicture ==
  ASSUME NEW table, NEW positions, NEW S, NEW lots \in Seq(S), NEW T, NEW others \in Seq(T),
         Pictures(lots, table, positions), Pictures(others, table, positions)
  PROVE  lots = others
<1>1. PICK p : /\ Lists(p, Len(lots), positions)
               /\ \A n \in 1..Len(lots) : lots[n] = LotAt(table, p[n])
  BY DEF Pictures
<1>2. PICK q : /\ Lists(q, Len(others), positions)
               /\ \A n \in 1..Len(others) : others[n] = LotAt(table, q[n])
  BY DEF Pictures
<1>3. Len(lots) = Len(others) /\ \A i \in 1..Len(lots) : p[i] = q[i]
  BY <1>1, <1>2, SameOrder
<1>4. \A n \in 1..Len(lots) : lots[n] = others[n]
  BY <1>1, <1>2, <1>3
<1> QED
  BY <1>3, <1>4
\* A row more leaves the rows before it as they were.
LEMMA TableLast ==
  ASSUME NEW table \in Tables, NEW row \in Row
  PROVE  /\ Append(table, row) \in Tables
         /\ DOMAIN Append(table, row) = 1..(Len(table) + 1)
         /\ Append(table, row)[Len(table) + 1] = row
         /\ \A k \in 1..Len(table) : Append(table, row)[k] = table[k]
         /\ \A a : Units(Append(table, row), a)
                     = Units(table, a) + (IF row.lot = a THEN row.delta ELSE 0)
<1>1. table \in Seq(Row)
  BY DEF Tables
<1>2. \A a : /\ OfLot(a) \in Weights
             /\ OfLot(a)[row] = IF row.lot = a THEN row.delta ELSE 0
  BY WeightsAre DEF OfLot
<1>3. \A a : SumOf(OfLot(a), Append(table, row)) = SumOf(OfLot(a), table) + OfLot(a)[row]
  BY <1>2, SumOfAdds
<1>4. /\ Append(table, row) \in Seq(Row) /\ Append(table, row)[Len(table) + 1] = row
      /\ DOMAIN Append(table, row) = 1..(Len(table) + 1)
      /\ \A k \in 1..Len(table) : Append(table, row)[k] = table[k]
  BY <1>1
<1> QED
  BY <1>2, <1>3, <1>4 DEF Units, Tables

\* A lot that no row is of has no units.
LEMMA NoUnits ==
  ASSUME NEW table \in Tables, NEW a, \A j \in DOMAIN table : table[j].lot # a
  PROVE  Units(table, a) = 0
<1> DEFINE Q == {t \in Tables : (\A j \in DOMAIN t : t[j].lot # a) => Units(t, a) = 0}
<1>1. << >> \in Q
  <2>1. << >> \in Tables
    BY DEF Tables
  <2> QED
    BY <2>1, WeightsAre, SumOfAdds DEF Units
<1>2. ASSUME NEW t \in Seq(Row), NEW x \in Row, t \in Q PROVE Append(t, x) \in Q
  <2>1. t \in Tables
    BY <1>2
  <2>2. PICK M \in Nat : M = Len(t) /\ DOMAIN t = 1..M
    BY <2>1, TableIs
  <2>3. /\ Append(t, x) \in Tables /\ DOMAIN Append(t, x) = 1..(M + 1)
        /\ Append(t, x)[M + 1] = x /\ \A k \in 1..M : Append(t, x)[k] = t[k]
        /\ Units(Append(t, x), a) = Units(t, a) + (IF x.lot = a THEN x.delta ELSE 0)
    BY <2>1, <2>2, TableLast
  <2>4. ASSUME \A j \in DOMAIN Append(t, x) : Append(t, x)[j].lot # a
        PROVE  Units(Append(t, x), a) = 0
    <3>1. (\A j \in 1..M : j \in 1..(M + 1)) /\ M + 1 \in 1..(M + 1)
      OBVIOUS
    <3>2. x.lot # a /\ \A j \in DOMAIN t : t[j].lot # a
      BY <2>2, <2>3, <2>4, <3>1
    <3>3. Units(t, a) = 0
      BY <1>2, <3>2
    <3> QED
      BY <2>3, <3>2, <3>3
  <2> QED
    BY <2>3, <2>4
<1> HIDE DEF Q
<1>3. table \in Q
  BY <1>1, <1>2, ListInduct DEF Tables
<1> QED
  BY <1>3 DEF Q

\* It comes first of its lot if none of them is of that lot.
LEMMA LeadsLast ==
  ASSUME NEW table \in Tables, NEW row \in Row
  PROVE  Leads(Append(table, row)) =
           IF \E j \in DOMAIN table : table[j].lot = row.lot
           THEN Leads(table) ELSE Leads(table) \cup {Len(table) + 1}
<1> DEFINE next == Append(table, row)
<1>1. PICK N \in Nat : N = Len(table) /\ DOMAIN table = 1..N
  BY TableIs
<1>2. DOMAIN next = 1..(N + 1) /\ next[N + 1] = row /\ \A k \in 1..N : next[k] = table[k]
  BY <1>1, TableLast
<1> HIDE DEF next
<1>3. ASSUME NEW k \in 1..N PROVE k \in Leads(next) <=> k \in Leads(table)
  <2>1. k \in DOMAIN next /\ k \in DOMAIN table /\ \A j \in 1..(k - 1) : j \in 1..N
    BY <1>1, <1>2
  <2> QED
    BY <1>2, <2>1 DEF Leads
<1>4. N + 1 \in Leads(next) <=> ~ \E j \in DOMAIN table : table[j].lot = row.lot
  <2>1. N + 1 \in DOMAIN next /\ 1..((N + 1) - 1) = DOMAIN table
    BY <1>1, <1>2
  <2> QED
    BY <1>1, <1>2, <2>1 DEF Leads
<1>5. \A k \in Leads(next) : k \in 1..N \/ k = N + 1
  BY <1>2 DEF Leads
<1>6. \A k \in Leads(table) : k \in 1..N
  BY <1>1 DEF Leads
<1>7. \A k : k \in Leads(next) <=> \/ k \in Leads(table)
                                   \/ k = N + 1 /\ ~ \E j \in DOMAIN table : table[j].lot = row.lot
  BY <1>3, <1>4, <1>5, <1>6
<1>8. CASE \E j \in DOMAIN table : table[j].lot = row.lot
  BY <1>7, <1>8 DEF next
<1>9. CASE ~ \E j \in DOMAIN table : table[j].lot = row.lot
  <2>1. Leads(next) = Leads(table) \cup {N + 1}
    BY <1>7, <1>9
  <2> QED
    BY <1>1, <1>9, <2>1 DEF next
<1> QED
  BY <1>8, <1>9

\* The lots of a table are those its first rows name, in their order, each with
\* the units of all its rows at the cost of the first.
LEMMA LotsPictured ==
  \A table \in Tables : Pictures(Lots(table), table, Leads(table))
<1> DEFINE P == {table \in Tables : Pictures(Lots(table), table, Leads(table))}
<1>1. << >> \in P
  <2>1. << >> \in Tables
    BY DEF Tables
  <2>2. Lots(<< >>) = << >> /\ Len(<< >>) = 0
    BY LotsReplayed
  <2>3. Leads(<< >>) = {}
    BY DEF Leads
  <2>4. Lists(<< >>, 0, {})
    BY DEF Lists
  <2> QED
    BY <2>1, <2>2, <2>3, <2>4 DEF Pictures
<1>2. ASSUME NEW table \in Seq(Row), NEW row \in Row, table \in P
      PROVE  Append(table, row) \in P
  <2> DEFINE next == Append(table, row)
             lots == Lots(table)
             m == Len(lots)
  <2>1. table \in Tables
    BY <1>2
  <2>2. PICK q : Lists(q, m, Leads(table)) /\ \A n \in 1..m : lots[n] = LotAt(table, q[n])
    BY <1>2 DEF Pictures
  <2>3. PICK N \in Nat : N = Len(table) /\ DOMAIN table = 1..N
    BY <2>1, TableIs
  <2>4. /\ next \in Tables /\ next[N + 1] = row /\ \A k \in 1..N : next[k] = table[k]
        /\ \A a : Units(next, a) = Units(table, a) + (IF row.lot = a THEN row.delta ELSE 0)
    BY <2>1, <2>3, TableLast
  <2>5. Leads(next) = IF \E j \in DOMAIN table : table[j].lot = row.lot
                      THEN Leads(table) ELSE Leads(table) \cup {N + 1}
    BY <2>1, <2>3, LeadsLast
  <2>6. Lots(next) = Replayed(lots, row) /\ lots \in LotLists
    BY <2>1, LotsReplayed
  <2>7. lots \in Seq(Lot) /\ m \in Nat /\ DOMAIN lots = 1..m
    BY <2>6 DEF LotLists
  <2>8. /\ \A n \in 1..m : q[n] \in Leads(table) /\ q[n] \in 1..N
        /\ \A i, j \in 1..m : i < j => q[i] < q[j]
        /\ \A k \in Leads(table) : \E n \in 1..m : q[n] = k
    BY <2>2, <2>3 DEF Lists, Leads
  <2>9. row.delta \in Int /\ \A a : Units(table, a) \in Int
    BY <2>1, TableIs DEF Row
  <2> HIDE DEF next, lots, m
  <2>10. \A n \in 1..m : lots[n].lot = table[q[n]].lot
    <3> TAKE n \in 1..m
    <3>1. lots[n] = LotAt(table, q[n])
      BY <2>2
    <3>2. LotAt(table, q[n]).lot = table[q[n]].lot
      BY DEF LotAt
    <3> QED
      BY <3>1, <3>2
  <2>11. ASSUME NEW n \in 1..m, lots[n].lot # row.lot PROVE LotAt(next, q[n]) = lots[n]
    <3>1. next[q[n]] = table[q[n]] /\ Units(next, table[q[n]].lot) = Units(table, table[q[n]].lot)
      BY <2>4, <2>8, <2>9, <2>10, <2>11
    <3> QED
      BY <2>2, <3>1 DEF LotAt
  <2>12. CASE \E n \in DOMAIN lots : lots[n].lot = row.lot
    <3> DEFINE n == CHOOSE n \in DOMAIN lots : lots[n].lot = row.lot
    <3>1. n \in 1..m /\ lots[n].lot = row.lot
          /\ Replayed(lots, row) = [lots EXCEPT ![n].quantity = @ + row.delta]
      BY <2>7, <2>12 DEF Replayed
    <3> HIDE DEF n
    <3> DEFINE new == Lots(next)
    <3>2. new = [lots EXCEPT ![n] = [lots[n] EXCEPT !.quantity = @ + row.delta]]
      BY <2>6, <2>7, <3>1
    <3>3. Len(new) = m /\ new[n] = [lots[n] EXCEPT !.quantity = @ + row.delta]
          /\ \A i \in 1..m : i # n => new[i] = lots[i]
      BY <2>7, <3>1, <3>2
    <3>4. \A i \in 1..m : i # n => lots[i].lot # row.lot
      <4> SUFFICES ASSUME NEW i \in 1..m, i # n, lots[i].lot = row.lot PROVE FALSE
        OBVIOUS
      <4>1. table[q[i]].lot = table[q[n]].lot /\ q[i] \in Leads(table) /\ q[n] \in Leads(table)
        BY <2>8, <2>10, <3>1
      <4>2. q[i] = q[n]
        BY <2>1, <4>1, LeadsDiffer
      <4>3. i < n \/ n < i
        BY <2>7, <3>1
      <4>4. q[i] \in 1..N /\ q[n] \in 1..N
        BY <2>8, <3>1
      <4>5. q[i] < q[n] \/ q[n] < q[i]
        BY <2>8, <3>1, <4>3
      <4> QED
        BY <4>2, <4>4, <4>5
    <3>5. new[n] = LotAt(next, q[n])
      <4>1. next[q[n]] = table[q[n]] /\ table[q[n]].lot = row.lot /\ lots[n] = LotAt(table, q[n])
        BY <2>2, <2>4, <2>8, <2>10, <3>1
      <4>2. Units(next, row.lot) = Units(table, row.lot) + row.delta
        BY <2>4
      <4> QED
        BY <3>3, <4>1, <4>2 DEF LotAt
    <3> HIDE DEF new
    <3>6. \A i \in 1..m : new[i] = LotAt(next, q[i])
      BY <2>11, <3>3, <3>4, <3>5
    <3>7. Leads(next) = Leads(table)
      <4>1. q[n] \in DOMAIN table /\ table[q[n]].lot = row.lot
        BY <2>3, <2>8, <2>10, <3>1
      <4> QED
        BY <2>5, <4>1
    <3>8. Pictures(new, next, Leads(next))
      BY <2>2, <3>3, <3>6, <3>7 DEF Pictures
    <3> QED
      BY <2>4, <3>8 DEF new, next
  <2>13. CASE ~ \E n \in DOMAIN lots : lots[n].lot = row.lot
    <3> DEFINE new == Lots(next)
               p == [n \in 1..(m + 1) |-> IF n = m + 1 THEN N + 1 ELSE q[n]]
    <3>1. new = Append(lots, [lot |-> row.lot, quantity |-> row.delta, cost |-> row.cost])
      BY <2>6, <2>13 DEF Replayed
    <3>2. Len(new) = m + 1 /\ (\A n \in 1..m : new[n] = lots[n])
          /\ new[m + 1] = [lot |-> row.lot, quantity |-> row.delta, cost |-> row.cost]
      BY <2>7, <3>1
    <3>3. \A j \in DOMAIN table : table[j].lot # row.lot
      <4> SUFFICES ASSUME NEW j \in DOMAIN table, table[j].lot = row.lot PROVE FALSE
        OBVIOUS
      <4>1. PICK k \in Leads(table) : table[k].lot = row.lot
        BY <2>1, LeadOf
      <4>2. PICK n \in 1..m : q[n] = k
        BY <2>8
      <4>3. lots[n].lot = row.lot /\ n \in DOMAIN lots
        BY <2>7, <2>10, <4>1, <4>2
      <4> QED
        BY <2>13, <4>3
    <3>4. Leads(next) = Leads(table) \cup {N + 1}
      BY <2>5, <3>3
    <3>5. Units(next, row.lot) = row.delta
      <4>1. Units(table, row.lot) = 0
        BY <2>1, <3>3, NoUnits
      <4> QED
        BY <2>4, <2>9, <4>1
    <3>6. LotAt(next, N + 1) = new[m + 1]
      BY <2>4, <3>2, <3>5 DEF LotAt
    <3>7. /\ \A n \in 1..m : n \in 1..(m + 1) /\ p[n] = q[n]
          /\ p[m + 1] = N + 1 /\ m + 1 \in 1..(m + 1)
          /\ \A n \in 1..(m + 1) : n \in 1..m \/ n = m + 1
      BY <2>7
    <3> HIDE DEF new, p
    <3>8. \A n \in 1..m : new[n] = LotAt(next, p[n])
      BY <2>7, <2>11, <2>13, <3>2, <3>7
    <3>9. \A n \in 1..(m + 1) : new[n] = LotAt(next, p[n])
      BY <3>6, <3>7, <3>8
    <3>10. Lists(p, m + 1, Leads(next))
      <4>1. Leads(next) \in SUBSET Nat /\ m + 1 \in Nat
        BY <2>4, <2>7, TableIs
      <4>2. \A n \in 1..(m + 1) : p[n] \in Leads(next)
        BY <2>8, <3>4, <3>7
      <4>3. \A k \in Leads(next) : \E n \in 1..(m + 1) : p[n] = k
        BY <2>8, <3>4, <3>7
      <4>4. \A i, j \in 1..(m + 1) : i < j => p[i] < p[j]
        <5> TAKE i, j \in 1..(m + 1)
        <5> HAVE i < j
        <5>1. i \in 1..m /\ q[i] \in 1..N
          BY <2>7, <2>8
        <5>2. CASE j = m + 1
          BY <3>7, <5>1, <5>2
        <5>3. CASE j \in 1..m
          BY <2>8, <3>7, <5>1, <5>3
        <5> QED
          BY <3>7, <5>2, <5>3
      <4> QED
        BY <4>1, <4>2, <4>3, <4>4 DEF Lists
    <3>11. Pictures(new, next, Leads(next))
      BY <3>2, <3>9, <3>10 DEF Pictures
    <3> QED
      BY <2>4, <3>11 DEF new, next
  <2> QED
    BY <2>12, <2>13
<1> HIDE DEF P
<1>3. \A table \in Seq(Row) : table \in P
  BY <1>1, <1>2, ListInduct
<1> QED
  BY <1>3 DEF P, Tables
\* An open lot with another quantity.
LEMMA Relabelled ==
  ASSUME NEW l \in OpenLot, NEW q
  PROVE  [l EXCEPT !.quantity = q] = [lot |-> l.lot, quantity |-> q, cost |-> l.cost]
<1>1. PICK a, b, c : l = [lot |-> a, quantity |-> b, cost |-> c]
  BY DEF OpenLot
<1> QED
  BY <1>1

\* Of the lots only those with units left are open.
LEMMA FoldPictured ==
  ASSUME NEW table \in Tables
  PROVE  Fold(table) \in Seq(OpenLot) /\ Pictures(Fold(table), table, Live(table))
<1> DEFINE lots == Lots(table)
           m == Len(lots)
           Left == {n \in DOMAIN lots : lots[n].quantity > 0}
           out == Chosen(lots, Left)
           c == Cardinality(Left)
<1>1. PICK q : Lists(q, m, Leads(table)) /\ \A n \in 1..m : lots[n] = LotAt(table, q[n])
  BY LotsPictured DEF Pictures
<1>2. lots \in Seq(Lot)
  BY LotsReplayed DEF LotLists
<1>3. Fold(table) = out
  BY DEF Fold, Sift
<1> HIDE DEF lots
<1>4. m \in Nat /\ DOMAIN lots = 1..m
  BY <1>2
<1>5. /\ \A n \in 1..m : q[n] \in Leads(table) /\ q[n] \in Nat
      /\ \A i, j \in 1..m : i < j => q[i] < q[j]
      /\ \A k \in Leads(table) : \E n \in 1..m : q[n] = k
  BY <1>1 DEF Lists
<1>6. \A n \in 1..m : lots[n].quantity = Units(table, table[q[n]].lot)
  <2> TAKE n \in 1..m
  <2>1. lots[n] = LotAt(table, q[n])
    BY <1>1
  <2>2. LotAt(table, q[n]).quantity = Units(table, table[q[n]].lot)
    BY DEF LotAt
  <2> QED
    BY <2>1, <2>2
<1>7. Left \in SUBSET DOMAIN lots /\ \A n \in Left : lots[n] \in OpenLot
  <2>1. ASSUME NEW n \in Left PROVE lots[n] \in OpenLot
    <3>1. lots[n] \in Lot /\ lots[n].quantity > 0
      BY <1>2
    <3> QED
      BY <3>1 DEF Lot, OpenLot
  <2> QED
    BY <2>1
<1>8. \A n \in 1..m : n \in Left <=> q[n] \in Live(table)
  BY <1>4, <1>5, <1>6 DEF Live
<1> HIDE DEF m, Left
<1>9. /\ out \in Seq(Lot) /\ Len(out) = c /\ c \in Nat /\ DOMAIN out = 1..c
      /\ \A i \in 1..c : Nth(Left, i) \in Left /\ out[i] = lots[Nth(Left, i)]
      /\ \A k \in Left : \E i \in 1..c : Nth(Left, i) = k
      /\ \A i, j \in 1..c : i < j => Nth(Left, i) < Nth(Left, j)
  BY <1>2, <1>7, ChosenIs
<1> HIDE DEF c, out
<1>10. out \in Seq(OpenLot)
  <2>1. \A i \in 1..c : out[i] \in OpenLot
    BY <1>7, <1>9
  <2> QED
    BY <1>9, <2>1
<1> DEFINE p == [i \in 1..c |-> q[Nth(Left, i)]]
<1>11. \A i \in 1..c : p[i] = q[Nth(Left, i)] /\ Nth(Left, i) \in 1..m
  BY <1>4, <1>7, <1>9
<1> HIDE DEF p
<1>12. Lists(p, c, Live(table))
  <2>1. Live(table) \in SUBSET Nat /\ Live(table) \in SUBSET Leads(table)
    BY TableIs
  <2>2. \A i \in 1..c : p[i] \in Live(table)
    BY <1>8, <1>9, <1>11
  <2>3. ASSUME NEW i \in 1..c, NEW j \in 1..c, i < j PROVE p[i] < p[j]
    <3>1. Nth(Left, i) \in 1..m /\ Nth(Left, j) \in 1..m /\ Nth(Left, i) < Nth(Left, j)
      BY <1>9, <1>11, <2>3
    <3> QED
      BY <1>5, <1>11, <3>1
  <2>4. ASSUME NEW k \in Live(table) PROVE \E i \in 1..c : p[i] = k
    <3>1. PICK n \in 1..m : q[n] = k
      BY <1>5, <2>1
    <3>2. PICK i \in 1..c : Nth(Left, i) = n
      BY <1>8, <1>9, <3>1
    <3> QED
      BY <1>11, <3>1, <3>2
  <2> QED
    BY <1>9, <2>1, <2>2, <2>3, <2>4 DEF Lists
<1>13. \A i \in 1..c : out[i] = LotAt(table, p[i])
  BY <1>1, <1>9, <1>11
<1>14. Pictures(out, table, Live(table))
  BY <1>9, <1>12, <1>13 DEF Pictures
<1> QED
  BY <1>3, <1>10, <1>14

LEMMA FoldIs ==
  ASSUME NEW table \in Tables, NEW S, NEW lots \in Seq(S), Pictures(lots, table, Live(table))
  PROVE  Fold(table) = lots
BY FoldPictured, OnePicture

\* What is not yet in the future is all there is.
LEMMA AsOfAll ==
  ASSUME NEW table \in Tables, NEW instant, \A k \in DOMAIN table : table[k].at <= instant
  PROVE  open_lots(table, instant) = Fold(table)
<1> DEFINE Known == {k \in DOMAIN table : table[k].at <= instant}
<1>1. Known = DOMAIN table /\ table \in Seq(Row) /\ Known \in SUBSET DOMAIN table
  BY DEF Tables
<1>2. AsOf(table, instant) = Chosen(table, Known)
  BY DEF AsOf, Sift
<1> HIDE DEF Known
<1>3. Chosen(table, Known) = table
  BY <1>1, ChosenIs
<1> QED
  BY <1>2, <1>3 DEF open_lots

-----------------------------------------------------------------------------
(* A row put into a table, after the m-th of its rows. *)

Puts(table, row, m, next) ==
  /\ m \in 0..Len(table) /\ next \in Tables /\ Len(next) = Len(table) + 1
  /\ next[m + 1] = row
  /\ \A k \in 1..m : next[k] = table[k]
  /\ \A k \in (m + 1)..Len(table) : next[k + 1] = table[k]
  /\ \A w \in Weights : SumOf(w, next) = SumOf(w, table) + w[row]

Shift(m, k) == IF k <= m THEN k ELSE k + 1

\* Where each row is then, and the units of its lot.
LEMMA PutIs ==
  ASSUME NEW table \in Tables, NEW row \in Row, NEW m, NEW next, Puts(table, row, m, next)
  PROVE  /\ m \in Nat /\ next \in Tables /\ m + 1 \in DOMAIN next /\ next[m + 1] = row
         /\ \A k \in DOMAIN table : /\ Shift(m, k) \in DOMAIN next /\ next[Shift(m, k)] = table[k]
                                    /\ Shift(m, k) # m + 1
         /\ \A l \in DOMAIN next : l = m + 1 \/ \E k \in DOMAIN table : l = Shift(m, k)
         /\ \A k, l \in DOMAIN table : k < l => Shift(m, k) < Shift(m, l)
         /\ \A a : Units(next, a) = Units(table, a) + (IF row.lot = a THEN row.delta ELSE 0)
         /\ Worth(next) = Worth(table) + row.delta * row.cost
<1>1. PICK N \in Nat : N = Len(table) /\ DOMAIN table = 1..N
  BY TableIs
<1>2. /\ m \in 0..N /\ next \in Tables /\ Len(next) = N + 1 /\ next[m + 1] = row
      /\ \A k \in 1..m : next[k] = table[k]
      /\ \A k \in (m + 1)..N : next[k + 1] = table[k]
      /\ \A w \in Weights : SumOf(w, next) = SumOf(w, table) + w[row]
  BY <1>1 DEF Puts
<1>3. DOMAIN next = 1..(N + 1)
  BY <1>2, TableIs
<1>4. ASSUME NEW k \in 1..N
      PROVE  /\ Shift(m, k) \in 1..(N + 1) /\ next[Shift(m, k)] = table[k] /\ Shift(m, k) # m + 1
  BY <1>2 DEF Shift
<1>5. ASSUME NEW l \in 1..(N + 1), l # m + 1 PROVE \E k \in 1..N : l = Shift(m, k)
  <2>1. CASE l <= m
    BY <1>2, <2>1 DEF Shift
  <2>2. CASE ~(l <= m)
    <3>1. l - 1 \in 1..N /\ l = Shift(m, l - 1)
      BY <1>2, <1>5, <2>2 DEF Shift
    <3> QED
      BY <3>1
  <2> QED
    BY <2>1, <2>2
<1>6. \A k, l \in 1..N : k < l => Shift(m, k) < Shift(m, l)
  BY <1>2 DEF Shift
<1>7. \A a : Units(next, a) = Units(table, a) + (IF row.lot = a THEN row.delta ELSE 0)
  <2> TAKE a
  <2>1. OfLot(a) \in Weights /\ OfLot(a)[row] = IF row.lot = a THEN row.delta ELSE 0
    BY WeightsAre DEF OfLot
  <2> QED
    BY <1>2, <2>1 DEF Units
<1>8. Worth(next) = Worth(table) + row.delta * row.cost
  <2>1. AtCost \in Weights /\ AtCost[row] = row.delta * row.cost
    BY WeightsAre DEF AtCost
  <2> QED
    BY <1>2, <2>1 DEF Worth
<1>9. m \in Nat /\ m + 1 \in 1..(N + 1)
  BY <1>2
<1> QED
  BY <1>1, <1>2, <1>3, <1>4, <1>5, <1>6, <1>7, <1>8, <1>9

\* The lots of other rows stay where they are among each other, and as they are.
LEMMA PutOthers ==
  ASSUME NEW table \in Tables, NEW row \in Row, NEW m, NEW next, Puts(table, row, m, next),
         NEW k \in DOMAIN table, table[k].lot # row.lot
  PROVE  /\ Shift(m, k) \in Leads(next) <=> k \in Leads(table)
         /\ Shift(m, k) \in Live(next) <=> k \in Live(table)
         /\ LotAt(next, Shift(m, k)) = LotAt(table, k)
<1>1. /\ next \in Tables /\ next[m + 1] = row /\ m \in Nat
      /\ \A l \in DOMAIN table : Shift(m, l) \in DOMAIN next /\ next[Shift(m, l)] = table[l]
      /\ \A l \in DOMAIN next : l = m + 1 \/ \E i \in DOMAIN table : l = Shift(m, i)
      /\ \A i, j \in DOMAIN table : i < j => Shift(m, i) < Shift(m, j)
      /\ \A a : Units(next, a) = Units(table, a) + (IF row.lot = a THEN row.delta ELSE 0)
  BY PutIs
<1>2. PICK N \in Nat : N = Len(table) /\ DOMAIN table = 1..N
  BY TableIs
<1>3. PICK M \in Nat : M = Len(next) /\ DOMAIN next = 1..M
  BY <1>1, TableIs
<1>4. next[Shift(m, k)] = table[k] /\ Shift(m, k) \in 1..M /\ k \in 1..N
  BY <1>1, <1>2, <1>3
<1>5. Units(next, table[k].lot) = Units(table, table[k].lot)
  <2>1. Units(table, table[k].lot) \in Int
    BY TableIs
  <2> QED
    BY <1>1, <2>1
<1>6. ASSUME k \in Leads(table) PROVE Shift(m, k) \in Leads(next)
  <2> SUFFICES ASSUME NEW j \in 1..(Shift(m, k) - 1), next[j].lot = table[k].lot PROVE FALSE
    BY <1>3, <1>4 DEF Leads
  <2>1. j \in 1..M /\ j < Shift(m, k)
    BY <1>3, <1>4
  <2>2. j # m + 1
    BY <1>1
  <2>3. PICK i \in 1..N : j = Shift(m, i)
    BY <1>1, <1>2, <1>3, <2>1, <2>2
  <2>4. i < k
    <3>1. k < i => Shift(m, k) < Shift(m, i)
      BY <1>1, <1>2
    <3>2. k = i => Shift(m, k) = Shift(m, i)
      OBVIOUS
    <3> QED
      BY <1>2, <1>4, <2>1, <2>3, <3>1, <3>2
  <2>5. i \in 1..(k - 1) /\ table[i].lot = table[k].lot
    BY <1>1, <1>2, <2>3, <2>4
  <2> QED
    BY <1>6, <2>5 DEF Leads
<1>7. ASSUME Shift(m, k) \in Leads(next) PROVE k \in Leads(table)
  <2> SUFFICES ASSUME NEW j \in 1..(k - 1), table[j].lot = table[k].lot PROVE FALSE
    BY DEF Leads
  <2>1. j \in 1..N /\ j < k
    BY <1>2
  <2>2. Shift(m, j) < Shift(m, k) /\ Shift(m, j) \in 1..M /\ next[Shift(m, j)] = table[j]
    BY <1>1, <1>2, <1>3, <2>1
  <2>3. Shift(m, j) \in 1..(Shift(m, k) - 1)
    BY <1>4, <2>2
  <2> QED
    BY <1>4, <1>7, <2>2, <2>3 DEF Leads
<1>8. Shift(m, k) \in Live(next) <=> k \in Live(table)
  BY <1>4, <1>5, <1>6, <1>7 DEF Live
<1>9. LotAt(next, Shift(m, k)) = LotAt(table, k)
  BY <1>4, <1>5 DEF LotAt
<1> QED
  BY <1>6, <1>7, <1>8, <1>9
\* The lots of no row put in are the others'.
LEMMA PutLead ==
  ASSUME NEW table \in Tables, NEW row \in Row, NEW m, NEW next, Puts(table, row, m, next),
         NEW l \in Leads(next)
  PROVE  \/ next[l].lot = row.lot
         \/ \E k \in DOMAIN table : l = Shift(m, k) /\ table[k].lot # row.lot
<1>1. /\ next \in Tables /\ next[m + 1] = row
      /\ \A k \in DOMAIN table : next[Shift(m, k)] = table[k]
      /\ \A i \in DOMAIN next : i = m + 1 \/ \E k \in DOMAIN table : i = Shift(m, k)
  BY PutIs
<1>2. l \in DOMAIN next
  BY DEF Leads
<1> QED
  BY <1>1, <1>2

\* A row that takes all that the first open lot has closes it.
LEMMA CloseHead ==
  ASSUME NEW table \in Tables, NEW row \in Row, NEW m, NEW next, Puts(table, row, m, next),
         NEW lots \in Seq(OpenLot), lots # << >>, Pictures(lots, table, Live(table)),
         row.lot = lots[1].lot, row.delta = -lots[1].quantity
  PROVE  Pictures(Tail(lots), next, Live(next))
<1> DEFINE c == Len(lots)
           rest == Tail(lots)
<1>1. /\ c \in Nat /\ c >= 1 /\ \A n \in 1..c : lots[n] \in OpenLot
      /\ Len(rest) = c - 1 /\ \A n \in 1..(c - 1) : rest[n] = lots[n + 1]
  OBVIOUS
<1>2. PICK q : Lists(q, c, Live(table)) /\ \A n \in 1..c : lots[n] = LotAt(table, q[n])
  BY DEF Pictures
<1> HIDE DEF c, rest
<1>3. /\ \A n \in 1..c : q[n] \in Live(table) /\ q[n] \in Leads(table) /\ q[n] \in DOMAIN table
                         /\ q[n] \in Nat
      /\ \A i, j \in 1..c : i < j => q[i] < q[j]
      /\ \A k \in Live(table) : \E n \in 1..c : q[n] = k
      /\ \A n \in 1..c : lots[n].lot = table[q[n]].lot
                         /\ lots[n].quantity = Units(table, table[q[n]].lot)
  <2>1. Live(table) \in SUBSET Leads(table) /\ Leads(table) \in SUBSET DOMAIN table
        /\ Live(table) \in SUBSET Nat
    BY TableIs
  <2>2. \A k : /\ LotAt(table, k).lot = table[k].lot
               /\ LotAt(table, k).quantity = Units(table, table[k].lot)
    BY DEF LotAt
  <2> QED
    BY <1>2, <2>1, <2>2 DEF Lists
<1>4. ASSUME NEW n \in 1..c, n # 1 PROVE table[q[n]].lot # row.lot
  <2>1. 1 < n /\ 1 \in 1..c
    BY <1>1, <1>4
  <2>2. q[1] < q[n] /\ q[1] \in Nat /\ q[n] \in Nat
    BY <1>3, <2>1
  <2>3. q[1] # q[n]
    BY <2>2
  <2> QED
    BY <1>3, <2>1, <2>3, LeadsDiffer
<1>5. /\ next \in Tables
      /\ \A i, j \in DOMAIN table : i < j => Shift(m, i) < Shift(m, j)
      /\ \A a : Units(next, a) = Units(table, a) + (IF row.lot = a THEN row.delta ELSE 0)
  BY PutIs
<1>6. Units(next, row.lot) = 0
  <2>1. lots[1].quantity = Units(table, row.lot) /\ lots[1].quantity \in Int
    BY <1>1, <1>3 DEF OpenLot
  <2> QED
    BY <1>5, <2>1
<1> DEFINE p == [n \in 1..(c - 1) |-> Shift(m, q[n + 1])]
<1>7. \A n \in 1..(c - 1) : /\ n + 1 \in 1..c /\ n + 1 # 1
                            /\ p[n] = Shift(m, q[n + 1]) /\ q[n + 1] \in DOMAIN table
  BY <1>1, <1>3
<1> HIDE DEF p
<1>8. \A n \in 1..(c - 1) : p[n] \in Live(next) /\ rest[n] = LotAt(next, p[n])
  <2> TAKE n \in 1..(c - 1)
  <2>1. n + 1 \in 1..c /\ table[q[n + 1]].lot # row.lot /\ q[n + 1] \in DOMAIN table
        /\ q[n + 1] \in Live(table) /\ lots[n + 1] = LotAt(table, q[n + 1])
    BY <1>2, <1>3, <1>4, <1>7
  <2>2. /\ Shift(m, q[n + 1]) \in Live(next) <=> q[n + 1] \in Live(table)
        /\ LotAt(next, Shift(m, q[n + 1])) = LotAt(table, q[n + 1])
    BY <2>1, PutOthers
  <2> QED
    BY <1>1, <1>7, <2>1, <2>2
<1>9. \A i, j \in 1..(c - 1) : i < j => p[i] < p[j]
  <2> TAKE i, j \in 1..(c - 1)
  <2> HAVE i < j
  <2>1. q[i + 1] < q[j + 1]
    BY <1>3, <1>7
  <2> QED
    BY <1>5, <1>7, <2>1
<1>10. ASSUME NEW l \in Live(next) PROVE \E n \in 1..(c - 1) : p[n] = l
  <2>1. l \in Leads(next) /\ Units(next, next[l].lot) > 0
    BY DEF Live
  <2>2. PICK k \in DOMAIN table : l = Shift(m, k) /\ table[k].lot # row.lot
    BY <1>6, <2>1, PutLead
  <2>3. k \in Live(table)
    BY <2>2, PutOthers
  <2>4. PICK n \in 1..c : q[n] = k
    BY <1>3, <2>3
  <2>5. n # 1
    BY <1>3, <2>2, <2>4
  <2>6. n - 1 \in 1..(c - 1) /\ (n - 1) + 1 = n
    BY <1>1, <2>5
  <2> QED
    BY <1>7, <2>2, <2>4, <2>6
<1>11. Lists(p, c - 1, Live(next))
  <2>1. Live(next) \in SUBSET Nat /\ c - 1 \in Nat
    BY <1>1, <1>5, TableIs
  <2> QED
    BY <1>8, <1>9, <1>10, <2>1 DEF Lists
<1> QED
  BY <1>1, <1>8, <1>11 DEF Pictures, rest

\* A row that takes some of it leaves it the first, and the rest of it open.
LEMMA CutHead ==
  ASSUME NEW table \in Tables, NEW row \in Row, NEW m, NEW next, Puts(table, row, m, next),
         NEW lots \in Seq(OpenLot), lots # << >>, Pictures(lots, table, Live(table)),
         row.lot = lots[1].lot, row.cost = lots[1].cost,
         NEW left \in Nat \ {0}, row.delta = left - lots[1].quantity
  PROVE  Pictures([lots EXCEPT ![1].quantity = left], next, Live(next))
<1> DEFINE c == Len(lots)
           cut == [lots EXCEPT ![1].quantity = left]
<1>1. /\ c \in Nat /\ c >= 1 /\ \A n \in 1..c : lots[n] \in OpenLot
      /\ Len(cut) = c /\ \A n \in 2..c : cut[n] = lots[n]
      /\ cut[1] = [lots[1] EXCEPT !.quantity = left]
  OBVIOUS
<1>2. PICK q : Lists(q, c, Live(table)) /\ \A n \in 1..c : lots[n] = LotAt(table, q[n])
  BY DEF Pictures
<1> HIDE DEF c, cut
<1>3. /\ \A n \in 1..c : q[n] \in Live(table) /\ q[n] \in Leads(table) /\ q[n] \in DOMAIN table
                         /\ q[n] \in Nat
      /\ \A i, j \in 1..c : i < j => q[i] < q[j]
      /\ \A k \in Live(table) : \E n \in 1..c : q[n] = k
      /\ \A n \in 1..c : /\ lots[n].lot = table[q[n]].lot /\ lots[n].cost = table[q[n]].cost
                         /\ lots[n].quantity = Units(table, table[q[n]].lot)
  <2>1. Live(table) \in SUBSET Leads(table) /\ Leads(table) \in SUBSET DOMAIN table
        /\ Live(table) \in SUBSET Nat
    BY TableIs
  <2>2. \A k : /\ LotAt(table, k).lot = table[k].lot /\ LotAt(table, k).cost = table[k].cost
               /\ LotAt(table, k).quantity = Units(table, table[k].lot)
    BY DEF LotAt
  <2> QED
    BY <1>2, <2>1, <2>2 DEF Lists
<1>4. ASSUME NEW n \in 2..c PROVE n \in 1..c /\ q[1] < q[n] /\ table[q[n]].lot # row.lot
  <2>1. 1 < n /\ 1 \in 1..c /\ n \in 1..c
    BY <1>1, <1>4
  <2>2. q[1] < q[n] /\ q[1] \in Nat /\ q[n] \in Nat
    BY <1>3, <2>1
  <2>3. q[1] # q[n]
    BY <2>2
  <2> QED
    BY <1>3, <2>1, <2>2, <2>3, LeadsDiffer
<1>5. /\ next \in Tables /\ m \in Nat /\ next[m + 1] = row /\ m + 1 \in DOMAIN next
      /\ \A k \in DOMAIN table : Shift(m, k) \in DOMAIN next /\ next[Shift(m, k)] = table[k]
      /\ \A l \in DOMAIN next : l = m + 1 \/ \E k \in DOMAIN table : l = Shift(m, k)
      /\ \A i, j \in DOMAIN table : i < j => Shift(m, i) < Shift(m, j)
      /\ \A a : Units(next, a) = Units(table, a) + (IF row.lot = a THEN row.delta ELSE 0)
  BY PutIs
<1>6. Units(next, row.lot) = left
  <2>1. lots[1].quantity = Units(table, row.lot) /\ lots[1].quantity \in Int
    BY <1>1, <1>3 DEF OpenLot
  <2> QED
    BY <1>5, <2>1
<1> DEFINE first == IF q[1] <= m THEN q[1] ELSE m + 1
<1>7. /\ first \in Leads(next) /\ next[first].lot = row.lot /\ next[first].cost = row.cost
      /\ \A n \in 2..c : first < Shift(m, q[n])
  <2>0. 1 \in 1..c
    BY <1>1
  <2>1. /\ q[1] \in Leads(table) /\ q[1] \in DOMAIN table /\ q[1] \in Nat
        /\ table[q[1]].lot = row.lot /\ table[q[1]].cost = row.cost
    BY <1>3, <2>0
  <2>2. \A j \in 1..(q[1] - 1) : j \in DOMAIN table /\ table[j].lot # row.lot
    <3>1. PICK N \in Nat : DOMAIN table = 1..N
      BY TableIs
    <3> QED
      BY <2>1, <3>1 DEF Leads
  <2>3. \A n \in 2..c : q[1] < q[n] /\ q[n] \in Nat
    BY <1>3, <1>4
  <2>4. CASE q[1] <= m
    <3>1. first = q[1] /\ first = Shift(m, q[1])
      BY <2>4 DEF Shift
    <3>2. first \in DOMAIN next /\ next[first] = table[q[1]]
      BY <1>5, <2>1, <3>1
    <3>3. \A j \in 1..(first - 1) : next[j].lot # row.lot
      <4> TAKE j \in 1..(first - 1)
      <4>1. j \in 1..(q[1] - 1) /\ Shift(m, j) = j
        BY <1>5, <2>1, <2>4, <3>1 DEF Shift
      <4>2. j \in DOMAIN table /\ table[j].lot # row.lot
        BY <2>2, <4>1
      <4>3. next[j] = table[j]
        BY <1>5, <4>1, <4>2
      <4> QED
        BY <4>2, <4>3
    <3>4. \A n \in 2..c : first < Shift(m, q[n])
      BY <1>5, <2>1, <2>3, <3>1 DEF Shift
    <3> QED
      BY <2>1, <3>2, <3>3, <3>4 DEF Leads
  <2>5. CASE ~(q[1] <= m)
    <3>1. first = m + 1
      BY <2>5
    <3>2. \A j \in 1..(first - 1) : next[j].lot # row.lot
      <4> TAKE j \in 1..(first - 1)
      <4>1. j \in 1..(q[1] - 1) /\ Shift(m, j) = j
        BY <1>5, <2>1, <2>5, <3>1 DEF Shift
      <4>2. j \in DOMAIN table /\ table[j].lot # row.lot
        BY <2>2, <4>1
      <4>3. next[j] = table[j]
        BY <1>5, <4>1, <4>2
      <4> QED
        BY <4>2, <4>3
    <3>3. \A n \in 2..c : first < Shift(m, q[n])
      BY <1>5, <2>1, <2>3, <2>5, <3>1 DEF Shift
    <3> QED
      BY <1>5, <3>1, <3>2, <3>3 DEF Leads
  <2> QED
    BY <2>4, <2>5
<1> HIDE DEF first
<1>8. first \in Live(next) /\ LotAt(next, first) = cut[1]
  <2>1. LotAt(next, first) = [lot |-> row.lot, quantity |-> left, cost |-> row.cost]
    BY <1>6, <1>7 DEF LotAt
  <2>2. cut[1] = [lot |-> row.lot, quantity |-> left, cost |-> row.cost]
    <3>1. lots[1] \in OpenLot
      BY <1>1
    <3> QED
      BY <1>1, <3>1, Relabelled
  <2> QED
    BY <1>6, <1>7, <2>1, <2>2 DEF Live
<1> DEFINE p == [n \in 1..c |-> IF n = 1 THEN first ELSE Shift(m, q[n])]
<1>9. /\ 1 \in 1..c /\ p[1] = first
      /\ \A n \in 1..c : n = 1 \/ n \in 2..c
      /\ \A n \in 2..c : n \in 1..c /\ p[n] = Shift(m, q[n])
  BY <1>1
<1> HIDE DEF p
<1>10. \A n \in 2..c : p[n] \in Live(next) /\ cut[n] = LotAt(next, p[n])
  <2> TAKE n \in 2..c
  <2>1. n \in 1..c /\ table[q[n]].lot # row.lot /\ q[n] \in DOMAIN table
        /\ q[n] \in Live(table) /\ lots[n] = LotAt(table, q[n])
    BY <1>2, <1>3, <1>4
  <2>2. /\ Shift(m, q[n]) \in Live(next) <=> q[n] \in Live(table)
        /\ LotAt(next, Shift(m, q[n])) = LotAt(table, q[n])
    BY <2>1, PutOthers
  <2> QED
    BY <1>1, <1>9, <2>1, <2>2
<1>11. \A n \in 1..c : p[n] \in Live(next) /\ cut[n] = LotAt(next, p[n])
  BY <1>8, <1>9, <1>10
<1>12. \A i, j \in 1..c : i < j => p[i] < p[j]
  <2> TAKE i, j \in 1..c
  <2> HAVE i < j
  <2>1. j \in 2..c
    BY <1>1
  <2>2. CASE i = 1
    BY <1>7, <1>9, <2>1, <2>2
  <2>3. CASE i \in 2..c
    <3>1. q[i] < q[j] /\ q[i] \in DOMAIN table /\ q[j] \in DOMAIN table
      BY <1>3
    <3> QED
      BY <1>5, <1>9, <2>1, <2>3, <3>1
  <2> QED
    BY <1>9, <2>2, <2>3
<1>13. ASSUME NEW l \in Live(next) PROVE \E n \in 1..c : p[n] = l
  <2>1. l \in Leads(next)
    BY DEF Live
  <2>2. CASE next[l].lot = row.lot
    <3>1. l = first
      BY <1>5, <1>7, <2>1, <2>2, LeadsDiffer
    <3> QED
      BY <1>9, <3>1
  <2>3. CASE next[l].lot # row.lot
    <3>1. PICK k \in DOMAIN table : l = Shift(m, k) /\ table[k].lot # row.lot
      BY <2>1, <2>3, PutLead
    <3>2. k \in Live(table)
      BY <3>1, PutOthers
    <3>3. PICK n \in 1..c : q[n] = k
      BY <1>3, <3>2
    <3>4. n # 1
      BY <1>3, <3>1, <3>3
    <3> QED
      BY <1>9, <3>1, <3>3, <3>4
  <2> QED
    BY <2>2, <2>3
<1>14. Lists(p, c, Live(next))
  <2>1. Live(next) \in SUBSET Nat
    BY <1>5, TableIs
  <2> QED
    BY <1>1, <1>11, <1>12, <1>13, <2>1 DEF Lists
<1> QED
  BY <1>1, <1>11, <1>14 DEF Pictures, cut
\* A row of a lot that is new, behind all the open ones, opens it last.
LEMMA OpenLast ==
  ASSUME NEW table \in Tables, NEW row \in Row, NEW m, NEW next, Puts(table, row, m, next),
         NEW lots \in Seq(OpenLot), Pictures(lots, table, Live(table)),
         \A k \in DOMAIN table : table[k].lot # row.lot,
         row.delta > 0, \A k \in Live(table) : k <= m
  PROVE  Pictures(Append(lots, [lot |-> row.lot, quantity |-> row.delta, cost |-> row.cost]),
                  next, Live(next))
<1> DEFINE c == Len(lots)
           new == [lot |-> row.lot, quantity |-> row.delta, cost |-> row.cost]
           more == Append(lots, new)
<1>1. c \in Nat /\ Len(more) = c + 1 /\ more[c + 1] = new /\ \A n \in 1..c : more[n] = lots[n]
  OBVIOUS
<1>2. PICK q : Lists(q, c, Live(table)) /\ \A n \in 1..c : lots[n] = LotAt(table, q[n])
  BY DEF Pictures
<1> HIDE DEF c, more
<1>3. /\ \A n \in 1..c : q[n] \in Live(table) /\ q[n] \in DOMAIN table /\ q[n] \in Nat
      /\ \A i, j \in 1..c : i < j => q[i] < q[j]
      /\ \A k \in Live(table) : \E n \in 1..c : q[n] = k
  <2>1. Live(table) \in SUBSET Leads(table) /\ Leads(table) \in SUBSET DOMAIN table
        /\ Live(table) \in SUBSET Nat
    BY TableIs
  <2> QED
    BY <1>2, <2>1 DEF Lists
<1>4. /\ next \in Tables /\ m \in Nat /\ next[m + 1] = row /\ m + 1 \in DOMAIN next
      /\ \A k \in DOMAIN table : next[Shift(m, k)] = table[k] /\ Shift(m, k) # m + 1
      /\ \A l \in DOMAIN next : l = m + 1 \/ \E k \in DOMAIN table : l = Shift(m, k)
      /\ \A a : Units(next, a) = Units(table, a) + (IF row.lot = a THEN row.delta ELSE 0)
  BY PutIs
<1>5. Units(next, row.lot) = row.delta
  <2>1. Units(table, row.lot) = 0 /\ row.delta \in Int
    BY NoUnits DEF Row
  <2> QED
    BY <1>4, <2>1
<1>6. m + 1 \in Leads(next)
  <2> SUFFICES ASSUME NEW j \in 1..((m + 1) - 1), next[j].lot = row.lot PROVE FALSE
    BY <1>4 DEF Leads
  <2>1. j \in DOMAIN next /\ j # m + 1
    <3>1. PICK M \in Nat : DOMAIN next = 1..M
      BY <1>4, TableIs
    <3> QED
      BY <1>4, <3>1
  <2>2. PICK k \in DOMAIN table : j = Shift(m, k)
    BY <1>4, <2>1
  <2> QED
    BY <1>4, <2>2
<1>7. m + 1 \in Live(next) /\ LotAt(next, m + 1) = new
  BY <1>4, <1>5, <1>6 DEF Live, LotAt
<1>8. \A k \in Live(table) : k \in DOMAIN table /\ Shift(m, k) = k /\ k < m + 1
  <2>1. Live(table) \in SUBSET DOMAIN table /\ Live(table) \in SUBSET Nat
    BY TableIs
  <2> QED
    BY <1>4, <2>1 DEF Shift
<1>9. \A k \in Live(table) : k \in Live(next) /\ LotAt(next, k) = LotAt(table, k)
  <2> TAKE k \in Live(table)
  <2>1. /\ Shift(m, k) \in Live(next) <=> k \in Live(table)
        /\ LotAt(next, Shift(m, k)) = LotAt(table, k)
    BY <1>8, PutOthers
  <2> QED
    BY <1>8, <2>1
<1> DEFINE p == [n \in 1..(c + 1) |-> IF n = c + 1 THEN m + 1 ELSE q[n]]
<1>10. /\ c + 1 \in 1..(c + 1) /\ p[c + 1] = m + 1
       /\ \A n \in 1..(c + 1) : n = c + 1 \/ n \in 1..c
       /\ \A n \in 1..c : n \in 1..(c + 1) /\ p[n] = q[n]
  BY <1>1
<1> HIDE DEF p, new
<1>11. \A n \in 1..(c + 1) : p[n] \in Live(next) /\ more[n] = LotAt(next, p[n])
  <2>1. \A n \in 1..c : p[n] \in Live(next) /\ more[n] = LotAt(next, p[n])
    BY <1>1, <1>2, <1>3, <1>9, <1>10
  <2> QED
    BY <1>1, <1>7, <1>10, <2>1
<1>12. \A i, j \in 1..(c + 1) : i < j => p[i] < p[j]
  <2> TAKE i, j \in 1..(c + 1)
  <2> HAVE i < j
  <2>1. i \in 1..c
    BY <1>1
  <2>2. CASE j = c + 1
    BY <1>3, <1>8, <1>10, <2>1, <2>2
  <2>3. CASE j \in 1..c
    BY <1>3, <1>10, <2>1, <2>3
  <2> QED
    BY <1>10, <2>2, <2>3
<1>13. ASSUME NEW l \in Live(next) PROVE \E n \in 1..(c + 1) : p[n] = l
  <2>1. l \in Leads(next)
    BY DEF Live
  <2>2. CASE next[l].lot = row.lot
    <3>1. l = m + 1
      BY <1>4, <1>6, <2>1, <2>2, LeadsDiffer
    <3> QED
      BY <1>10, <3>1
  <2>3. CASE next[l].lot # row.lot
    <3>1. PICK k \in DOMAIN table : l = Shift(m, k) /\ table[k].lot # row.lot
      BY <2>1, <2>3, PutLead
    <3>2. k \in Live(table)
      BY <3>1, PutOthers
    <3>3. PICK n \in 1..c : q[n] = k
      BY <1>3, <3>2
    <3> QED
      BY <1>8, <1>10, <3>1, <3>2, <3>3
  <2> QED
    BY <2>2, <2>3
<1>14. Lists(p, c + 1, Live(next))
  <2>1. Live(next) \in SUBSET Nat /\ c + 1 \in Nat
    BY <1>1, <1>4, TableIs
  <2> QED
    BY <1>11, <1>12, <1>13, <2>1 DEF Lists
<1> QED
  BY <1>1, <1>11, <1>14 DEF Pictures, more, new
-----------------------------------------------------------------------------
(* The order of the rows. *)

LEMMA SameList ==
  ASSUME NEW S, NEW s \in Seq(S), NEW t \in Seq(S), Len(s) = Len(t),
         \A k \in 1..Len(s) : s[k] = t[k]
  PROVE  s = t
OBVIOUS

Sorted(table) == \A i, j \in DOMAIN table : i < j => Key(table[i]) <= Key(table[j])

LEMMA KeyIs == \A row \in Row : Key(row) \in Nat
<1> SUFFICES ASSUME NEW row \in Row PROVE Key(row) \in Nat
  OBVIOUS
<1>1. row.at \in Nat /\ row.rank \in Nat /\ row.index \in Nat
  BY DEF Row
<1>2. TextOrder(row.index) \in Nat
  BY <1>1 DEF TextOrder
<1> HIDE DEF Row
<1> QED
  BY <1>1, <1>2 DEF Key

\* The first rows of an ordered table are those up to any key.
LEMMA UpToKey ==
  ASSUME NEW table \in Tables, Sorted(table), NEW K \in Nat
  PROVE  \E m \in 0..Len(table) : \A k \in DOMAIN table : Key(table[k]) <= K <=> k <= m
<1> DEFINE Low == {k \in DOMAIN table : Key(table[k]) <= K}
<1>1. PICK N \in Nat : N = Len(table) /\ DOMAIN table = 1..N
  BY TableIs
<1>2. \A k \in DOMAIN table : Key(table[k]) \in Nat
  BY KeyIs, TableIs
<1>3. CASE Low = {}
  <2>1. 0 \in 0..N /\ \A k \in DOMAIN table : ~(k <= 0) /\ ~(Key(table[k]) <= K)
    BY <1>1, <1>3
  <2> QED
    BY <1>1, <2>1
<1>4. CASE Low # {}
  <2>1. Low \in SUBSET (1..N)
    BY <1>1
  <2> HIDE DEF Low
  <2>2. Max(Low) \in Low /\ \A k \in Low : k <= Max(Low)
    BY <1>4, <2>1, Greatest
  <2> DEFINE m == Max(Low)
  <2>3. m \in Low /\ \A k \in Low : k <= m
    BY <2>2
  <2> HIDE DEF m
  <2>4. m \in 1..N /\ Key(table[m]) <= K
    BY <2>1, <2>3 DEF Low
  <2>5. ASSUME NEW k \in DOMAIN table PROVE Key(table[k]) <= K <=> k <= m
    <3>1. Key(table[k]) <= K => k <= m
      BY <2>3 DEF Low
    <3>2. k < m => Key(table[k]) <= Key(table[m])
      BY <1>1, <2>4 DEF Sorted
    <3>3. Key(table[k]) \in Nat /\ Key(table[m]) \in Nat
      BY <1>1, <1>2, <2>4
    <3>4. k <= m => k < m \/ k = m
      BY <1>1, <2>4
    <3> QED
      BY <2>4, <3>1, <3>2, <3>3, <3>4
  <2>6. m \in 0..Len(table)
    BY <1>1, <2>4
  <2> QED
    BY <2>5, <2>6
<1> QED
  BY <1>3, <1>4

\* A row that is new is put behind those of its key, and the table stays ordered.
LEMMA InsertPuts ==
  ASSUME NEW table \in Tables, Sorted(table), NEW row \in Row,
         \A k \in DOMAIN table : table[k] # row
  PROVE  /\ Sorted(Insert(table, row))
         /\ \E m : /\ Puts(table, row, m, Insert(table, row))
                   /\ \A k \in DOMAIN table : Key(table[k]) <= Key(row) <=> k <= m
<1>1. PICK N \in Nat : N = Len(table) /\ DOMAIN table = 1..N
  BY TableIs
<1>2. Key(row) \in Nat /\ \A k \in 1..N : Key(table[k]) \in Nat
  BY <1>1, KeyIs, TableIs
<1>3. PICK m \in 0..N : \A k \in 1..N : Key(table[k]) <= Key(row) <=> k <= m
  BY <1>1, <1>2, UpToKey
<1> DEFINE Low == {k \in DOMAIN table : Key(table[k]) <= Key(row)}
           High == {k \in DOMAIN table : Key(table[k]) > Key(row)}
           low == Chosen(table, Low)
           high == Chosen(table, High)
           next == Append(low, row) \o high
<1>4. Insert(table, row) = next
  <2>1. ~Contains(table, row)
    BY <1>1 DEF Contains
  <2> QED
    BY <2>1 DEF Insert, Inserted, Sift
<1>5. Low = (0 + 1)..m
  BY <1>1, <1>3
<1>6. High = (m + 1)..N
  <2>1. \A k \in 1..N : Key(table[k]) > Key(row) <=> ~(k <= m)
    BY <1>2, <1>3
  <2>2. \A k \in (m + 1)..N : k \in 1..N /\ ~(k <= m)
    OBVIOUS
  <2>3. \A k \in 1..N : ~(k <= m) => k \in (m + 1)..N
    OBVIOUS
  <2> QED
    BY <1>1, <2>1, <2>2, <2>3
<1>7. table \in Seq(Row)
  BY DEF Tables
<1> HIDE DEF Low, High, low, high
<1>8. low \in Seq(Row) /\ Len(low) = m /\ \A k \in 1..m : low[k] = table[k]
  <2> DEFINE a == 0
  <2>1. a \in Nat /\ m \in Nat /\ a <= m /\ m <= Len(table) /\ Low = (a + 1)..m
    BY <1>1, <1>5
  <2>2. m - a = m /\ \A k \in 1..m : a + k = k
    OBVIOUS
  <2> HIDE DEF a
  <2>3. /\ Chosen(table, (a + 1)..m) \in Seq(Row) /\ Len(Chosen(table, (a + 1)..m)) = m - a
        /\ \A k \in 1..(m - a) : Chosen(table, (a + 1)..m)[k] = table[a + k]
    BY <1>7, <2>1, ChosenRange
  <2> QED
    BY <2>1, <2>2, <2>3 DEF low
<1>9. high \in Seq(Row) /\ Len(high) = N - m /\ \A k \in 1..(N - m) : high[k] = table[m + k]
  <2>1. m \in Nat /\ m <= N /\ N <= Len(table)
    BY <1>1
  <2> QED
    BY <1>6, <1>7, <2>1, ChosenRange DEF high
<1>10. low \o high = table
  <2>1. low \o high \in Seq(Row) /\ Len(low \o high) = N
    BY <1>8, <1>9
  <2>2. \A k \in 1..N : (low \o high)[k] = table[k]
    <3> TAKE k \in 1..N
    <3>1. CASE k <= m
      BY <1>8, <1>9, <3>1
    <3>2. CASE ~(k <= m)
      <4>1. k - m \in 1..(N - m) /\ m + (k - m) = k
        BY <3>2
      <4>2. (low \o high)[m + (k - m)] = high[k - m]
        BY <1>8, <1>9, <4>1
      <4> QED
        BY <1>9, <4>1, <4>2
    <3> QED
      BY <3>1, <3>2
  <2> QED
    BY <1>1, <1>7, <2>1, <2>2, SameList
<1>11. /\ next \in Seq(Row) /\ Len(next) = N + 1 /\ next[m + 1] = row
       /\ \A k \in 1..m : next[k] = table[k]
       /\ \A k \in (m + 1)..N : next[k + 1] = table[k]
  <2> DEFINE front == Append(low, row)
  <2>1. front \in Seq(Row) /\ Len(front) = m + 1 /\ front[m + 1] = row
        /\ \A k \in 1..m : front[k] = table[k]
    BY <1>8
  <2> HIDE DEF front
  <2>2. next = front \o high
    BY DEF front
  <2>3. next \in Seq(Row) /\ Len(next) = N + 1
    BY <1>9, <2>1, <2>2
  <2>4. \A k \in 1..(m + 1) : next[k] = front[k]
    BY <1>9, <2>1, <2>2
  <2>5. \A k \in (m + 1)..N : next[k + 1] = table[k]
    <3> TAKE k \in (m + 1)..N
    <3>1. k - m \in 1..(N - m) /\ (m + 1) + (k - m) = k + 1 /\ m + (k - m) = k
      OBVIOUS
    <3>2. (front \o high)[(m + 1) + (k - m)] = high[k - m]
      BY <1>9, <2>1, <3>1
    <3> QED
      BY <1>9, <2>2, <3>1, <3>2
  <2>6. m + 1 \in 1..(m + 1) /\ \A k \in 1..m : k \in 1..(m + 1)
    OBVIOUS
  <2> QED
    BY <2>1, <2>3, <2>4, <2>5, <2>6
<1>12. \A w \in Weights : SumOf(w, next) = SumOf(w, table) + w[row]
  <2>1. low \in Tables /\ high \in Tables
    BY <1>8, <1>9 DEF Tables
  <2> QED
    BY <1>10, <2>1, SumInserted
<1> HIDE DEF next
<1>13. Puts(table, row, m, next)
  BY <1>1, <1>11, <1>12 DEF Puts, Tables
<1>14. Sorted(next)
  <2>1. DOMAIN next = 1..(N + 1)
    BY <1>11
  <2>2. \A i, j \in 1..N : i <= j => Key(table[i]) <= Key(table[j])
    <3> TAKE i, j \in 1..N
    <3> HAVE i <= j
    <3>1. i < j \/ i = j
      OBVIOUS
    <3> QED
      BY <1>1, <1>2, <3>1 DEF Sorted
  <2> SUFFICES ASSUME NEW i \in 1..(N + 1), NEW j \in 1..(N + 1), i < j
               PROVE  Key(next[i]) <= Key(next[j])
    BY <2>1 DEF Sorted
  <2>3. CASE i <= m /\ j <= m
    BY <1>11, <2>2, <2>3
  <2>4. CASE i <= m /\ j = m + 1
    <3>1. i \in 1..N /\ next[i] = table[i]
      BY <1>11, <2>4
    <3> QED
      BY <1>3, <1>11, <2>4, <3>1
  <2>5. CASE i <= m /\ j > m + 1
    <3>1. i \in 1..N /\ j - 1 \in (m + 1)..N /\ (j - 1) + 1 = j /\ j - 1 \in 1..N /\ i <= j - 1
      BY <2>5
    <3>2. next[i] = table[i] /\ next[j] = table[j - 1]
      BY <1>11, <2>5, <3>1
    <3> QED
      BY <2>2, <3>1, <3>2
  <2>6. CASE i = m + 1
    <3>1. j - 1 \in (m + 1)..N /\ (j - 1) + 1 = j /\ j - 1 \in 1..N /\ ~(j - 1 <= m)
      BY <2>6
    <3>2. next[j] = table[j - 1] /\ next[i] = row
      BY <1>11, <2>6, <3>1
    <3>3. ~(Key(table[j - 1]) <= Key(row)) /\ Key(table[j - 1]) \in Nat
      BY <1>2, <1>3, <3>1
    <3> QED
      BY <1>2, <3>2, <3>3
  <2>7. CASE i > m + 1
    <3>1. /\ i - 1 \in (m + 1)..N /\ (i - 1) + 1 = i /\ i - 1 \in 1..N
          /\ j - 1 \in (m + 1)..N /\ (j - 1) + 1 = j /\ j - 1 \in 1..N /\ i - 1 <= j - 1
      BY <2>7
    <3>2. next[i] = table[i - 1] /\ next[j] = table[j - 1]
      BY <1>11, <3>1
    <3> QED
      BY <2>2, <3>1, <3>2
  <2> QED
    BY <2>3, <2>4, <2>5, <2>6, <2>7
<1> QED
  BY <1>1, <1>3, <1>4, <1>13, <1>14
-----------------------------------------------------------------------------
(* What the open lots cost. *)

CostsAgree(table) ==
  \A i, j \in DOMAIN table : table[i].lot = table[j].lot => table[i].cost = table[j].cost

LEMMA Distributes == \A q, d, c \in Int : (q + d) * c = q * c + d * c /\ q * c \in Int
OBVIOUS

LotList(lots) == lots \in Seq(Lot)

\* The basis of a list is that of any lot of it and of the others.
LEMMA BasisIs ==
  ASSUME NEW lots, LotList(lots)
  PROVE  /\ CostBasis(lots) \in Int
         /\ lots = << >> => CostBasis(lots) = 0
         /\ \A d \in DOMAIN lots :
              CostBasis(lots)
                = lots[d].quantity * lots[d].cost
                    + SumFunction([n \in DOMAIN lots \ {d} |-> lots[n].quantity * lots[n].cost])
         /\ \A D \in SUBSET DOMAIN lots :
              SumFunction([n \in D |-> lots[n].quantity * lots[n].cost]) \in Int
<1> DEFINE f == [n \in DOMAIN lots |-> lots[n].quantity * lots[n].cost]
<1>1. PICK m \in Nat : DOMAIN lots = 1..m /\ m = Len(lots)
  <2>1. lots \in Seq(Lot)
    BY DEF LotList
  <2>2. Len(lots) \in Nat /\ DOMAIN lots = 1..Len(lots)
    BY <2>1
  <2> QED
    BY <2>2
<1>2. \A n \in 1..m : lots[n].quantity * lots[n].cost \in Int
  <2> TAKE n \in 1..m
  <2>1. lots[n] \in Lot
    BY <1>1 DEF LotList
  <2>2. lots[n].quantity \in Int /\ lots[n].cost \in Int
    BY <2>1 DEF Lot
  <2> QED
    BY <2>2, Distributes
<1>3. DOMAIN f = 1..m /\ \A n \in 1..m : f[n] = lots[n].quantity * lots[n].cost
  BY <1>1
<1>4. CostBasis(lots) = SumFunction(f)
  BY DEF CostBasis
<1>5. \A d \in DOMAIN lots : [n \in DOMAIN lots \ {d} |-> lots[n].quantity * lots[n].cost]
                               = [n \in DOMAIN f \ {d} |-> f[n]]
  BY <1>1, <1>3
<1> HIDE DEF f
<1>0. IsFiniteSet(1..m)
  BY FS_Interval
<1>6. IsFiniteSet(DOMAIN f) /\ \A n \in DOMAIN f : f[n] \in Int
  BY <1>0, <1>2, <1>3
<1>7. /\ SumFunction(f) \in Int
      /\ DOMAIN f = {} => SumFunction(f) = 0
      /\ \A d \in DOMAIN f :
           SumFunction(f) = f[d] + SumFunction([n \in DOMAIN f \ {d} |-> f[n]])
  BY <1>6, Sums
<1>8. ASSUME NEW D \in SUBSET DOMAIN lots
      PROVE  SumFunction([n \in D |-> lots[n].quantity * lots[n].cost]) \in Int
  <2> DEFINE g == [n \in D |-> lots[n].quantity * lots[n].cost]
  <2>1. DOMAIN g = D /\ \A n \in D : g[n] \in Int
    BY <1>1, <1>2
  <2>2. IsFiniteSet(D)
    BY <1>0, <1>1, FS_Subset
  <2> HIDE DEF g
  <2>3. SumFunction(g) \in Int
    BY <2>1, <2>2, Sums
  <2> QED
    BY <2>3 DEF g
<1>9. lots = << >> => DOMAIN f = {}
  BY <1>1, <1>3
<1>10. ASSUME NEW d \in DOMAIN lots
       PROVE  CostBasis(lots)
                = lots[d].quantity * lots[d].cost
                    + SumFunction([n \in DOMAIN lots \ {d} |-> lots[n].quantity * lots[n].cost])
  <2>1. SumFunction(f) = f[d] + SumFunction([n \in DOMAIN f \ {d} |-> f[n]])
    BY <1>1, <1>3, <1>7
  <2>2. f[d] = lots[d].quantity * lots[d].cost
    BY <1>1, <1>3
  <2> QED
    BY <1>4, <1>5, <2>1, <2>2
<1> QED
  BY <1>4, <1>7, <1>8, <1>9, <1>10

\* A lot more adds what it costs.
LEMMA BasisLast ==
  ASSUME NEW lots, LotList(lots), NEW x \in Lot
  PROVE  CostBasis(Append(lots, x)) = CostBasis(lots) + x.quantity * x.cost
<1> DEFINE more == Append(lots, x)
<1>1. PICK m \in Nat : DOMAIN lots = 1..m /\ m = Len(lots)
  <2>1. lots \in Seq(Lot)
    BY DEF LotList
  <2>2. Len(lots) \in Nat /\ DOMAIN lots = 1..Len(lots)
    BY <2>1
  <2> QED
    BY <2>2
<1>2. /\ LotList(more) /\ DOMAIN more = 1..(m + 1) /\ more[m + 1] = x
      /\ \A n \in 1..m : more[n] = lots[n]
  BY <1>1 DEF LotList
<1> HIDE DEF more
<1>3. m + 1 \in DOMAIN more /\ DOMAIN more \ {m + 1} = DOMAIN lots
  BY <1>1, <1>2
<1>4. CostBasis(more) = more[m + 1].quantity * more[m + 1].cost
        + SumFunction([n \in DOMAIN more \ {m + 1} |-> more[n].quantity * more[n].cost])
  BY <1>2, <1>3, BasisIs
<1>5. [n \in DOMAIN more \ {m + 1} |-> more[n].quantity * more[n].cost]
        = [n \in DOMAIN lots |-> lots[n].quantity * lots[n].cost]
  BY <1>1, <1>2, <1>3
<1>6. CostBasis(more) = x.quantity * x.cost + CostBasis(lots)
  BY <1>2, <1>4, <1>5 DEF CostBasis
<1>7. CostBasis(lots) \in Int /\ x.quantity * x.cost \in Int
  <2>1. x.quantity \in Int /\ x.cost \in Int
    BY DEF Lot
  <2> QED
    BY <2>1, BasisIs, Distributes
<1> QED
  BY <1>6, <1>7 DEF more

\* Units more of a lot add what they cost.
LEMMA BasisChanged ==
  ASSUME NEW lots, LotList(lots), NEW k \in DOMAIN lots, NEW d \in Int
  PROVE  CostBasis([lots EXCEPT ![k].quantity = @ + d]) = CostBasis(lots) + d * lots[k].cost
<1> DEFINE changed == [lots EXCEPT ![k].quantity = @ + d]
<1>1. lots \in Seq(Lot) /\ lots[k] \in Lot
  BY DEF LotList
<1>2. PICK q \in Int, c \in Int : q = lots[k].quantity /\ c = lots[k].cost
  BY <1>1 DEF Lot
<1>3. [lots[k] EXCEPT !.quantity = @ + d] \in Lot
      /\ [lots[k] EXCEPT !.quantity = @ + d].quantity = q + d
      /\ [lots[k] EXCEPT !.quantity = @ + d].cost = c
  <2>1. ASSUME NEW l \in Lot
        PROVE  /\ [l EXCEPT !.quantity = l.quantity + d] \in Lot
               /\ [l EXCEPT !.quantity = l.quantity + d].quantity = l.quantity + d
               /\ [l EXCEPT !.quantity = l.quantity + d].cost = l.cost
    <3>1. PICK more \in Int : more = l.quantity + d
      BY DEF Lot
    <3> HIDE DEF changed
    <3>2. /\ [l EXCEPT !.quantity = more] \in Lot
          /\ [l EXCEPT !.quantity = more].quantity = more
          /\ [l EXCEPT !.quantity = more].cost = l.cost
      BY DEF Lot
    <3> QED
      BY <3>1, <3>2
  <2> QED
    BY <1>1, <1>2, <2>1
<1>4. changed = [lots EXCEPT ![k] = [lots[k] EXCEPT !.quantity = @ + d]]
  OBVIOUS
<1>5. /\ changed \in Seq(Lot) /\ DOMAIN changed = DOMAIN lots
      /\ changed[k] = [lots[k] EXCEPT !.quantity = @ + d]
      /\ \A n \in DOMAIN lots \ {k} : changed[n] = lots[n]
  BY <1>1, <1>3, <1>4
<1> HIDE DEF changed
<1>6. /\ changed[k].quantity = q + d /\ changed[k].cost = c /\ LotList(changed)
  BY <1>3, <1>5 DEF LotList
<1> DEFINE Rest == SumFunction([n \in DOMAIN lots \ {k} |-> lots[n].quantity * lots[n].cost])
<1>7. CostBasis(lots) = q * c + Rest /\ Rest \in Int
  BY <1>2, BasisIs
<1>8. CostBasis(changed) = (q + d) * c + Rest
  <2>1. [n \in DOMAIN lots \ {k} |-> changed[n].quantity * changed[n].cost]
          = [n \in DOMAIN lots \ {k} |-> lots[n].quantity * lots[n].cost]
    BY <1>5
  <2>2. CostBasis(changed) = changed[k].quantity * changed[k].cost
          + SumFunction([n \in DOMAIN changed \ {k} |-> changed[n].quantity * changed[n].cost])
    BY <1>5, <1>6, BasisIs
  <2> QED
    BY <1>5, <1>6, <2>1, <2>2
<1> HIDE DEF Rest
<1>9. (q + d) * c = q * c + d * c /\ q * c \in Int /\ d * c \in Int
  BY Distributes
<1> QED
  BY <1>2, <1>7, <1>8, <1>9 DEF changed

\* Lots of nothing cost nothing.
LEMMA BasisOpen ==
  ASSUME NEW lots \in Seq(Lot), \A n \in DOMAIN lots : lots[n].quantity >= 0
  PROVE  CostBasis(Sift(lots, LAMBDA lot : lot.quantity > 0)) = CostBasis(lots)
<1> DEFINE Left(l) == {n \in DOMAIN l : l[n].quantity > 0}
           P == {l \in Seq(Lot) : (\A n \in DOMAIN l : l[n].quantity >= 0)
                                    => CostBasis(Chosen(l, Left(l))) = CostBasis(l)}
<1>1. << >> \in P
  <2>1. Left(<< >>) = DOMAIN << >> /\ << >> \in Seq(Lot)
    OBVIOUS
  <2> HIDE DEF Left
  <2>2. Chosen(<< >>, Left(<< >>)) = << >>
    BY <2>1, ChosenIs
  <2> QED
    BY <2>1, <2>2
<1>2. ASSUME NEW l \in Seq(Lot), NEW x \in Lot, l \in P PROVE Append(l, x) \in P
  <2> DEFINE more == Append(l, x)
  <2>1. PICK m \in Nat : DOMAIN l = 1..m /\ m = Len(l)
    <3>1. Len(l) \in Nat /\ DOMAIN l = 1..Len(l)
      OBVIOUS
    <3> QED
      BY <3>1
  <2>2. /\ more \in Seq(Lot) /\ DOMAIN more = 1..(m + 1) /\ more[m + 1] = x
        /\ \A n \in 1..m : more[n] = l[n] /\ n \in 1..(m + 1)
        /\ m + 1 \in 1..(m + 1) /\ \A n \in 1..(m + 1) : n \in 1..m \/ n = m + 1
    BY <2>1
  <2> SUFFICES ASSUME \A n \in DOMAIN more : more[n].quantity >= 0
               PROVE  CostBasis(Chosen(more, Left(more))) = CostBasis(more)
    BY <2>2
  <2> HIDE DEF more
  <2>3. x.quantity >= 0 /\ \A n \in DOMAIN l : l[n].quantity >= 0
    BY <2>1, <2>2
  <2>4. CostBasis(Chosen(l, Left(l))) = CostBasis(l)
    BY <1>2, <2>3
  <2>5. CostBasis(more) = CostBasis(l) + x.quantity * x.cost
    BY BasisLast DEF LotList, more
  <2>6. Left(l) \in SUBSET DOMAIN l
    OBVIOUS
  <2>10. /\ Chosen(more, Left(l)) = Chosen(l, Left(l))
         /\ Chosen(more, Left(l) \cup {Len(l) + 1}) = Append(Chosen(l, Left(l)), x)
    <3> DEFINE K == Left(l)
    <3>1. K \in SUBSET DOMAIN l
      BY <2>6
    <3> HIDE DEF K
    <3>2. /\ Chosen(more, K) = Chosen(l, K)
          /\ Chosen(more, K \cup {Len(l) + 1}) = Append(Chosen(l, K), x)
      BY <3>1, ChosenLast DEF more
    <3> QED
      BY <3>2 DEF K
  <2>7. x.quantity \in Int /\ x.cost \in Int
    BY DEF Lot
  <2>8. CASE x.quantity > 0
    <3>1. Left(more) = Left(l) \cup {Len(l) + 1}
      BY <2>1, <2>2, <2>8
    <3> HIDE DEF Left
    <3>2. Chosen(more, Left(more)) = Append(Chosen(l, Left(l)), x)
      BY <2>10, <3>1
    <3>3. LotList(Chosen(l, Left(l)))
      BY <2>6, ChosenIs DEF LotList
    <3>4. CostBasis(Append(Chosen(l, Left(l)), x)) = CostBasis(Chosen(l, Left(l))) + x.quantity * x.cost
      BY <3>3, BasisLast
    <3> QED
      BY <2>4, <2>5, <3>2, <3>4
  <2>9. CASE ~(x.quantity > 0)
    <3>1. Left(more) = Left(l)
      BY <2>1, <2>2, <2>9
    <3> HIDE DEF Left
    <3>2. Chosen(more, Left(more)) = Chosen(l, Left(l))
      BY <2>10, <3>1
    <3>3. x.quantity = 0
      BY <2>3, <2>7, <2>9
    <3>4. x.quantity * x.cost = 0 /\ CostBasis(l) \in Int
      BY <2>7, <3>3, BasisIs DEF LotList
    <3> QED
      BY <2>4, <2>5, <3>2, <3>4
  <2> QED
    BY <2>8, <2>9
<1>3. lots \in P
  <2> HIDE DEF P
  <2> QED
    BY <1>1, <1>2, ListInduct
<1> QED
  BY <1>3 DEF Sift

\* The lots of a table cost what its rows do.
LEMMA LotsWorth ==
  \A table \in Tables : CostsAgree(table) => CostBasis(Lots(table)) = Worth(table)
<1> DEFINE P == {table \in Tables : CostsAgree(table) => CostBasis(Lots(table)) = Worth(table)}
<1>1. << >> \in P
  <2>1. << >> \in Tables /\ << >> \in Seq(Lot)
    BY DEF Tables
  <2>2. Worth(<< >>) = 0
    BY WeightsAre, SumOfAdds DEF Worth
  <2>3. Lots(<< >>) = << >> /\ CostBasis(<< >>) = 0
    BY <2>1, LotsReplayed, BasisIs DEF LotList
  <2> QED
    BY <2>1, <2>2, <2>3
<1>2. ASSUME NEW table \in Seq(Row), NEW row \in Row, table \in P
      PROVE  Append(table, row) \in P
  <2> DEFINE next == Append(table, row)
             lots == Lots(table)
  <2>1. table \in Tables
    BY <1>2
  <2>2. PICK N \in Nat : N = Len(table) /\ DOMAIN table = 1..N
    BY <2>1, TableIs
  <2>3. /\ next \in Tables /\ DOMAIN next = 1..(N + 1) /\ next[N + 1] = row
        /\ \A k \in 1..N : next[k] = table[k] /\ k \in 1..(N + 1)
        /\ N + 1 \in 1..(N + 1)
    BY <2>1, <2>2, TableLast
  <2> SUFFICES ASSUME CostsAgree(next) PROVE CostBasis(Lots(next)) = Worth(next)
    BY <2>3
  <2>4. Lots(next) = Replayed(lots, row) /\ LotList(lots)
    BY <2>1, LotsReplayed DEF LotLists, LotList
  <2>5. Worth(next) = Worth(table) + row.delta * row.cost
    <3>1. AtCost \in Weights /\ AtCost[row] = row.delta * row.cost
      BY WeightsAre DEF AtCost
    <3> QED
      BY <2>1, <3>1, SumOfAdds DEF Worth
  <2>6. PICK q : /\ Lists(q, Len(lots), Leads(table))
                 /\ \A n \in 1..Len(lots) : lots[n] = LotAt(table, q[n])
    BY <2>1, LotsPictured DEF Pictures
  <2> HIDE DEF next
  <2>7. CostsAgree(table)
    BY <2>2, <2>3 DEF CostsAgree
  <2>8. CostBasis(lots) = Worth(table)
    BY <1>2, <2>7
  <2> HIDE DEF lots
  <2>9. row.delta \in Int
    BY DEF Row
  <2>10. CASE \E n \in DOMAIN lots : lots[n].lot = row.lot
    <3> DEFINE n == CHOOSE n \in DOMAIN lots : lots[n].lot = row.lot
    <3>1. n \in DOMAIN lots /\ lots[n].lot = row.lot
          /\ Replayed(lots, row) = [lots EXCEPT ![n].quantity = @ + row.delta]
      BY <2>10 DEF Replayed
    <3> HIDE DEF n
    <3>2. n \in 1..Len(lots)
      BY <2>4, <3>1 DEF LotList
    <3>3. lots[n].lot = table[q[n]].lot /\ lots[n].cost = table[q[n]].cost
      <4>1. lots[n] = LotAt(table, q[n])
        BY <2>6, <3>2
      <4> QED
        BY <4>1 DEF LotAt
    <3>4. q[n] \in 1..N
      BY <2>2, <2>6, <3>2 DEF Lists, Leads
    <3>5. row.cost = lots[n].cost
      <4>1. next[q[n]] = table[q[n]] /\ q[n] \in DOMAIN next /\ N + 1 \in DOMAIN next
        BY <2>3, <3>4
      <4>2. next[q[n]].lot = next[N + 1].lot
        BY <2>3, <3>1, <3>3, <4>1
      <4>3. next[q[n]].cost = next[N + 1].cost
        BY <4>1, <4>2 DEF CostsAgree
      <4> QED
        BY <2>3, <3>3, <4>1, <4>3
    <3>6. CostBasis([lots EXCEPT ![n].quantity = @ + row.delta])
            = CostBasis(lots) + row.delta * lots[n].cost
      BY <2>4, <2>9, <3>1, BasisChanged
    <3> QED
      BY <2>4, <2>5, <2>8, <3>1, <3>5, <3>6
  <2>11. CASE ~ \E n \in DOMAIN lots : lots[n].lot = row.lot
    <3> DEFINE x == [lot |-> row.lot, quantity |-> row.delta, cost |-> row.cost]
    <3>1. Replayed(lots, row) = Append(lots, x)
      BY <2>11 DEF Replayed
    <3>2. x \in Lot /\ x.quantity = row.delta /\ x.cost = row.cost
      BY DEF Row, Lot
    <3> HIDE DEF x
    <3>3. CostBasis(Append(lots, x)) = CostBasis(lots) + x.quantity * x.cost
      BY <2>4, <3>2, BasisLast
    <3> QED
      BY <2>4, <2>5, <2>8, <3>1, <3>2, <3>3
  <2> QED
    BY <2>10, <2>11
<1>3. \A table \in Seq(Row) : table \in P
  <2> HIDE DEF P
  <2> QED
    BY <1>1, <1>2, ListInduct
<1> QED
  BY <1>3 DEF Tables

\* And so do the open ones, where none is short.
LEMMA FoldWorth ==
  ASSUME NEW table \in Tables, CostsAgree(table), \A a : Units(table, a) >= 0
  PROVE  CostBasis(Fold(table)) = Worth(table)
<1> DEFINE lots == Lots(table)
<1>1. lots \in Seq(Lot)
  BY LotsReplayed DEF LotLists
<1>2. PICK q : \A n \in 1..Len(lots) : lots[n] = LotAt(table, q[n])
  BY LotsPictured DEF Pictures
<1>3. Fold(table) = Sift(lots, LAMBDA lot : lot.quantity > 0)
  BY DEF Fold
<1> HIDE DEF lots
<1>4. \A n \in DOMAIN lots : lots[n].quantity >= 0
  <2> TAKE n \in DOMAIN lots
  <2>1. n \in 1..Len(lots)
    BY <1>1
  <2>2. lots[n] = LotAt(table, q[n])
    BY <1>2, <2>1
  <2>3. LotAt(table, q[n]).quantity = Units(table, table[q[n]].lot)
    BY DEF LotAt
  <2> QED
    BY <2>2, <2>3
<1>5. CostBasis(Fold(table)) = CostBasis(lots)
  BY <1>1, <1>3, <1>4, BasisOpen
<1> QED
  BY <1>5, LotsWorth DEF lots
-----------------------------------------------------------------------------
(* Rows added to a table. *)

\* The rows of a table that one is put into.
LEMMA PutSet ==
  ASSUME NEW table \in Tables, NEW row \in Row, NEW m, NEW next, Puts(table, row, m, next)
  PROVE  ToSet(next) = ToSet(table) \cup {row}
<1>1. /\ m + 1 \in DOMAIN next /\ next[m + 1] = row
      /\ \A k \in DOMAIN table : Shift(m, k) \in DOMAIN next /\ next[Shift(m, k)] = table[k]
      /\ \A l \in DOMAIN next : l = m + 1 \/ \E k \in DOMAIN table : l = Shift(m, k)
  BY PutIs
<1>2. \A x : x \in ToSet(next) <=> \E l \in DOMAIN next : x = next[l]
  BY DEF ToSet
<1>3. \A x : x \in ToSet(table) <=> \E k \in DOMAIN table : x = table[k]
  BY DEF ToSet
<1>4. ASSUME NEW x \in ToSet(next) PROVE x \in ToSet(table) \cup {row}
  <2>1. PICK l \in DOMAIN next : x = next[l]
    BY <1>2
  <2> QED
    BY <1>1, <1>3, <2>1
<1>5. ASSUME NEW x \in ToSet(table) \cup {row} PROVE x \in ToSet(next)
  <2>1. CASE x = row
    BY <1>1, <1>2, <2>1
  <2>2. CASE x \in ToSet(table)
    <3>1. PICK k \in DOMAIN table : x = table[k]
      BY <1>3, <2>2
    <3> QED
      BY <1>1, <1>2, <3>1
  <2> QED
    BY <2>1, <2>2
<1> QED
  BY <1>4, <1>5

(* All of these rows are new, and no two of them the same.                    *)
NewRows(new, table) ==
  /\ \A i \in DOMAIN new : new[i] \notin ToSet(table)
  /\ \A i, j \in DOMAIN new : i # j => new[i] # new[j]

\* Each is then in the table, which stays ordered, and in every sum over it.
LEMMA AddedRows ==
  ASSUME NEW table \in Tables, Sorted(table)
  PROVE  \A new \in Tables : NewRows(new, table) =>
           /\ Added(table, new) \in Tables /\ Sorted(Added(table, new))
           /\ ToSet(Added(table, new)) = ToSet(table) \cup ToSet(new)
           /\ \A w \in Weights : SumOf(w, Added(table, new)) = SumOf(w, table) + SumOf(w, new)
<1> DEFINE All(new) ==
             /\ Added(table, new) \in Tables /\ Sorted(Added(table, new))
             /\ ToSet(Added(table, new)) = ToSet(table) \cup ToSet(new)
             /\ \A w \in Weights : SumOf(w, Added(table, new)) = SumOf(w, table) + SumOf(w, new)
           P == {new \in Tables : NewRows(new, table) => All(new)}
<1>1. << >> \in P
  <2>1. << >> \in Tables /\ ToSet(<< >>) = {}
    BY DEF Tables, ToSet
  <2>2. \A w \in Weights : SumOf(w, << >>) = 0 /\ SumOf(w, table) \in Int
    BY SumOfAdds
  <2>3. Added(table, << >>) = table
    BY AddedIs
  <2> QED
    BY <2>1, <2>2, <2>3
<1>2. ASSUME NEW new \in Seq(Row), NEW row \in Row, new \in P PROVE Append(new, row) \in P
  <2> DEFINE more == Append(new, row)
             before == Added(table, new)
  <2>1. PICK N \in Nat : N = Len(new) /\ DOMAIN new = 1..N
    <3>1. Len(new) \in Nat /\ DOMAIN new = 1..Len(new)
      OBVIOUS
    <3> QED
      BY <3>1
  <2>2. /\ more \in Tables /\ DOMAIN more = 1..(N + 1) /\ more[N + 1] = row
        /\ \A k \in 1..N : more[k] = new[k] /\ k \in 1..(N + 1) /\ k # N + 1
        /\ N + 1 \in 1..(N + 1) /\ \A k \in 1..(N + 1) : k \in 1..N \/ k = N + 1
    BY <2>1 DEF Tables
  <2>3. \A w \in Weights : /\ SumOf(w, more) = SumOf(w, new) + w[row]
                           /\ SumOf(w, new) \in Int /\ SumOf(w, table) \in Int
    BY SumOfAdds DEF Tables
  <2>4. Added(table, more) = Insert(before, row)
    BY AddedIs
  <2> SUFFICES ASSUME NewRows(more, table) PROVE All(more)
    BY <2>2
  <2> HIDE DEF more
  <2>5. NewRows(new, table)
    BY <2>1, <2>2 DEF NewRows
  <2>6. All(new)
    BY <1>2, <2>5
  <2> HIDE DEF before
  <2>7. /\ before \in Tables /\ Sorted(before)
        /\ ToSet(before) = ToSet(table) \cup ToSet(new)
        /\ \A w \in Weights : SumOf(w, before) = SumOf(w, table) + SumOf(w, new)
    BY <2>6 DEF before
  <2>8. row \notin ToSet(table) /\ row \notin ToSet(new)
    <3>1. row \notin ToSet(table)
      BY <2>2 DEF NewRows
    <3>2. \A k \in DOMAIN new : new[k] # row
      BY <2>1, <2>2 DEF NewRows
    <3> QED
      BY <3>1, <3>2 DEF ToSet
  <2>9. \A k \in DOMAIN before : before[k] # row
    <3>1. \A k \in DOMAIN before : before[k] \in ToSet(before)
      BY DEF ToSet
    <3> QED
      BY <2>7, <2>8, <3>1
  <2>10. PICK m : Puts(before, row, m, Insert(before, row))
    BY <2>7, <2>9, InsertPuts
  <2>11. Sorted(Insert(before, row))
    BY <2>7, <2>9, InsertPuts
  <2>12. ToSet(Insert(before, row)) = ToSet(before) \cup {row}
    BY <2>7, <2>10, PutSet
  <2>13. /\ Insert(before, row) \in Tables
         /\ \A w \in Weights : SumOf(w, Insert(before, row)) = SumOf(w, before) + w[row]
    BY <2>10 DEF Puts
  <2>14. ToSet(more) = ToSet(new) \cup {row}
    <3>1. \A x : x \in ToSet(more) <=> \E l \in DOMAIN more : x = more[l]
      BY DEF ToSet
    <3>2. \A x : x \in ToSet(new) <=> \E l \in DOMAIN new : x = new[l]
      BY DEF ToSet
    <3>3. \A x \in ToSet(more) : x \in ToSet(new) \cup {row}
      BY <2>1, <2>2, <3>1, <3>2
    <3>4. \A x \in ToSet(new) \cup {row} : x \in ToSet(more)
      BY <2>1, <2>2, <3>1, <3>2
    <3> QED
      BY <3>3, <3>4
  <2>15. \A w \in Weights : SumOf(w, Insert(before, row)) = SumOf(w, table) + SumOf(w, more)
    <3> TAKE w \in Weights
    <3>1. w[row] \in Int
      BY DEF Weights
    <3> QED
      BY <2>3, <2>7, <2>13, <3>1
  <2> QED
    BY <2>4, <2>7, <2>11, <2>12, <2>13, <2>14, <2>15
<1>3. \A new \in Seq(Row) : new \in P
  <2> HIDE DEF P
  <2> QED
    BY <1>1, <1>2, ListInduct
<1> QED
  BY <1>3 DEF Tables

\* Rows of different lots have the units of each.
LEMMA UnitsApart ==
  \A new \in Tables :
    (\A i, j \in DOMAIN new : i # j => new[i].lot # new[j].lot)
      => \A n \in DOMAIN new : Units(new, new[n].lot) = new[n].delta
<1> DEFINE Apart(new) == \A i, j \in DOMAIN new : i # j => new[i].lot # new[j].lot
           P == {new \in Tables :
                   Apart(new) => \A n \in DOMAIN new : Units(new, new[n].lot) = new[n].delta}
<1>1. << >> \in P
  BY DEF Tables
<1>2. ASSUME NEW new \in Seq(Row), NEW row \in Row, new \in P PROVE Append(new, row) \in P
  <2> DEFINE more == Append(new, row)
  <2>1. new \in Tables
    BY <1>2
  <2>2. PICK N \in Nat : N = Len(new) /\ DOMAIN new = 1..N
    BY <2>1, TableIs
  <2>3. /\ more \in Tables /\ DOMAIN more = 1..(N + 1) /\ more[N + 1] = row
        /\ \A k \in 1..N : more[k] = new[k] /\ k \in 1..(N + 1) /\ k # N + 1
        /\ N + 1 \in 1..(N + 1) /\ \A k \in 1..(N + 1) : k \in 1..N \/ k = N + 1
        /\ \A a : Units(more, a) = Units(new, a) + (IF row.lot = a THEN row.delta ELSE 0)
    BY <2>1, <2>2, TableLast
  <2> SUFFICES ASSUME Apart(more)
               PROVE  \A n \in DOMAIN more : Units(more, more[n].lot) = more[n].delta
    BY <2>3
  <2> HIDE DEF more
  <2>4. Apart(new) /\ \A k \in DOMAIN new : new[k].lot # row.lot
    BY <2>2, <2>3
  <2>5. \A n \in DOMAIN new : Units(new, new[n].lot) = new[n].delta /\ new[n].delta \in Int
    BY <1>2, <2>1, <2>4, TableIs
  <2>6. Units(new, row.lot) = 0 /\ row.delta \in Int
    BY <2>1, <2>4, NoUnits DEF Row
  <2>7. \A n \in 1..N : Units(more, more[n].lot) = more[n].delta
    BY <2>2, <2>3, <2>4, <2>5
  <2>8. Units(more, row.lot) = row.delta
    BY <2>3, <2>6
  <2> QED
    BY <2>3, <2>7, <2>8
<1>3. \A new \in Seq(Row) : new \in P
  <2> HIDE DEF P
  <2> QED
    BY <1>1, <1>2, ListInduct
<1> QED
  BY <1>3 DEF Tables
-----------------------------------------------------------------------------
(* What a sale takes. *)

\* The front lots whole, and then perhaps a part of the next.
GivesFront(taken, lots) ==
  \E whole \in 0..Len(lots), cut \in 0..1 :
    /\ Len(taken) = whole + cut
    /\ \A n \in 1..whole : taken[n] = lots[n]
    /\ cut = 1 => /\ whole < Len(lots)
                  /\ \E part \in 1..(lots[whole + 1].quantity - 1) :
                       taken[whole + 1] = [lots[whole + 1] EXCEPT !.quantity = part]

(* So far, of these lots.                                                     *)
HasTaken(acc, lots) ==
  /\ acc \in Taking /\ acc.remaining >= 0
  /\ acc.remaining > 0 => acc.taken = lots
  /\ GivesFront(acc.taken, lots)

LEMMA OpenLotIs ==
  ASSUME NEW lot \in OpenLot
  PROVE  /\ lot.lot \in Seq(Nat) /\ lot.quantity \in Nat \ {0} /\ lot.cost \in Nat
         /\ [lot EXCEPT !.quantity = lot.quantity] = lot
BY DEF OpenLot

LEMMA TakeMore ==
  ASSUME NEW lots \in Seq(OpenLot), NEW x \in OpenLot, NEW acc, HasTaken(acc, lots)
  PROVE  HasTaken(Take(acc, x), Append(lots, x))
<1> DEFINE more == Append(lots, x)
<1>1. PICK N \in Nat : N = Len(lots) /\ Len(more) = N + 1 /\ more[N + 1] = x
                       /\ \A n \in 1..N : more[n] = lots[n]
  <2>1. /\ Len(lots) \in Nat /\ Len(more) = Len(lots) + 1 /\ more[Len(lots) + 1] = x
        /\ \A n \in 1..Len(lots) : more[n] = lots[n]
    OBVIOUS
  <2> QED
    BY <2>1
<1> HIDE DEF more
<1>2. /\ acc \in Taking /\ acc.remaining >= 0 /\ (acc.remaining > 0 => acc.taken = lots)
      /\ GivesFront(acc.taken, lots)
  BY DEF HasTaken
<1>3. acc.remaining \in Int /\ acc.taken \in Seq(OpenLot)
  BY <1>2 DEF Taking
<1>4. Take(acc, x) \in Taking
  BY <1>2, TakeFits
<1>5. CASE acc.remaining = 0
  <2>1. Take(acc, x) = acc
    BY <1>5 DEF Take
  <2>2. PICK whole \in 0..N, cut \in 0..1 :
          /\ Len(acc.taken) = whole + cut
          /\ \A n \in 1..whole : acc.taken[n] = lots[n]
          /\ cut = 1 => /\ whole < N
                        /\ \E part \in 1..(lots[whole + 1].quantity - 1) :
                             acc.taken[whole + 1] = [lots[whole + 1] EXCEPT !.quantity = part]
    BY <1>1, <1>2 DEF GivesFront
  <2>3. whole \in 0..(N + 1) /\ \A n \in 1..whole : n \in 1..N
    OBVIOUS
  <2>4. \A n \in 1..whole : acc.taken[n] = more[n]
    BY <1>1, <2>2, <2>3
  <2>5. cut = 1 => /\ whole < N + 1
                   /\ \E part \in 1..(more[whole + 1].quantity - 1) :
                        acc.taken[whole + 1] = [more[whole + 1] EXCEPT !.quantity = part]
    <3> SUFFICES ASSUME cut = 1
                 PROVE  /\ whole < N + 1
                        /\ \E part \in 1..(more[whole + 1].quantity - 1) :
                             acc.taken[whole + 1] = [more[whole + 1] EXCEPT !.quantity = part]
      OBVIOUS
    <3>1. whole + 1 \in 1..N
      BY <2>2
    <3>2. more[whole + 1] = lots[whole + 1]
      BY <1>1, <3>1
    <3> QED
      BY <2>2, <3>2
  <2>6. GivesFront(acc.taken, more)
    BY <1>1, <2>2, <2>3, <2>4, <2>5 DEF GivesFront
  <2> QED
    BY <1>2, <1>5, <2>1, <2>6 DEF HasTaken, more
<1>6. CASE acc.remaining > 0
  <2> DEFINE part == IF x.quantity <= acc.remaining THEN x.quantity ELSE acc.remaining
             piece == [x EXCEPT !.quantity = part]
  <2>1. Take(acc, x) = [remaining |-> acc.remaining - part, taken |-> Append(acc.taken, piece)]
    BY <1>3, <1>6 DEF Take
  <2>2. acc.taken = lots
    BY <1>2, <1>6
  <2>3. x.quantity \in Nat \ {0} /\ [x EXCEPT !.quantity = x.quantity] = x
    BY OpenLotIs
  <2>4. \/ part = x.quantity /\ acc.remaining - part >= 0
        \/ part = acc.remaining /\ acc.remaining - part = 0 /\ part \in 1..(x.quantity - 1)
    BY <1>3, <1>6, <2>3
  <2> HIDE DEF part, piece
  <2> DEFINE taken == Append(lots, piece)
             remaining == acc.remaining - part
  <2>5. /\ Len(taken) = N + 1 /\ taken[N + 1] = piece /\ \A n \in 1..N : taken[n] = lots[n]
    BY <1>1
  <2>6. Take(acc, x).remaining = remaining /\ Take(acc, x).taken = taken
    BY <2>1, <2>2
  <2>7. CASE part = x.quantity /\ remaining >= 0
    <3>1. piece = x
      BY <2>3, <2>7 DEF piece
    <3>2. taken = more
      BY <3>1 DEF more
    <3> HIDE DEF taken, remaining
    <3>3. GivesFront(taken, more)
      <4>1. N + 1 \in 0..(N + 1) /\ 0 \in 0..1 /\ Len(taken) = (N + 1) + 0 /\ ~(0 = 1)
        BY <2>5
      <4>2. \A n \in 1..(N + 1) : taken[n] = more[n]
        BY <3>2
      <4> QED
        BY <1>1, <4>1, <4>2 DEF GivesFront
    <3> QED
      BY <1>4, <2>6, <2>7, <3>2, <3>3 DEF HasTaken, more
  <2>8. CASE part = acc.remaining /\ remaining = 0 /\ part \in 1..(x.quantity - 1)
    <3> HIDE DEF taken, remaining
    <3>1. GivesFront(taken, more)
      <4>1. N \in 0..(N + 1) /\ 1 \in 0..1 /\ Len(taken) = N + 1 /\ N < N + 1
        BY <2>5
      <4>2. \A n \in 1..N : taken[n] = more[n]
        BY <1>1, <2>5
      <4>3. part \in 1..(more[N + 1].quantity - 1)
            /\ taken[N + 1] = [more[N + 1] EXCEPT !.quantity = part]
        BY <1>1, <2>5, <2>8 DEF piece
      <4> QED
        BY <1>1, <4>1, <4>2, <4>3 DEF GivesFront
    <3> QED
      BY <1>4, <2>6, <2>8, <3>1 DEF HasTaken, more
  <2> QED
    BY <2>4, <2>7, <2>8
<1> QED
  BY <1>2, <1>3, <1>5, <1>6

LEMMA TakenIs ==
  ASSUME NEW lots \in Seq(OpenLot), NEW quantity \in Nat
  PROVE  Consumed(lots, quantity) \in Seq(OpenLot) /\ GivesFront(Consumed(lots, quantity), lots)
<1> DEFINE base == [remaining |-> quantity, taken |-> << >>]
           P == {l \in Seq(OpenLot) : HasTaken(Folded(TakeStep, base, l), l)}
<1>1. base \in Taking /\ base.remaining = quantity /\ base.taken = << >>
  BY DEF Taking
<1>2. Consumed(lots, quantity) = Folded(TakeStep, base, lots).taken
  <2>1. Consumed(lots, quantity) = FoldLeft(Take, base, lots).taken
    BY DEF Consumed, TakenFrom
  <2> HIDE DEF base
  <2> QED
    BY <1>1, <2>1, TakeFolds
<1> HIDE DEF base
<1>3. /\ Folded(TakeStep, base, << >>) = base
      /\ \A l \in Seq(OpenLot) : Folded(TakeStep, base, l) \in Taking
      /\ \A l \in Seq(OpenLot) : \A x \in OpenLot :
           Folded(TakeStep, base, Append(l, x)) = TakeStep[<<Folded(TakeStep, base, l), x>>]
  BY <1>1, Steps, FoldedIs
<1>4. << >> \in P
  <2>1. GivesFront(<< >>, << >>)
    <3>1. 0 \in 0..Len(<< >>) /\ 0 \in 0..1 /\ Len(<< >>) = 0 + 0 /\ ~(0 = 1)
      OBVIOUS
    <3>2. \A n \in 1..0 : FALSE
      OBVIOUS
    <3> QED
      BY <3>1, <3>2 DEF GivesFront
  <2>2. HasTaken(base, << >>)
    BY <1>1, <2>1 DEF HasTaken
  <2> QED
    BY <1>3, <2>2
<1>5. ASSUME NEW l \in Seq(OpenLot), NEW x \in OpenLot, l \in P PROVE Append(l, x) \in P
  <2>1. HasTaken(Take(Folded(TakeStep, base, l), x), Append(l, x))
    BY <1>5, TakeMore
  <2>2. Folded(TakeStep, base, Append(l, x)) = Take(Folded(TakeStep, base, l), x)
    <3>1. Folded(TakeStep, base, l) \in Taking
      BY <1>3
    <3> QED
      BY <1>3, <3>1 DEF TakeStep
  <2> QED
    BY <2>1, <2>2
<1>6. lots \in P
  <2> HIDE DEF P
  <2> QED
    BY <1>4, <1>5, ListInduct
<1> QED
  BY <1>2, <1>6 DEF HasTaken, Taking
-----------------------------------------------------------------------------
(* What an operation does to a table in which every lot has one cost and none *)
(* is short of units.                                                         *)

Whole(table) ==
  table \in Tables /\ Sorted(table) /\ CostsAgree(table) /\ \A a : Units(table, a) >= 0

LEMMA CostsOf ==
  ASSUME NEW table \in Tables
  PROVE  CostsAgree(table) <=> \A x, y \in ToSet(table) : x.lot = y.lot => x.cost = y.cost
<1>1. \A x : x \in ToSet(table) <=> \E k \in DOMAIN table : x = table[k]
  BY DEF ToSet
<1> QED
  BY <1>1 DEF CostsAgree

\* What is open, and which rows say so.
LEMMA OpenFacts ==
  ASSUME NEW table \in Tables, NEW lots, lots = Fold(table)
  PROVE  /\ lots \in Seq(OpenLot) /\ Len(lots) \in Nat /\ DOMAIN lots = 1..Len(lots)
         /\ \A n \in DOMAIN lots :
              /\ lots[n] \in OpenLot /\ lots[n].lot \in Seq(Nat)
              /\ lots[n].quantity \in Nat \ {0} /\ lots[n].cost \in Nat
              /\ Units(table, lots[n].lot) = lots[n].quantity
              /\ \E x \in ToSet(table) : x.lot = lots[n].lot /\ x.cost = lots[n].cost
         /\ \A i, j \in DOMAIN lots : i # j => lots[i].lot # lots[j].lot
<1>1. lots \in Seq(OpenLot) /\ Pictures(lots, table, Live(table))
  BY FoldPictured
<1>2. PICK N \in Nat : N = Len(lots) /\ DOMAIN lots = 1..N
  <2>1. Len(lots) \in Nat /\ DOMAIN lots = 1..Len(lots)
    BY <1>1
  <2> QED
    BY <2>1
<1>3. \A n \in 1..N : lots[n] \in OpenLot
  BY <1>1, <1>2
<1>4. PICK q : Lists(q, N, Live(table)) /\ \A n \in 1..N : lots[n] = LotAt(table, q[n])
  BY <1>1, <1>2 DEF Pictures
<1>5. /\ \A n \in 1..N : q[n] \in Leads(table) /\ q[n] \in DOMAIN table /\ q[n] \in Nat
      /\ \A i, j \in 1..N : i < j => q[i] < q[j]
  <2>1. Live(table) \in SUBSET Leads(table) /\ Leads(table) \in SUBSET DOMAIN table
        /\ Live(table) \in SUBSET Nat
    BY TableIs
  <2> QED
    BY <1>4, <2>1 DEF Lists
<1>6. \A n \in 1..N : /\ lots[n].lot = table[q[n]].lot /\ lots[n].cost = table[q[n]].cost
                      /\ lots[n].quantity = Units(table, table[q[n]].lot)
  <2>1. \A k : /\ LotAt(table, k).lot = table[k].lot /\ LotAt(table, k).cost = table[k].cost
               /\ LotAt(table, k).quantity = Units(table, table[k].lot)
    BY DEF LotAt
  <2> QED
    BY <1>4, <2>1
<1>7. ASSUME NEW i \in 1..N, NEW j \in 1..N, i # j PROVE lots[i].lot # lots[j].lot
  <2>1. i < j \/ j < i
    BY <1>7
  <2>2. q[i] < q[j] \/ q[j] < q[i]
    BY <1>5, <2>1
  <2>3. q[i] \in Nat /\ q[j] \in Nat /\ q[i] # q[j]
    BY <1>5, <2>2
  <2> QED
    BY <1>5, <1>6, <2>3, LeadsDiffer
<1>8. \A n \in 1..N : \E x \in ToSet(table) : x.lot = lots[n].lot /\ x.cost = lots[n].cost
  <2>1. \A k \in DOMAIN table : table[k] \in ToSet(table)
    BY DEF ToSet
  <2> QED
    BY <1>5, <1>6, <2>1
<1>9. \A n \in 1..N : lots[n].lot \in Seq(Nat) /\ lots[n].quantity \in Nat \ {0} /\ lots[n].cost \in Nat
  BY <1>3, OpenLotIs
<1> QED
  BY <1>1, <1>2, <1>3, <1>6, <1>7, <1>8, <1>9

\* New rows that agree on the costs and leave no lot short add what they are worth.
LEMMA WholeAdded ==
  ASSUME NEW table, Whole(table), NEW new \in Tables, NewRows(new, table),
         \A x \in ToSet(new) : \A y \in ToSet(table) \cup ToSet(new) :
           x.lot = y.lot => x.cost = y.cost,
         \A a : Units(table, a) + Units(new, a) >= 0
  PROVE  /\ Whole(Added(table, new))
         /\ ToSet(Added(table, new)) = ToSet(table) \cup ToSet(new)
         /\ \A a : Units(Added(table, new), a) = Units(table, a) + Units(new, a)
         /\ CostBasis(Fold(Added(table, new))) = CostBasis(Fold(table)) + Worth(new)
<1> DEFINE next == Added(table, new)
<1>1. /\ table \in Tables /\ Sorted(table) /\ CostsAgree(table)
      /\ \A a : Units(table, a) >= 0
  BY DEF Whole
<1>2. /\ next \in Tables /\ Sorted(next) /\ ToSet(next) = ToSet(table) \cup ToSet(new)
      /\ \A w \in Weights : SumOf(w, next) = SumOf(w, table) + SumOf(w, new)
  BY <1>1, AddedRows
<1> HIDE DEF next
<1>3. \A a : Units(next, a) = Units(table, a) + Units(new, a)
  BY <1>2, WeightsAre DEF Units
<1>4. Worth(next) = Worth(table) + Worth(new)
  BY <1>2, WeightsAre DEF Worth
<1>5. CostsAgree(next)
  <2>1. \A x, y \in ToSet(table) : x.lot = y.lot => x.cost = y.cost
    BY <1>1, CostsOf
  <2>2. \A x, y \in ToSet(next) : x.lot = y.lot => x.cost = y.cost
    BY <1>2, <2>1
  <2> QED
    BY <1>2, <2>2, CostsOf
<1>6. Whole(next)
  BY <1>2, <1>3, <1>5 DEF Whole
<1>7. CostBasis(Fold(table)) = Worth(table) /\ CostBasis(Fold(next)) = Worth(next)
  BY <1>1, <1>2, <1>3, <1>5, FoldWorth
<1> QED
  BY <1>2, <1>3, <1>4, <1>6, <1>7 DEF next

\* Rows made of a list of lots.
RowsOf(pieces, at, rank, ref) ==
  [n \in DOMAIN pieces |-> RowFor(pieces[n], at, rank, n - 1, ref)]

\* What such rows are, column by column.
Made(table, pieces, at, rank, ref) ==
  /\ table \in Tables /\ DOMAIN table = DOMAIN pieces
  /\ DOMAIN pieces = 1..Len(pieces) /\ Len(pieces) \in Nat
  /\ \A n \in DOMAIN pieces :
       /\ table[n] = [lot |-> pieces[n].lot, at |-> at, rank |-> rank, index |-> n - 1,
                      delta |-> pieces[n].quantity, cost |-> pieces[n].cost, ref |-> ref]
       /\ table[n] \in Row

LEMMA RowsOfAre ==
  ASSUME NEW pieces \in Seq(Lot), NEW at \in Nat, NEW rank \in Nat, NEW ref \in Nat
  PROVE  Made(RowsOf(pieces, at, rank, ref), pieces, at, rank, ref)
<1>1. PICK N \in Nat : N = Len(pieces) /\ DOMAIN pieces = 1..N
  <2>1. Len(pieces) \in Nat /\ DOMAIN pieces = 1..Len(pieces)
    OBVIOUS
  <2> QED
    BY <2>1
<1> DEFINE f == RowsOf(pieces, at, rank, ref)
<1>2. /\ f = [n \in 1..N |-> f[n]]
      /\ \A n \in 1..N :
           f[n] = [lot |-> pieces[n].lot, at |-> at, rank |-> rank, index |-> n - 1,
                   delta |-> pieces[n].quantity, cost |-> pieces[n].cost, ref |-> ref]
  BY <1>1 DEF RowsOf, RowFor
<1> HIDE DEF f
<1>3. ASSUME NEW n \in 1..N PROVE f[n] \in Row
  <2>1. pieces[n] \in Lot /\ n - 1 \in Nat
    BY <1>1
  <2>2. pieces[n].lot \in Seq(Nat) /\ pieces[n].quantity \in Int /\ pieces[n].cost \in Nat
    BY <2>1 DEF Lot
  <2> QED
    BY <1>2, <2>1, <2>2 DEF Row
<1>4. f \in Seq(Row) /\ DOMAIN f = 1..N
  BY <1>2, <1>3, Listed
<1> QED
  BY <1>1, <1>2, <1>3, <1>4 DEF f, Tables, Made

\* One lot more is one row more.
OneLonger(table, row, longer) == longer = Append(table, row)

LEMMA RowsLast ==
  ASSUME NEW at \in Nat, NEW rank \in Nat, NEW ref \in Nat, NEW l \in Seq(Lot), NEW x \in Lot
  PROVE  OneLonger(RowsOf(l, at, rank, ref), RowFor(x, at, rank, Len(l), ref),
                   RowsOf(Append(l, x), at, rank, ref))
<1> DEFINE more == Append(l, x)
           f == RowsOf(l, at, rank, ref)
           g == RowsOf(more, at, rank, ref)
           row == RowFor(x, at, rank, Len(l), ref)
<1>1. PICK N \in Nat : N = Len(l) /\ DOMAIN l = 1..N
  <2>1. Len(l) \in Nat /\ DOMAIN l = 1..Len(l)
    OBVIOUS
  <2> QED
    BY <2>1
<1>2. /\ more \in Seq(Lot) /\ DOMAIN more = 1..(N + 1) /\ Len(more) = N + 1 /\ more[N + 1] = x
      /\ \A n \in 1..N : more[n] = l[n] /\ n \in 1..(N + 1)
      /\ N + 1 \in 1..(N + 1) /\ (N + 1) - 1 = N
  BY <1>1
<1> HIDE DEF more
<1>3. /\ f \in Tables /\ DOMAIN f = 1..N
      /\ \A n \in 1..N : f[n] = [lot |-> l[n].lot, at |-> at, rank |-> rank, index |-> n - 1,
                 delta |-> l[n].quantity, cost |-> l[n].cost, ref |-> ref]
  <2>1. Made(f, l, at, rank, ref)
    <3> HIDE DEF g
    <3> QED
      BY RowsOfAre
  <2> HIDE DEF f, g
  <2> QED
    BY <1>1, <2>1 DEF Made
<1> HIDE DEF f
<1>4. /\ g \in Tables /\ DOMAIN g = 1..(N + 1)
      /\ \A n \in 1..(N + 1) :
           /\ g[n] = [lot |-> more[n].lot, at |-> at, rank |-> rank, index |-> n - 1,
                      delta |-> more[n].quantity, cost |-> more[n].cost, ref |-> ref]
           /\ g[n] \in Row
  <2>1. Made(g, more, at, rank, ref)
    BY <1>2, RowsOfAre
  <2> HIDE DEF g
  <2> QED
    BY <1>2, <2>1 DEF Made
<1>5. row = [lot |-> x.lot, at |-> at, rank |-> rank, index |-> N,
             delta |-> x.quantity, cost |-> x.cost, ref |-> ref]
  BY <1>1 DEF RowFor
<1> HIDE DEF g, row
<1>6. g[N + 1] = row /\ row \in Row /\ \A n \in 1..N : g[n] = f[n]
  <2>1. g[N + 1] = row /\ g[N + 1] \in Row
    BY <1>2, <1>4, <1>5
  <2>2. ASSUME NEW n \in 1..N PROVE g[n] = f[n]
    <3>1. f[n] = [lot |-> l[n].lot, at |-> at, rank |-> rank, index |-> n - 1,
                  delta |-> l[n].quantity, cost |-> l[n].cost, ref |-> ref]
      BY <1>3
    <3>2. n \in 1..(N + 1) /\ more[n] = l[n]
      BY <1>2
    <3> QED
      BY <1>4, <3>1, <3>2
  <2> QED
    BY <2>1, <2>2
<1>7. g = Append(f, row)
  <2>1. f \in Seq(Row) /\ g \in Seq(Row)
    BY <1>3, <1>4 DEF Tables
  <2>2. Len(f) = N /\ Len(g) = N + 1
    BY <1>3, <1>4, <2>1
  <2> DEFINE h == Append(f, row)
  <2>3. h \in Seq(Row) /\ Len(h) = N + 1 /\ h[N + 1] = row /\ \A n \in 1..N : h[n] = f[n]
    BY <1>6, <2>1, <2>2
  <2> HIDE DEF h
  <2>4. \A n \in 1..(N + 1) : n \in 1..N \/ n = N + 1
    OBVIOUS
  <2>5. \A n \in 1..(N + 1) : g[n] = h[n]
    BY <1>6, <2>3, <2>4
  <2>6. g = h
    BY <2>1, <2>2, <2>3, <2>5, SameList
  <2> QED
    BY <2>6 DEF h
<1> QED
  BY <1>7 DEF f, g, more, row, OneLonger

\* Their worth is the basis of the lots.
LEMMA RowsWorth ==
  ASSUME NEW at \in Nat, NEW rank \in Nat, NEW ref \in Nat
  PROVE  \A pieces \in Seq(Lot) : Worth(RowsOf(pieces, at, rank, ref)) = CostBasis(pieces)
<1> DEFINE P == {pieces \in Seq(Lot) : Worth(RowsOf(pieces, at, rank, ref)) = CostBasis(pieces)}
<1>1. << >> \in P
  <2>1. RowsOf(<< >>, at, rank, ref) = << >> /\ << >> \in Seq(Lot)
    BY DEF RowsOf
  <2>2. Worth(<< >>) = 0
    BY WeightsAre, SumOfAdds DEF Worth
  <2>3. CostBasis(<< >>) = 0
    BY <2>1, BasisIs DEF LotList
  <2> QED
    BY <2>1, <2>2, <2>3
<1>2. ASSUME NEW l \in Seq(Lot), NEW x \in Lot, l \in P PROVE Append(l, x) \in P
  <2>0. OneLonger(RowsOf(l, at, rank, ref), RowFor(x, at, rank, Len(l), ref),
                  RowsOf(Append(l, x), at, rank, ref))
    BY RowsLast
  <2> DEFINE f == RowsOf(l, at, rank, ref)
             row == RowFor(x, at, rank, Len(l), ref)
             more == Append(l, x)
             g == RowsOf(more, at, rank, ref)
  <2>1. g = Append(f, row) /\ more \in Seq(Lot)
    <3>1. more \in Seq(Lot)
      OBVIOUS
    <3> QED
      BY <2>0, <3>1 DEF OneLonger
  <2>2. Made(f, l, at, rank, ref) /\ Made(g, more, at, rank, ref)
    BY <2>1, RowsOfAre
  <2>3. f \in Tables
    BY <2>2 DEF Made
  <2>4. row \in Row /\ row.delta = x.quantity /\ row.cost = x.cost
    <3>1. x.lot \in Seq(Nat) /\ x.quantity \in Int /\ x.cost \in Nat /\ Len(l) \in Nat
      BY DEF Lot
    <3> QED
      BY <3>1 DEF RowFor, Row
  <2> HIDE DEF f, row
  <2>5. Worth(g) = Worth(f) + x.quantity * x.cost
    <3>1. AtCost \in Weights /\ AtCost[row] = row.delta * row.cost
      BY <2>4, WeightsAre DEF AtCost
    <3>2. SumOf(AtCost, Append(f, row)) = SumOf(AtCost, f) + AtCost[row]
      BY <2>3, <2>4, <3>1, SumOfAdds
    <3> HIDE DEF g
    <3> QED
      BY <2>1, <2>4, <3>1, <3>2 DEF Worth
  <2> HIDE DEF g
  <2>6. CostBasis(more) = CostBasis(l) + x.quantity * x.cost
    BY BasisLast DEF LotList
  <2>7. Worth(f) = CostBasis(l)
    BY <1>2 DEF f
  <2>8. Worth(g) = CostBasis(more)
    BY <2>5, <2>6, <2>7
  <2> QED
    BY <2>1, <2>8 DEF g, more
<1> HIDE DEF P
<1>3. \A pieces \in Seq(Lot) : pieces \in P
  BY <1>1, <1>2, ListInduct
<1> QED
  BY <1>3 DEF P

LEMMA NegatedIs ==
  ASSUME NEW l \in OpenLot
  PROVE  /\ Negated(l) \in Lot /\ Negated(l).lot = l.lot /\ Negated(l).cost = l.cost
         /\ Negated(l).quantity = -l.quantity
<1>1. l.lot \in Seq(Nat) /\ l.quantity \in Nat \ {0} /\ l.cost \in Nat
  BY OpenLotIs
<1>2. PICK q : q = -l.quantity
  OBVIOUS
<1>3. Negated(l) = [lot |-> l.lot, quantity |-> q, cost |-> l.cost]
  BY <1>2, Relabelled DEF Negated
<1>4. q \in Int
  BY <1>1, <1>2
<1> QED
  BY <1>1, <1>2, <1>3, <1>4 DEF Lot

\* Lots to give.
Negatives(lots) == [n \in DOMAIN lots |-> Negated(lots[n])]

LEMMA NegativesAre ==
  ASSUME NEW lots \in Seq(OpenLot)
  PROVE  /\ Negatives(lots) \in Seq(Lot) /\ DOMAIN Negatives(lots) = DOMAIN lots
         /\ \A n \in DOMAIN lots :
              /\ Negatives(lots)[n].lot = lots[n].lot /\ Negatives(lots)[n].cost = lots[n].cost
              /\ Negatives(lots)[n].quantity = -lots[n].quantity
<1>1. PICK N \in Nat : N = Len(lots) /\ DOMAIN lots = 1..N
  <2>1. Len(lots) \in Nat /\ DOMAIN lots = 1..Len(lots)
    OBVIOUS
  <2> QED
    BY <2>1
<1>2. \A n \in 1..N : lots[n] \in OpenLot
  BY <1>1
<1>3. \A l \in OpenLot : /\ Negated(l) \in Lot /\ Negated(l).lot = l.lot /\ Negated(l).cost = l.cost
                         /\ Negated(l).quantity = -l.quantity
  BY NegatedIs
<1> DEFINE f == Negatives(lots)
<1>4. f = [n \in 1..N |-> f[n]] /\ \A n \in 1..N : f[n] = Negated(lots[n])
  BY <1>1 DEF Negatives
<1> HIDE DEF f
<1>5. \A n \in 1..N : f[n] \in Lot
  BY <1>2, <1>3, <1>4
<1>6. f \in Seq(Lot) /\ DOMAIN f = 1..N
  BY <1>4, <1>5, Listed
<1> QED
  BY <1>1, <1>2, <1>3, <1>4, <1>6 DEF f

LEMMA NegativesBasis ==
  \A lots \in Seq(OpenLot) : CostBasis(Negatives(lots)) = -CostBasis(lots) /\ CostBasis(lots) \in Int
<1> DEFINE P == {lots \in Seq(OpenLot) :
                   CostBasis(Negatives(lots)) = -CostBasis(lots) /\ CostBasis(lots) \in Int}
<1>0. \A l \in OpenLot : l \in Lot
  BY DEF OpenLot, Lot
<1>1. << >> \in P
  <2>1. Negatives(<< >>) = << >> /\ << >> \in Seq(Lot)
    BY DEF Negatives
  <2>2. CostBasis(<< >>) = 0
    BY <2>1, BasisIs DEF LotList
  <2> QED
    BY <2>1, <2>2
<1>2. ASSUME NEW l \in Seq(OpenLot), NEW x \in OpenLot, l \in P PROVE Append(l, x) \in P
  <2> DEFINE more == Append(l, x)
  <2>1. LotList(l) /\ x \in Lot /\ more \in Seq(OpenLot)
    BY <1>0 DEF LotList
  <2>2. Negatives(more) = Append(Negatives(l), Negated(x))
    <3>1. PICK N \in Nat : N = Len(l) /\ DOMAIN l = 1..N
      <4>1. Len(l) \in Nat /\ DOMAIN l = 1..Len(l)
        OBVIOUS
      <4> QED
        BY <4>1
    <3>2. /\ DOMAIN more = 1..(N + 1) /\ more[N + 1] = x
          /\ \A n \in 1..N : more[n] = l[n] /\ n \in 1..(N + 1)
          /\ \A n \in 1..(N + 1) : n \in 1..N \/ n = N + 1
          /\ N + 1 \in 1..(N + 1)
      BY <3>1
    <3> DEFINE f == Negatives(l)
               g == Negatives(more)
    <3>3. /\ f \in Seq(Lot) /\ DOMAIN f = 1..N /\ g \in Seq(Lot) /\ DOMAIN g = 1..(N + 1)
      BY <2>1, <3>1, <3>2, NegativesAre
    <3>4. /\ \A n \in 1..N : f[n] = Negated(l[n])
          /\ \A n \in 1..(N + 1) : g[n] = Negated(more[n])
      BY <3>1, <3>2 DEF Negatives
    <3>5. Negated(x) \in Lot
      <4>1. g[N + 1] = Negated(x) /\ N + 1 \in DOMAIN g
        BY <3>2, <3>3, <3>4
      <4> HIDE DEF f, g
      <4> QED
        BY <3>3, <4>1
    <3> HIDE DEF f, g, more
    <3>6. Len(f) = N /\ Len(g) = N + 1
      BY <3>3
    <3> DEFINE h == Append(f, Negated(x))
    <3>7. /\ h \in Seq(Lot) /\ Len(h) = N + 1 /\ h[N + 1] = Negated(x)
          /\ \A n \in 1..N : h[n] = f[n]
      BY <3>3, <3>5, <3>6
    <3> HIDE DEF h
    <3>8. \A n \in 1..(N + 1) : g[n] = h[n]
      BY <3>2, <3>4, <3>7
    <3>9. g = h
      BY <3>3, <3>6, <3>7, <3>8, SameList
    <3> QED
      BY <3>9 DEF f, g, h
  <2>3. Negated(x) \in Lot /\ Negated(x).quantity = -x.quantity /\ Negated(x).cost = x.cost
    BY NegatedIs
  <2>4. CostBasis(more) = CostBasis(l) + x.quantity * x.cost
    BY <2>1, BasisLast
  <2>5. CostBasis(Append(Negatives(l), Negated(x)))
          = CostBasis(Negatives(l)) + Negated(x).quantity * Negated(x).cost
    BY <2>3, NegativesAre, BasisLast DEF LotList
  <2>6. PICK q \in Int, c \in Int : q = x.quantity /\ c = x.cost
    BY OpenLotIs
  <2>7. (-q) * c = -(q * c) /\ q * c \in Int
    BY <2>6
  <2>8. CostBasis(Negatives(l)) = -CostBasis(l) /\ CostBasis(l) \in Int
    BY <1>2
  <2> HIDE DEF more
  <2>9. CostBasis(Negatives(more)) = -CostBasis(more) /\ CostBasis(more) \in Int
    <3> DEFINE A == CostBasis(l)
               v == q * c
    <3>1. A \in Int /\ v \in Int /\ CostBasis(more) = A + v /\ CostBasis(Negatives(more)) = -A + (-v)
      BY <2>2, <2>3, <2>4, <2>5, <2>6, <2>7, <2>8
    <3> HIDE DEF A, v
    <3> QED
      BY <3>1
  <2> QED
    BY <2>1, <2>9 DEF more
<1> HIDE DEF P
<1>3. \A lots \in Seq(OpenLot) : lots \in P
  BY <1>1, <1>2, ListInduct
<1> QED
  BY <1>3 DEF P
-----------------------------------------------------------------------------
(* Lots that enter a table at once. *)

(* The table has no row of this rank and reference.                           *)
Unused(table, rank, ref) == \A x \in ToSet(table) : x.ref = ref => x.rank # rank

(* The pieces are of lots that differ, at the cost the table has for them,    *)
(* and take no more from one than it has.                                     *)
Apart(pieces) == \A i, j \in DOMAIN pieces : i # j => pieces[i].lot # pieces[j].lot
Priced(pieces, table) ==
  \A n \in DOMAIN pieces : \A y \in ToSet(table) :
    y.lot = pieces[n].lot => y.cost = pieces[n].cost
Covered(pieces, table) ==
  \A n \in DOMAIN pieces : Units(table, pieces[n].lot) + pieces[n].quantity >= 0

LEMMA MadeNew ==
  ASSUME NEW table, NEW rank, NEW ref, Unused(table, rank, ref), NEW at,
         NEW pieces, NEW new, Made(new, pieces, at, rank, ref)
  PROVE  NewRows(new, table)
<1>1. \A n \in DOMAIN new : new[n].ref = ref /\ new[n].rank = rank /\ new[n].index = n - 1
  BY DEF Made
<1>2. \A n \in DOMAIN new : new[n] \notin ToSet(table)
  BY <1>1 DEF Unused
<1>3. ASSUME NEW i \in DOMAIN new, NEW j \in DOMAIN new, i # j PROVE new[i] # new[j]
  <2>1. i \in Nat /\ j \in Nat
    <3>1. DOMAIN new = 1..Len(pieces) /\ Len(pieces) \in Nat
      BY DEF Made
    <3> QED
      BY <3>1
  <2>2. i - 1 # j - 1
    BY <1>3, <2>1
  <2> QED
    BY <1>1, <2>2
<1> QED
  BY <1>2, <1>3 DEF NewRows

\* As many rows are added as there are new ones.
Each == [row \in Row |-> 1]
LEMMA Counted == Each \in Weights /\ \A table \in Tables : SumOf(Each, table) = Len(table)
<1> DEFINE P == {table \in Tables : SumOf(Each, table) = Len(table)}
<1>1. Each \in Weights /\ \A row \in Row : Each[row] = 1
  BY DEF Each, Weights
<1>2. << >> \in P
  <2>1. << >> \in Tables /\ Len(<< >>) = 0
    BY DEF Tables
  <2> QED
    BY <1>1, <2>1, SumOfAdds
<1>3. ASSUME NEW table \in Seq(Row), NEW row \in Row, table \in P PROVE Append(table, row) \in P
  <2>1. Append(table, row) \in Tables /\ Len(Append(table, row)) = Len(table) + 1
    BY DEF Tables
  <2>2. SumOf(Each, Append(table, row)) = SumOf(Each, table) + Each[row]
    BY <1>1, <1>3, SumOfAdds
  <2> QED
    BY <1>1, <1>3, <2>1, <2>2
<1> HIDE DEF P
<1>4. \A table \in Seq(Row) : table \in P
  BY <1>2, <1>3, ListInduct
<1> QED
  BY <1>1, <1>4 DEF P, Tables

(* What a table is once lots entered it as these rows.                        *)
Entered(next, table, new, pieces, at, rank, ref) ==
  /\ Whole(next) /\ Made(new, pieces, at, rank, ref)
  /\ ToSet(next) = ToSet(table) \cup ToSet(new)
  /\ CostBasis(Fold(next)) = CostBasis(Fold(table)) + CostBasis(pieces)
  /\ \A n \in DOMAIN pieces :
       Units(next, pieces[n].lot) = Units(table, pieces[n].lot) + pieces[n].quantity
  /\ \A a : (\A n \in DOMAIN pieces : pieces[n].lot # a) => Units(next, a) = Units(table, a)
  /\ Len(next) = Len(table) + Len(pieces)

LEMMA PiecesAdded ==
  ASSUME NEW table, Whole(table), NEW pieces \in Seq(Lot),
         NEW at \in Nat, NEW rank \in Nat, NEW ref \in Nat, Unused(table, rank, ref),
         Apart(pieces), Priced(pieces, table), Covered(pieces, table),
         NEW new, new = RowsOf(pieces, at, rank, ref), NEW next, next = Added(table, new)
  PROVE  Entered(next, table, new, pieces, at, rank, ref)
<1>1. Made(new, pieces, at, rank, ref)
  BY RowsOfAre
<1>2. /\ new \in Tables /\ DOMAIN new = DOMAIN pieces
      /\ \A n \in DOMAIN pieces : /\ new[n].lot = pieces[n].lot /\ new[n].cost = pieces[n].cost
                                  /\ new[n].delta = pieces[n].quantity
  BY <1>1 DEF Made
<1>3. NewRows(new, table)
  BY <1>1, MadeNew
<1>4. \A n \in DOMAIN new : Units(new, new[n].lot) = new[n].delta
  <2>1. \A i, j \in DOMAIN new : i # j => new[i].lot # new[j].lot
    BY <1>2 DEF Apart
  <2> QED
    BY <1>2, <2>1, UnitsApart
<1>5. \A a : (\A n \in DOMAIN pieces : pieces[n].lot # a) => Units(new, a) = 0
  BY <1>2, NoUnits
<1>6. table \in Tables /\ \A a : Units(table, a) \in Int /\ Units(table, a) >= 0
  BY TableIs DEF Whole
<1>7. \A a : Units(table, a) + Units(new, a) >= 0
  <2> TAKE a
  <2>1. CASE \E n \in DOMAIN pieces : pieces[n].lot = a
    BY <1>2, <1>4, <2>1 DEF Covered
  <2>2. CASE \A n \in DOMAIN pieces : pieces[n].lot # a
    BY <1>5, <1>6, <2>2
  <2> QED
    BY <2>1, <2>2
<1>8. \A x \in ToSet(new) : \A y \in ToSet(table) \cup ToSet(new) : x.lot = y.lot => x.cost = y.cost
  <2> SUFFICES ASSUME NEW x \in ToSet(new), NEW y \in ToSet(table) \cup ToSet(new), x.lot = y.lot
               PROVE  x.cost = y.cost
    OBVIOUS
  <2>1. PICK i \in DOMAIN pieces : x = new[i]
    BY <1>2 DEF ToSet
  <2>2. CASE y \in ToSet(table)
    BY <1>2, <2>1, <2>2 DEF Priced
  <2>3. CASE y \in ToSet(new)
    <3>1. PICK j \in DOMAIN pieces : y = new[j]
      BY <1>2, <2>3 DEF ToSet
    <3>2. i = j
      BY <1>2, <2>1, <3>1 DEF Apart
    <3> QED
      BY <2>1, <3>1, <3>2
  <2> QED
    BY <2>2, <2>3
<1>9. /\ Whole(next) /\ ToSet(next) = ToSet(table) \cup ToSet(new)
      /\ \A a : Units(next, a) = Units(table, a) + Units(new, a)
      /\ CostBasis(Fold(next)) = CostBasis(Fold(table)) + Worth(new)
  <2> HIDE DEF Priced, Covered, Apart
  <2> QED
    BY <1>2, <1>3, <1>7, <1>8, WholeAdded
<1>10. Worth(new) = CostBasis(pieces)
  BY RowsWorth
<1>11. \A n \in DOMAIN pieces :
         Units(next, pieces[n].lot) = Units(table, pieces[n].lot) + pieces[n].quantity
  BY <1>2, <1>4, <1>9
<1>12. \A a : (\A n \in DOMAIN pieces : pieces[n].lot # a) => Units(next, a) = Units(table, a)
  BY <1>5, <1>6, <1>9
<1>13. Len(next) = Len(table) + Len(pieces)
  <2>1. Sorted(table) /\ next \in Tables
    BY <1>9 DEF Whole
  <2>2. SumOf(Each, next) = SumOf(Each, table) + SumOf(Each, new)
    BY <1>2, <1>3, <1>6, <2>1, Counted, AddedRows
  <2>3. Len(new) = Len(pieces)
    <3>1. DOMAIN new = 1..Len(new) /\ Len(new) \in Nat /\ DOMAIN new = 1..Len(pieces)
          /\ Len(pieces) \in Nat
      BY <1>1, <1>2, TableIs DEF Made
    <3> QED
      BY <3>1
  <2> QED
    BY <1>2, <1>6, <2>1, <2>2, <2>3, Counted
<1> QED
  BY <1>1, <1>9, <1>10, <1>11, <1>12, <1>13 DEF Entered
-----------------------------------------------------------------------------
(* What an operation does to what a position is worth. *)

\* What is taken is of the front lots, at their cost, and no more than they hold.
LEMMA FrontIs ==
  ASSUME NEW lots \in Seq(OpenLot), NEW taken \in Seq(OpenLot), GivesFront(taken, lots)
  PROVE  /\ Len(taken) \in Nat /\ DOMAIN taken = 1..Len(taken) /\ Len(taken) <= Len(lots)
         /\ \A n \in DOMAIN taken :
              /\ n \in DOMAIN lots /\ taken[n].lot = lots[n].lot /\ taken[n].cost = lots[n].cost
              /\ taken[n].quantity <= lots[n].quantity
<1>1. PICK whole \in 0..Len(lots), cut \in 0..1 :
        /\ Len(taken) = whole + cut
        /\ \A n \in 1..whole : taken[n] = lots[n]
        /\ cut = 1 => /\ whole < Len(lots)
                      /\ \E part \in 1..(lots[whole + 1].quantity - 1) :
                           taken[whole + 1] = [lots[whole + 1] EXCEPT !.quantity = part]
  BY DEF GivesFront
<1>2. PICK N \in Nat : N = Len(lots) /\ DOMAIN lots = 1..N
  <2>1. Len(lots) \in Nat /\ DOMAIN lots = 1..Len(lots)
    OBVIOUS
  <2> QED
    BY <2>1
<1>3. Len(taken) \in Nat /\ DOMAIN taken = 1..Len(taken)
  OBVIOUS
<1>4. \A n \in 1..N : lots[n] \in OpenLot /\ lots[n].quantity \in Nat \ {0}
  <2>1. \A n \in 1..N : lots[n] \in OpenLot
    BY <1>2
  <2> QED
    BY <2>1, OpenLotIs
<1>5. Len(taken) <= N /\ \A n \in DOMAIN taken : n \in 1..N /\ (n \in 1..whole \/ (cut = 1 /\ n = whole + 1))
  BY <1>1, <1>2, <1>3
<1>6. ASSUME NEW n \in 1..whole
      PROVE  /\ taken[n].lot = lots[n].lot /\ taken[n].cost = lots[n].cost
             /\ taken[n].quantity <= lots[n].quantity
  <2>1. n \in 1..N
    BY <1>1, <1>2
  <2> QED
    BY <1>1, <1>4, <2>1
<1>7. ASSUME cut = 1
      PROVE  /\ taken[whole + 1].lot = lots[whole + 1].lot
             /\ taken[whole + 1].cost = lots[whole + 1].cost
             /\ taken[whole + 1].quantity <= lots[whole + 1].quantity
  <2>1. whole + 1 \in 1..N
    BY <1>1, <1>2, <1>7
  <2>2. PICK l \in OpenLot : l = lots[whole + 1] /\ l.quantity \in Nat \ {0}
    BY <1>4, <2>1
  <2>3. PICK part \in 1..(l.quantity - 1) : taken[whole + 1] = [l EXCEPT !.quantity = part]
    BY <1>1, <1>7, <2>2
  <2>4. taken[whole + 1] = [lot |-> l.lot, quantity |-> part, cost |-> l.cost]
    BY <2>3, Relabelled
  <2>5. part <= l.quantity
    BY <2>2
  <2> QED
    BY <2>2, <2>4, <2>5
<1> QED
  BY <1>2, <1>3, <1>5, <1>6, <1>7

\* Giving them agrees with the table.
LEMMA Given ==
  ASSUME NEW table, Whole(table), NEW lots, lots = Fold(table), NEW taken \in Seq(OpenLot),
         GivesFront(taken, lots)
  PROVE  /\ Negatives(taken) \in Seq(Lot) /\ Apart(Negatives(taken))
         /\ Priced(Negatives(taken), table) /\ Covered(Negatives(taken), table)
         /\ Len(Negatives(taken)) = Len(taken)
         /\ CostBasis(Negatives(taken)) = -CostBasis(taken)
<1> DEFINE pieces == Negatives(taken)
<1>1. /\ pieces \in Seq(Lot) /\ DOMAIN pieces = DOMAIN taken
      /\ \A n \in DOMAIN taken : /\ pieces[n].lot = taken[n].lot /\ pieces[n].cost = taken[n].cost
                                 /\ pieces[n].quantity = -taken[n].quantity
  BY NegativesAre
<1> HIDE DEF pieces
<1>2. table \in Tables /\ CostsAgree(table)
  BY DEF Whole
<1>3. /\ lots \in Seq(OpenLot)
      /\ \A n \in DOMAIN lots :
           /\ Units(table, lots[n].lot) = lots[n].quantity /\ lots[n].quantity \in Nat
           /\ \E x \in ToSet(table) : x.lot = lots[n].lot /\ x.cost = lots[n].cost
      /\ \A i, j \in DOMAIN lots : i # j => lots[i].lot # lots[j].lot
  BY <1>2, OpenFacts
<1>4. \A n \in DOMAIN taken :
        /\ n \in DOMAIN lots /\ taken[n].lot = lots[n].lot /\ taken[n].cost = lots[n].cost
        /\ taken[n].quantity <= lots[n].quantity
  BY <1>3, FrontIs
<1>5. \A n \in DOMAIN taken : taken[n].quantity \in Nat
  <2>1. \A n \in DOMAIN taken : taken[n] \in OpenLot
    OBVIOUS
  <2> QED
    BY <2>1, OpenLotIs
<1>6. Apart(pieces)
  BY <1>1, <1>3, <1>4 DEF Apart
<1>7. Priced(pieces, table)
  <2>1. \A x, y \in ToSet(table) : x.lot = y.lot => x.cost = y.cost
    BY <1>2, CostsOf
  <2> QED
    BY <1>1, <1>3, <1>4, <2>1 DEF Priced
<1>8. Covered(pieces, table)
  BY <1>1, <1>3, <1>4, <1>5 DEF Covered
<1>9. Len(pieces) = Len(taken)
  <2>1. PICK m \in Nat : m = Len(pieces) /\ DOMAIN pieces = 1..m
    BY <1>1
  <2>2. PICK n \in Nat : n = Len(taken) /\ DOMAIN taken = 1..n
    OBVIOUS
  <2>3. 1..m = 1..n
    BY <1>1, <2>1, <2>2
  <2>4. m = n
    <3> HIDE <1>1, <2>1, <2>2
    <3> QED
      BY <2>3
  <2> QED
    BY <2>1, <2>2, <2>4
<1> QED
  BY <1>1, <1>6, <1>7, <1>8, <1>9, NegativesBasis DEF pieces

(* q units at num/den, and that there is nothing left over.                   *)
Scaled(q, num, den) == (q * num) \div den
Divided(q, num, den) == (q * num) % den = 0

\* A split that comes out even keeps what a lot cost.
LEMMA Even ==
  ASSUME NEW q \in Nat, NEW c \in Nat, NEW num \in Nat \ {0}, NEW den \in Nat \ {0},
         Divided(q, num, den), Divided(c, den, num)
  PROVE  /\ Scaled(q, num, den) \in Nat /\ Scaled(c, den, num) \in Nat
         /\ q > 0 => Scaled(q, num, den) > 0
         /\ Scaled(q, num, den) * Scaled(c, den, num) = q * c
<1> DEFINE x == Scaled(q, num, den)
           y == Scaled(c, den, num)
<1>1. q * num \in Nat /\ c * den \in Nat
  OBVIOUS
<1>2. x \in Nat /\ q * num = den * x
  BY <1>1 DEF Scaled, Divided
<1>3. y \in Nat /\ c * den = num * y
  BY <1>1 DEF Scaled, Divided
<1> HIDE DEF x, y
<1>4. (q * c) * (num * den) = (x * y) * (num * den)
  <2>1. (q * c) * (num * den) = (q * num) * (c * den)
    OBVIOUS
  <2>2. (x * y) * (num * den) = (den * x) * (num * y)
    BY <1>2, <1>3
  <2> QED
    BY <1>2, <1>3, <2>1, <2>2
<1>5. num * den \in Nat \ {0} /\ q * c \in Nat /\ x * y \in Nat
  BY <1>2, <1>3
<1>6. \A a, b \in Nat : \A k \in Nat \ {0} : a * k = b * k => a = b
  OBVIOUS
<1>7. q * c = x * y
  BY <1>4, <1>5, <1>6
<1>8. q > 0 => x > 0
  <2>1. q > 0 => q * num > 0
    OBVIOUS
  <2> QED
    BY <1>2, <2>1
<1> QED
  BY <1>2, <1>3, <1>7, <1>8 DEF x, y

\* What a split makes of one lot.
SplitTo(p, l, num, den, ref) ==
  /\ p \in OpenLot /\ p \in Lot /\ p.lot = Append(l.lot, ref)
  /\ p.quantity = Scaled(l.quantity, num, den) /\ p.cost = Scaled(l.cost, den, num)
  /\ p.quantity * p.cost = l.quantity * l.cost

LEMMA SplitOf ==
  ASSUME NEW l \in OpenLot, NEW num \in Nat \ {0}, NEW den \in Nat \ {0}, NEW ref \in Nat,
         Divided(l.quantity, num, den), Divided(l.cost, den, num),
         NEW p, p = SplitLot(l, num, den, ref)
  PROVE  SplitTo(p, l, num, den, ref)
<1>1. PICK a \in Seq(Nat), q \in Nat, c \in Nat :
        a = l.lot /\ q = l.quantity /\ c = l.cost /\ q > 0
  BY OpenLotIs
<1> DEFINE x == Scaled(q, num, den)
           y == Scaled(c, den, num)
<1>2. x \in Nat /\ y \in Nat /\ x > 0 /\ x * y = q * c
  BY <1>1, Even
<1>3. p = [lot |-> Append(a, ref), quantity |-> x, cost |-> y]
  BY <1>1 DEF SplitLot, Scaled
<1> HIDE DEF x, y
<1>4. Append(a, ref) \in Seq(Nat) /\ x \in Nat \ {0} /\ x \in Int
  BY <1>2
<1>5. p \in OpenLot /\ p \in Lot
  BY <1>2, <1>3, <1>4 DEF OpenLot, Lot
<1>6. p.lot = Append(a, ref) /\ p.quantity = x /\ p.cost = y
  BY <1>3
<1> QED
  BY <1>1, <1>2, <1>5, <1>6 DEF x, y, SplitTo

\* The lots a split opens.
Evenly(lots, num, den) ==
  \A n \in DOMAIN lots :
    Divided(lots[n].quantity, num, den) /\ Divided(lots[n].cost, den, num)
Reopened(lots, num, den, ref) == [n \in DOMAIN lots |-> SplitLot(lots[n], num, den, ref)]

LEMMA SameStart ==
  ASSUME NEW a \in Seq(Nat), NEW b \in Seq(Nat), NEW ref \in Nat, Append(a, ref) = Append(b, ref)
  PROVE  a = b
<1>1. PICK m \in Nat, n \in Nat : m = Len(a) /\ n = Len(b)
  OBVIOUS
<1>2. Len(Append(a, ref)) = m + 1 /\ Len(Append(b, ref)) = n + 1
  BY <1>1
<1>3. m = n
  BY <1>1, <1>2
<1>4. ASSUME NEW k \in 1..m PROVE a[k] = b[k]
  <2>1. Append(a, ref)[k] = a[k]
    BY <1>1
  <2>2. Append(b, ref)[k] = b[k]
    BY <1>1, <1>3
  <2> QED
    BY <2>1, <2>2
<1>5. \A k \in 1..Len(a) : a[k] = b[k]
  BY <1>1, <1>4
<1> QED
  BY <1>1, <1>3, <1>5, SameList

LEMMA SplitPieces ==
  ASSUME NEW lots \in Seq(OpenLot), NEW num \in Nat \ {0}, NEW den \in Nat \ {0},
         NEW ref \in Nat, Evenly(lots, num, den), NEW pieces, pieces = Reopened(lots, num, den, ref)
  PROVE  /\ pieces \in Seq(OpenLot) /\ pieces \in Seq(Lot) /\ DOMAIN pieces = DOMAIN lots
         /\ Len(pieces) = Len(lots)
         /\ \A n \in DOMAIN lots :
              /\ pieces[n].lot = Append(lots[n].lot, ref)
              /\ pieces[n].quantity = Scaled(lots[n].quantity, num, den)
              /\ pieces[n].cost = Scaled(lots[n].cost, den, num)
         /\ Apart(lots) => Apart(pieces)
         /\ CostBasis(pieces) = CostBasis(lots)
<1>1. PICK N \in Nat : N = Len(lots) /\ DOMAIN lots = 1..N
  <2>1. Len(lots) \in Nat /\ DOMAIN lots = 1..Len(lots)
    OBVIOUS
  <2> QED
    BY <2>1
<1>2. /\ pieces = [n \in 1..N |-> pieces[n]]
      /\ \A n \in 1..N : pieces[n] = SplitLot(lots[n], num, den, ref)
  BY <1>1 DEF Reopened
<1>3. \A n \in 1..N : lots[n] \in OpenLot
  BY <1>1
<1>4. \A n \in 1..N : lots[n].lot \in Seq(Nat)
  BY <1>3, OpenLotIs
<1>5. ASSUME NEW n \in 1..N PROVE SplitTo(pieces[n], lots[n], num, den, ref)
  <2>1. Divided(lots[n].quantity, num, den) /\ Divided(lots[n].cost, den, num)
    BY <1>1 DEF Evenly
  <2>2. lots[n] \in OpenLot /\ pieces[n] = SplitLot(lots[n], num, den, ref)
    BY <1>2, <1>3
  <2> QED
    BY <2>1, <2>2, SplitOf
<1>6. pieces \in Seq(OpenLot) /\ pieces \in Seq(Lot) /\ DOMAIN pieces = 1..N /\ Len(pieces) = N
  <2>1. \A n \in 1..N : pieces[n] \in OpenLot /\ pieces[n] \in Lot
    BY <1>5 DEF SplitTo
  <2> QED
    BY <1>2, <2>1, Listed
<1>7. ASSUME Apart(lots) PROVE Apart(pieces)
  <2>1. \A i, j \in 1..N : Append(lots[i].lot, ref) = Append(lots[j].lot, ref) => lots[i].lot = lots[j].lot
    BY <1>4, SameStart
  <2>2. \A i, j \in 1..N : i # j => lots[i].lot # lots[j].lot
    BY <1>1, <1>7 DEF Apart
  <2>3. ASSUME NEW i \in 1..N, NEW j \in 1..N, i # j PROVE pieces[i].lot # pieces[j].lot
    <3>1. pieces[i].lot = Append(lots[i].lot, ref) /\ pieces[j].lot = Append(lots[j].lot, ref)
      BY <1>5 DEF SplitTo
    <3>2. lots[i].lot # lots[j].lot
      BY <2>2, <2>3
    <3>3. Append(lots[i].lot, ref) # Append(lots[j].lot, ref)
      BY <2>1, <3>2
    <3> QED
      BY <3>1, <3>3
  <2> QED
    BY <1>6, <2>3 DEF Apart
<1>8. CostBasis(pieces) = CostBasis(lots)
  <2>1. [n \in DOMAIN pieces |-> pieces[n].quantity * pieces[n].cost]
          = [n \in DOMAIN lots |-> lots[n].quantity * lots[n].cost]
    <3>1. \A n \in 1..N : pieces[n].quantity * pieces[n].cost = lots[n].quantity * lots[n].cost
      BY <1>5 DEF SplitTo
    <3> QED
      BY <1>1, <1>6, <3>1
  <2> QED
    BY <2>1 DEF CostBasis
<1> QED
  BY <1>1, <1>5, <1>6, <1>7, <1>8 DEF SplitTo

\* The rows of a sale, of a purchase and of a split are those of the lots.
LEMMA OperationsAre ==
  ASSUME NEW table \in Tables, NEW at \in Nat, NEW ref \in Nat, \A x \in ToSet(table) : x.at <= at
  PROVE  /\ open_lots(table, at) = Fold(table)
         /\ \A quantity : close_quantity(table, quantity, at, ref)
              = Added(table, RowsOf(Negatives(Consumed(Fold(table), quantity)), at, CLOSE, ref))
         /\ \A quantity, cost : open_lot(table, quantity, cost, at, ref)
              = Added(table, RowsOf(<<[lot |-> <<ref>>, quantity |-> quantity, cost |-> cost]>>,
                                    at, OPEN, ref))
         /\ \A num, den : apply_split(table, num, den, at, ref)
              = Added(Added(table, RowsOf(Negatives(Fold(table)), at, SPLIT_OUT, ref)),
                      RowsOf(Reopened(Fold(table), num, den, ref), at, SPLIT_IN, ref))
<1>1. open_lots(table, at) = Fold(table)
  <2>1. \A k \in DOMAIN table : table[k] \in ToSet(table)
    BY DEF ToSet
  <2> QED
    BY <2>1, AsOfAll
<1>2. ASSUME NEW lots, NEW rank
      PROVE  [n \in DOMAIN lots |-> RowFor(Negated(lots[n]), at, rank, n - 1, ref)]
               = RowsOf(Negatives(lots), at, rank, ref)
  <2>1. DOMAIN Negatives(lots) = DOMAIN lots /\ \A n \in DOMAIN lots : Negatives(lots)[n] = Negated(lots[n])
    BY DEF Negatives
  <2> QED
    BY <2>1 DEF RowsOf
<1>3. \A quantity : close_quantity(table, quantity, at, ref)
        = Added(table, RowsOf(Negatives(Consumed(Fold(table), quantity)), at, CLOSE, ref))
  BY <1>1, <1>2 DEF close_quantity
<1>4. ASSUME NEW quantity, NEW cost
      PROVE  open_lot(table, quantity, cost, at, ref)
              = Added(table, RowsOf(<<[lot |-> <<ref>>, quantity |-> quantity, cost |-> cost]>>,
                                    at, OPEN, ref))
  <2> DEFINE x == [lot |-> <<ref>>, quantity |-> quantity, cost |-> cost]
  <2> HIDE DEF x
  <2>1. RowsOf(<<x>>, at, OPEN, ref) = <<RowFor(x, at, OPEN, 0, ref)>>
    <3>1. DOMAIN <<x>> = 1..1 /\ <<x>>[1] = x
      OBVIOUS
    <3>2. RowsOf(<<x>>, at, OPEN, ref) = [n \in 1..1 |-> RowFor(x, at, OPEN, 0, ref)]
      <4>1. \A n \in 1..1 : n = 1 /\ n - 1 = 0
        OBVIOUS
      <4> QED
        BY <3>1, <4>1 DEF RowsOf
    <3> QED
      BY <3>2
  <2> QED
    BY <2>1 DEF x, open_lot
<1>5. \A num, den : apply_split(table, num, den, at, ref)
        = Added(Added(table, RowsOf(Negatives(Fold(table)), at, SPLIT_OUT, ref)),
                RowsOf(Reopened(Fold(table), num, den, ref), at, SPLIT_IN, ref))
  <2> TAKE num, den
  <2>1. [n \in DOMAIN Fold(table) |-> RowFor(SplitLot(Fold(table)[n], num, den, ref), at, SPLIT_IN, n - 1, ref)]
          = RowsOf(Reopened(Fold(table), num, den, ref), at, SPLIT_IN, ref)
    <3> DEFINE lots == Fold(table)
               more == Reopened(lots, num, den, ref)
    <3>1. DOMAIN more = DOMAIN lots /\ \A n \in DOMAIN lots : more[n] = SplitLot(lots[n], num, den, ref)
      BY DEF Reopened
    <3> HIDE DEF lots, more
    <3>2. [n \in DOMAIN lots |-> RowFor(SplitLot(lots[n], num, den, ref), at, SPLIT_IN, n - 1, ref)]
            = RowsOf(more, at, SPLIT_IN, ref)
      BY <3>1 DEF RowsOf
    <3> QED
      BY <3>2 DEF lots, more
  <2>2. [n \in DOMAIN Fold(table) |-> RowFor(Negated(Fold(table)[n]), at, SPLIT_OUT, n - 1, ref)]
          = RowsOf(Negatives(Fold(table)), at, SPLIT_OUT, ref)
    BY <1>2
  <2> QED
    BY <1>1, <2>1, <2>2 DEF apply_split
<1> QED
  BY <1>1, <1>3, <1>4, <1>5
\* Lots that a table has no name for can always enter it.
Unnamed(pieces, table) ==
  \A n \in DOMAIN pieces : \A x \in ToSet(table) : x.lot # pieces[n].lot

LEMMA NewPieces ==
  ASSUME NEW table, Whole(table), NEW pieces \in Seq(OpenLot), Apart(pieces), Unnamed(pieces, table),
         NEW at \in Nat, NEW rank \in Nat, NEW ref \in Nat, Unused(table, rank, ref),
         NEW new, new = RowsOf(pieces, at, rank, ref), NEW next, next = Added(table, new)
  PROVE  Entered(next, table, new, pieces, at, rank, ref)
<1>1. \A l \in OpenLot : l \in Lot /\ l.quantity \in Nat
  <2>1. \A l \in OpenLot : l \in Lot
    BY DEF OpenLot, Lot
  <2> QED
    BY <2>1, OpenLotIs
<1>2. pieces \in Seq(Lot)
  BY <1>1
<1>3. \A n \in DOMAIN pieces : pieces[n].quantity \in Nat
  <2>1. \A n \in DOMAIN pieces : pieces[n] \in OpenLot
    OBVIOUS
  <2> QED
    BY <1>1, <2>1
<1>4. \A n \in DOMAIN pieces : Units(table, pieces[n].lot) = 0
  <2>1. table \in Tables /\ \A k \in DOMAIN table : table[k] \in ToSet(table)
    BY DEF Whole, ToSet
  <2>2. ASSUME NEW n \in DOMAIN pieces PROVE Units(table, pieces[n].lot) = 0
    <3>1. \A k \in DOMAIN table : table[k].lot # pieces[n].lot
      BY <2>1 DEF Unnamed
    <3> QED
      BY <2>1, <3>1, NoUnits
  <2> QED
    BY <2>2
<1>5. Priced(pieces, table) /\ Covered(pieces, table)
  BY <1>3, <1>4 DEF Unnamed, Priced, Covered
<1> QED
  BY <1>2, <1>5, PiecesAdded

\* A sale takes out of a position what was paid for the lots it takes.
LEMMA Sold ==
  ASSUME NEW table, Whole(table), NEW at \in Nat, NEW ref \in Nat, \A x \in ToSet(table) : x.at <= at,
         Unused(table, CLOSE, ref), NEW quantity \in Nat,
         NEW taken, taken = Consumed(Fold(table), quantity),
         NEW new, new = RowsOf(Negatives(taken), at, CLOSE, ref),
         NEW next, next = close_quantity(table, quantity, at, ref)
  PROVE  /\ Entered(next, table, new, Negatives(taken), at, CLOSE, ref)
         /\ next = Added(table, new)
         /\ taken \in Seq(OpenLot) /\ GivesFront(taken, Fold(table))
         /\ CostBasis(Negatives(taken)) = -CostBasis(taken)
<1>1. table \in Tables
  BY DEF Whole
<1>2. Fold(table) \in Seq(OpenLot)
  BY <1>1, OpenFacts
<1>3. taken \in Seq(OpenLot) /\ GivesFront(taken, Fold(table))
  BY <1>2, TakenIs
<1>4. next = Added(table, new)
  BY <1>1, OperationsAre
<1>5. /\ Negatives(taken) \in Seq(Lot) /\ Apart(Negatives(taken))
      /\ Priced(Negatives(taken), table) /\ Covered(Negatives(taken), table)
      /\ CostBasis(Negatives(taken)) = -CostBasis(taken)
  BY <1>3, Given
<1>6. CLOSE \in Nat
  BY DEF CLOSE
<1>7. Entered(next, table, new, Negatives(taken), at, CLOSE, ref)
  BY <1>4, <1>5, <1>6, PiecesAdded
<1> QED
  BY <1>3, <1>4, <1>5, <1>7

\* A purchase adds what it paid.
OpenedAs(next, table, new, pieces, at, ref, paid) ==
  /\ Entered(next, table, new, pieces, at, OPEN, ref) /\ next = Added(table, new)
  /\ pieces \in Seq(OpenLot) /\ Apart(pieces) /\ Unnamed(pieces, table)
  /\ CostBasis(pieces) = paid

LEMMA Opened ==
  ASSUME NEW table, Whole(table), NEW at \in Nat, NEW ref \in Nat, \A x \in ToSet(table) : x.at <= at,
         Unused(table, OPEN, ref), \A x \in ToSet(table) : x.lot # <<ref>>,
         NEW quantity \in Nat \ {0}, NEW cost \in Nat,
         NEW pieces, pieces = <<[lot |-> <<ref>>, quantity |-> quantity, cost |-> cost]>>,
         NEW new, new = RowsOf(pieces, at, OPEN, ref),
         NEW next, next = open_lot(table, quantity, cost, at, ref)
  PROVE  OpenedAs(next, table, new, pieces, at, ref, quantity * cost)
<1>1. table \in Tables
  BY DEF Whole
<1>2. next = Added(table, new)
  BY <1>1, OperationsAre
<1> DEFINE x == [lot |-> <<ref>>, quantity |-> quantity, cost |-> cost]
<1>3. x \in OpenLot /\ x \in Lot /\ x.lot = <<ref>> /\ x.quantity = quantity /\ x.cost = cost
  <2>1. <<ref>> \in Seq(Nat)
    OBVIOUS
  <2> QED
    BY <2>1 DEF OpenLot, Lot
<1> HIDE DEF x
<1>4. pieces = <<x>> /\ DOMAIN <<x>> = 1..1 /\ <<x>>[1] = x
  BY DEF x
<1>5. pieces \in Seq(OpenLot)
  BY <1>3, <1>4
<1>6. Apart(pieces)
  BY <1>4 DEF Apart
<1>7. Unnamed(pieces, table)
  <2>1. \A n \in DOMAIN pieces : pieces[n].lot = <<ref>>
    BY <1>3, <1>4
  <2> QED
    BY <2>1 DEF Unnamed
<1>8. CostBasis(pieces) = quantity * cost
  <2>1. LotList(<< >>)
    BY DEF LotList
  <2>2. CostBasis(<< >>) = 0
    BY <2>1, BasisIs
  <2>3. CostBasis(Append(<< >>, x)) = CostBasis(<< >>) + x.quantity * x.cost
    BY <1>3, <2>1, BasisLast
  <2>4. Append(<< >>, x) = <<x>>
    OBVIOUS
  <2>5. quantity * cost \in Int
    BY Distributes
  <2> QED
    BY <1>3, <1>4, <2>2, <2>3, <2>4, <2>5
<1>9. OPEN \in Nat
  BY DEF OPEN
<1> QED
  <2>1. Entered(next, table, new, pieces, at, OPEN, ref)
    BY <1>2, <1>5, <1>6, <1>7, <1>9, NewPieces
  <2> QED
    BY <1>2, <1>5, <1>6, <1>7, <1>8, <2>1 DEF OpenedAs
\* A split, whose lots come out even, keeps what a position cost.
LEMMA SplitDone ==
  ASSUME NEW table, Whole(table), NEW at \in Nat, NEW ref \in Nat, \A x \in ToSet(table) : x.at <= at,
         Unused(table, SPLIT_OUT, ref), Unused(table, SPLIT_IN, ref),
         NEW num \in Nat \ {0}, NEW den \in Nat \ {0}, NEW lots, lots = Fold(table),
         Evenly(lots, num, den), NEW pieces, pieces = Reopened(lots, num, den, ref),
         Unnamed(pieces, table),
         NEW out, out = RowsOf(Negatives(lots), at, SPLIT_OUT, ref), NEW mid, mid = Added(table, out),
         NEW in, in = RowsOf(pieces, at, SPLIT_IN, ref),
         NEW next, next = apply_split(table, num, den, at, ref)
  PROVE  /\ Entered(mid, table, out, Negatives(lots), at, SPLIT_OUT, ref)
         /\ Entered(next, mid, in, pieces, at, SPLIT_IN, ref) /\ next = Added(mid, in)
         /\ Unused(mid, SPLIT_IN, ref) /\ Unnamed(pieces, mid)
         /\ lots \in Seq(OpenLot) /\ pieces \in Seq(OpenLot) /\ Apart(lots) /\ Apart(pieces)
         /\ CostBasis(Fold(next)) = CostBasis(lots)
<1>1. table \in Tables
  BY DEF Whole
<1>2. /\ lots \in Seq(OpenLot) /\ Len(lots) \in Nat /\ DOMAIN lots = 1..Len(lots)
      /\ \A n \in DOMAIN lots : \E x \in ToSet(table) : x.lot = lots[n].lot
      /\ \A i, j \in DOMAIN lots : i # j => lots[i].lot # lots[j].lot
  BY <1>1, OpenFacts
<1>3. GivesFront(lots, lots)
  <2>1. PICK N \in Nat : N = Len(lots)
    BY <1>2
  <2>2. N \in 0..N /\ 0 \in 0..1 /\ N = N + 0 /\ 0 # 1
    OBVIOUS
  <2> QED
    BY <2>1, <2>2 DEF GivesFront
<1>4. Apart(lots)
  BY <1>2 DEF Apart
<1>5. next = Added(mid, in)
  BY <1>1, OperationsAre
<1>6. SPLIT_OUT \in Nat /\ SPLIT_IN \in Nat /\ SPLIT_OUT # SPLIT_IN
  BY DEF SPLIT_OUT, SPLIT_IN
<1>7. Entered(mid, table, out, Negatives(lots), at, SPLIT_OUT, ref)
  <2>1. /\ Negatives(lots) \in Seq(Lot) /\ Apart(Negatives(lots))
        /\ Priced(Negatives(lots), table) /\ Covered(Negatives(lots), table)
    BY <1>2, <1>3, Given
  <2> QED
    BY <1>6, <2>1, PiecesAdded
<1>8. Whole(mid) /\ ToSet(mid) = ToSet(table) \cup ToSet(out)
      /\ CostBasis(Fold(mid)) = CostBasis(Fold(table)) + CostBasis(Negatives(lots))
  BY <1>7 DEF Entered
<1>9. \A x \in ToSet(out) : x.rank = SPLIT_OUT /\ \E n \in DOMAIN lots : x.lot = lots[n].lot
  <2>1. Made(out, Negatives(lots), at, SPLIT_OUT, ref)
    BY <1>7 DEF Entered
  <2>2. DOMAIN Negatives(lots) = DOMAIN lots /\ \A n \in DOMAIN lots : Negatives(lots)[n].lot = lots[n].lot
    BY <1>2, NegativesAre
  <2>3. DOMAIN out = DOMAIN lots
        /\ \A n \in DOMAIN lots : out[n].rank = SPLIT_OUT /\ out[n].lot = lots[n].lot
    BY <2>1, <2>2 DEF Made
  <2>4. \A x \in ToSet(out) : \E n \in DOMAIN lots : x = out[n]
    BY <2>3 DEF ToSet
  <2> QED
    BY <2>3, <2>4
<1>10. Unused(mid, SPLIT_IN, ref)
  BY <1>6, <1>8, <1>9 DEF Unused
<1>11. /\ pieces \in Seq(OpenLot) /\ Apart(pieces) /\ CostBasis(pieces) = CostBasis(lots)
  BY <1>2, <1>4, SplitPieces
<1>12. Unnamed(pieces, mid)
  <2> SUFFICES ASSUME NEW n \in DOMAIN pieces, NEW x \in ToSet(mid) PROVE x.lot # pieces[n].lot
    BY DEF Unnamed
  <2>1. \A y \in ToSet(table) : y.lot # pieces[n].lot
    BY DEF Unnamed
  <2>2. CASE x \in ToSet(table)
    BY <2>1, <2>2
  <2>3. CASE x \in ToSet(out)
    <3>1. PICK m \in DOMAIN lots : x.lot = lots[m].lot
      BY <1>9, <2>3
    <3>2. PICK y \in ToSet(table) : y.lot = lots[m].lot
      BY <1>2
    <3> QED
      BY <2>1, <3>1, <3>2
  <2> QED
    BY <1>8, <2>2, <2>3
<1>13. Entered(next, mid, in, pieces, at, SPLIT_IN, ref)
  BY <1>5, <1>6, <1>8, <1>10, <1>11, <1>12, NewPieces
<1>14. CostBasis(Fold(next)) = CostBasis(lots)
  <2>1. CostBasis(Fold(next)) = CostBasis(Fold(mid)) + CostBasis(pieces)
    BY <1>13 DEF Entered
  <2>2. CostBasis(Negatives(lots)) = -CostBasis(lots) /\ CostBasis(lots) \in Int
    BY <1>2, NegativesBasis
  <2> QED
    BY <1>8, <1>11, <2>1, <2>2
<1> QED
  BY <1>2, <1>4, <1>5, <1>7, <1>10, <1>11, <1>12, <1>13, <1>14
-----------------------------------------------------------------------------
(* What an operation does to the order of the lots. *)

\* One row more goes in where its key is due.
Grows(table, new, before, row, after, pieces, x, at, rank, ref) ==
  /\ Made(new, pieces, at, rank, ref)
  /\ before \in Tables /\ Sorted(before) /\ ToSet(before) = ToSet(table) \cup ToSet(new)
  /\ \A a : Units(before, a) = Units(table, a) + Units(new, a)
  /\ row \in Row /\ row.lot = x.lot /\ row.delta = x.quantity /\ row.cost = x.cost
  /\ row.at = at /\ row.rank = rank /\ row.index = Len(pieces)
  /\ Sorted(after)
  /\ \E m : /\ Puts(before, row, m, after)
            /\ \A k \in DOMAIN before : Key(before[k]) <= Key(row) <=> k <= m

LEMMA OneMore ==
  ASSUME NEW table \in Tables, Sorted(table), NEW at \in Nat, NEW rank \in Nat, NEW ref \in Nat,
         Unused(table, rank, ref), NEW pieces \in Seq(Lot), NEW x \in Lot,
         NEW new, new = RowsOf(pieces, at, rank, ref), NEW before, before = Added(table, new),
         NEW row, row = RowFor(x, at, rank, Len(pieces), ref),
         NEW after, after = Added(table, RowsOf(Append(pieces, x), at, rank, ref))
  PROVE  Grows(table, new, before, row, after, pieces, x, at, rank, ref)
<1>1. Made(new, pieces, at, rank, ref)
  BY RowsOfAre
<1>2. new \in Tables /\ NewRows(new, table)
  <2>1. new \in Tables
    BY <1>1 DEF Made
  <2>2. NewRows(new, table)
    BY <1>1, MadeNew
  <2> QED
    BY <2>1, <2>2
<1>3. /\ before \in Tables /\ Sorted(before) /\ ToSet(before) = ToSet(table) \cup ToSet(new)
      /\ \A w \in Weights : SumOf(w, before) = SumOf(w, table) + SumOf(w, new)
  BY <1>2, AddedRows
<1>4. \A a : Units(before, a) = Units(table, a) + Units(new, a)
  BY <1>3, WeightsAre DEF Units
<1>5. PICK N \in Nat : N = Len(pieces)
  OBVIOUS
<1>6. /\ row = [lot |-> x.lot, at |-> at, rank |-> rank, index |-> N,
                delta |-> x.quantity, cost |-> x.cost, ref |-> ref]
      /\ row \in Row
  <2>1. x.lot \in Seq(Nat) /\ x.quantity \in Int /\ x.cost \in Nat
    BY DEF Lot
  <2> QED
    BY <1>5, <2>1 DEF RowFor, Row
<1>7. after = Insert(before, row)
  <2>1. RowsOf(Append(pieces, x), at, rank, ref) = Append(new, row)
    <3>1. OneLonger(RowsOf(pieces, at, rank, ref), RowFor(x, at, rank, Len(pieces), ref),
                    RowsOf(Append(pieces, x), at, rank, ref))
      BY RowsLast
    <3> QED
      BY <3>1 DEF OneLonger
  <2>2. new \in Seq(Row)
    BY <1>2 DEF Tables
  <2> QED
    BY <1>6, <2>1, <2>2, AddedIs
<1>8. \A k \in DOMAIN before : before[k] # row
  <2>1. row.ref = ref /\ row.rank = rank /\ row.index = N
    BY <1>6
  <2>2. row \notin ToSet(table)
    BY <2>1 DEF Unused
  <2>3. row \notin ToSet(new)
    <3> SUFFICES ASSUME NEW n \in DOMAIN new, new[n] = row PROVE FALSE
      BY DEF ToSet
    <3>1. new[n].index = n - 1 /\ n \in 1..N
      BY <1>1, <1>5 DEF Made
    <3> QED
      BY <2>1, <3>1
  <2>4. \A k \in DOMAIN before : before[k] \in ToSet(before)
    BY DEF ToSet
  <2> QED
    BY <1>3, <2>2, <2>3, <2>4
<1>9. /\ Sorted(Insert(before, row))
      /\ \E m : /\ Puts(before, row, m, Insert(before, row))
                /\ \A k \in DOMAIN before : Key(before[k]) <= Key(row) <=> k <= m
  BY <1>3, <1>6, <1>8, InsertPuts
<1>10. /\ row.lot = x.lot /\ row.delta = x.quantity /\ row.cost = x.cost
       /\ row.at = at /\ row.rank = rank /\ row.index = Len(pieces)
  BY <1>5, <1>6
<1> QED
  BY <1>1, <1>3, <1>4, <1>6, <1>7, <1>9, <1>10 DEF Grows

\* What is left of a queue behind its first lots.
Rest(lots, n) == SubSeq(lots, n + 1, Len(lots))

LEMMA RestIs ==
  ASSUME NEW lots \in Seq(OpenLot), NEW n \in 0..Len(lots)
  PROVE  /\ Rest(lots, n) \in Seq(OpenLot) /\ Len(Rest(lots, n)) = Len(lots) - n
         /\ Rest(lots, 0) = lots
         /\ n < Len(lots) => /\ Rest(lots, n) # << >> /\ Rest(lots, n)[1] = lots[n + 1]
                             /\ Tail(Rest(lots, n)) = Rest(lots, n + 1)
<1>1. PICK N \in Nat : N = Len(lots) /\ DOMAIN lots = 1..N
  <2>1. Len(lots) \in Nat /\ DOMAIN lots = 1..Len(lots)
    OBVIOUS
  <2> QED
    BY <2>1
<1>2. n \in Nat /\ n <= N /\ 0 \in Nat
  BY <1>1
<1>3. \A k \in Nat : k <= N => /\ Rest(lots, k) \in Seq(OpenLot) /\ Len(Rest(lots, k)) = N - k
                               /\ \A i \in 1..(N - k) : Rest(lots, k)[i] = lots[k + i]
  BY <1>1 DEF Rest
<1>4. Rest(lots, 0) = lots
  <2>1. /\ Rest(lots, 0) \in Seq(OpenLot) /\ Len(Rest(lots, 0)) = N
        /\ \A i \in 1..N : Rest(lots, 0)[i] = lots[i]
    BY <1>1, <1>3
  <2> QED
    BY <1>1, <2>1, SameList
<1>5. ASSUME n < N
      PROVE  /\ Rest(lots, n) # << >> /\ Rest(lots, n)[1] = lots[n + 1]
             /\ Tail(Rest(lots, n)) = Rest(lots, n + 1)
  <2> DEFINE rest == Rest(lots, n)
             less == Rest(lots, n + 1)
  <2>1. /\ rest \in Seq(OpenLot) /\ Len(rest) = N - n /\ \A i \in 1..(N - n) : rest[i] = lots[n + i]
    BY <1>2, <1>3
  <2>2. /\ less \in Seq(OpenLot) /\ Len(less) = N - n - 1
        /\ \A i \in 1..(N - n - 1) : less[i] = lots[n + 1 + i]
    <3>1. n + 1 \in Nat /\ n + 1 <= N /\ N - (n + 1) = N - n - 1
      BY <1>2, <1>5
    <3> QED
      BY <1>3, <3>1
  <2> HIDE DEF rest, less
  <2>3. rest # << >> /\ rest[1] = lots[n + 1]
    BY <1>2, <1>5, <2>1
  <2>4. /\ Tail(rest) \in Seq(OpenLot) /\ Len(Tail(rest)) = N - n - 1
        /\ \A i \in 1..(N - n - 1) : Tail(rest)[i] = rest[i + 1]
    BY <1>2, <2>1, <2>3
  <2>5. \A i \in 1..(N - n - 1) : Tail(rest)[i] = less[i]
    <3> TAKE i \in 1..(N - n - 1)
    <3>1. i + 1 \in 1..(N - n) /\ n + (i + 1) = n + 1 + i
      BY <1>2
    <3> QED
      BY <2>1, <2>2, <2>4, <3>1
  <2>6. Tail(rest) = less
    BY <2>2, <2>4, <2>5, SameList
  <2> QED
    BY <2>3, <2>6 DEF rest, less
<1> QED
  BY <1>1, <1>2, <1>3, <1>4, <1>5

(* These pieces close the first lots of a queue, each whole.                  *)
Closes(pieces, lots) ==
  /\ Len(pieces) <= Len(lots)
  /\ \A n \in 1..Len(pieces) :
       pieces[n].lot = lots[n].lot /\ pieces[n].quantity = -lots[n].quantity

LEMMA CloseRun ==
  ASSUME NEW table \in Tables, Sorted(table), NEW lots \in Seq(OpenLot),
         Pictures(lots, table, Live(table)),
         NEW at \in Nat, NEW rank \in Nat, NEW ref \in Nat, Unused(table, rank, ref)
  PROVE  \A pieces \in Seq(Lot) : Closes(pieces, lots) =>
           Pictures(Rest(lots, Len(pieces)), Added(table, RowsOf(pieces, at, rank, ref)),
                    Live(Added(table, RowsOf(pieces, at, rank, ref))))
<1> DEFINE Then(pieces) == Added(table, RowsOf(pieces, at, rank, ref))
           P == {pieces \in Seq(Lot) : Closes(pieces, lots) =>
                   Pictures(Rest(lots, Len(pieces)), Then(pieces), Live(Then(pieces)))}
<1>1. << >> \in P
  <2>1. << >> \in Seq(Lot) /\ Len(<< >>) = 0 /\ 0 \in 0..Len(lots)
    OBVIOUS
  <2>2. RowsOf(<< >>, at, rank, ref) = << >>
    BY DEF RowsOf
  <2>3. Then(<< >>) = table /\ Rest(lots, 0) = lots
    BY <2>1, <2>2, AddedIs, RestIs
  <2> QED
    BY <2>1, <2>3
<1>2. ASSUME NEW l \in Seq(Lot), NEW x \in Lot, l \in P PROVE Append(l, x) \in P
  <2> DEFINE more == Append(l, x)
             before == Then(l)
             after == Then(more)
             row == RowFor(x, at, rank, Len(l), ref)
  <2>1. PICK N \in Nat : N = Len(l)
    OBVIOUS
  <2>2. /\ more \in Seq(Lot) /\ Len(more) = N + 1 /\ more[N + 1] = x
        /\ \A n \in 1..N : more[n] = l[n]
    BY <2>1
  <2>3. /\ before \in Tables /\ row \in Row /\ row.lot = x.lot /\ row.delta = x.quantity
        /\ \E m : Puts(before, row, m, after)
    <3>1. Grows(table, RowsOf(l, at, rank, ref), before, row, after, l, x, at, rank, ref)
      BY OneMore
    <3> QED
      BY <3>1 DEF Grows
  <2> SUFFICES ASSUME Closes(more, lots) PROVE Pictures(Rest(lots, N + 1), after, Live(after))
    BY <2>2
  <2>4. Closes(l, lots) /\ N < Len(lots) /\ x.lot = lots[N + 1].lot
        /\ x.quantity = -lots[N + 1].quantity
    BY <2>1, <2>2 DEF Closes
  <2>5. Pictures(Rest(lots, N), before, Live(before))
    BY <1>2, <2>1, <2>4
  <2>6. N \in 0..Len(lots)
    BY <2>1, <2>4
  <2>7. /\ Rest(lots, N) \in Seq(OpenLot) /\ Rest(lots, N) # << >>
        /\ Rest(lots, N)[1] = lots[N + 1] /\ Tail(Rest(lots, N)) = Rest(lots, N + 1)
    BY <2>4, <2>6, RestIs
  <2> HIDE DEF more, before, after, row
  <2>8. PICK m : Puts(before, row, m, after)
    BY <2>3
  <2>9. Pictures(Tail(Rest(lots, N)), after, Live(after))
    BY <2>3, <2>4, <2>5, <2>7, <2>8, CloseHead
  <2> QED
    BY <2>7, <2>9
<1> HIDE DEF P
<1>3. \A pieces \in Seq(Lot) : pieces \in P
  BY <1>1, <1>2, ListInduct
<1> QED
  BY <1>3 DEF P
\* Lots opened after every lot that is live join at the end, in their order.
(* What is live in the table was due before this rank of this instant.        *)
FirstKey(at, rank) == (at * 5 + rank) * 1000
Early(table, at, rank) ==
  \A x \in ToSet(table) : Units(table, x.lot) > 0 => Key(x) <= FirstKey(at, rank)

\* The keys of up to ten rows of one rank and instant follow their numbers.
Single == 0..9
KeyAt(at, rank, i) == FirstKey(at, rank) + 11 * i

LEMMA Singles ==
  ASSUME NEW N \in Nat
  PROVE  /\ N + 1 <= 10 => N \in Single
         /\ N \in Single => \A n \in 1..N : n - 1 \in Single
BY DEF Single

LEMMA KeysInOrder ==
  ASSUME NEW x \in Row, x.index \in Single, NEW at \in Nat, NEW rank \in Nat,
         x.at = at, x.rank = rank
  PROVE  Key(x) = KeyAt(at, rank, x.index)
BY DEF Key, TextOrder, FirstKey, KeyAt, Single

LEMMA KeysGrow ==
  ASSUME NEW at \in Nat, NEW rank \in Nat, NEW N \in Single
  PROVE  /\ FirstKey(at, rank) \in Nat /\ FirstKey(at, rank) <= KeyAt(at, rank, N)
         /\ KeyAt(at, rank, N) \in Nat
         /\ \A n \in 1..N : KeyAt(at, rank, n - 1) <= KeyAt(at, rank, N)
BY DEF FirstKey, KeyAt, Single

LEMMA OpenRun ==
  ASSUME NEW table \in Tables, Sorted(table), NEW lots \in Seq(OpenLot),
         Pictures(lots, table, Live(table)),
         NEW at \in Nat, NEW rank \in Nat, NEW ref \in Nat, Unused(table, rank, ref),
         Early(table, at, rank)
  PROVE  \A pieces \in Seq(OpenLot) :
           Len(pieces) <= 10 /\ Apart(pieces) /\ Unnamed(pieces, table) =>
             Pictures(lots \o pieces, Added(table, RowsOf(pieces, at, rank, ref)),
                      Live(Added(table, RowsOf(pieces, at, rank, ref))))
<1> DEFINE Then(pieces) == Added(table, RowsOf(pieces, at, rank, ref))
           Fits(pieces) == Len(pieces) <= 10 /\ Apart(pieces) /\ Unnamed(pieces, table)
           P == {pieces \in Seq(OpenLot) : Fits(pieces) =>
                   Pictures(lots \o pieces, Then(pieces), Live(Then(pieces)))}
<1>0. \A l \in OpenLot : l \in Lot
  BY DEF OpenLot, Lot
<1>1. << >> \in P
  <2>1. << >> \in Seq(OpenLot) /\ lots \o << >> = lots
    OBVIOUS
  <2>2. RowsOf(<< >>, at, rank, ref) = << >>
    BY DEF RowsOf
  <2>3. Then(<< >>) = table
    BY <2>2, AddedIs
  <2> QED
    BY <2>1, <2>3
<1>2. ASSUME NEW l \in Seq(OpenLot), NEW x \in OpenLot, l \in P PROVE Append(l, x) \in P
  <2> DEFINE more == Append(l, x)
             new == RowsOf(l, at, rank, ref)
             before == Then(l)
             after == Then(more)
             row == RowFor(x, at, rank, Len(l), ref)
  <2>1. PICK N \in Nat : N = Len(l) /\ DOMAIN l = 1..N
    <3>1. Len(l) \in Nat /\ DOMAIN l = 1..Len(l)
      OBVIOUS
    <3> QED
      BY <3>1
  <2>2. /\ more \in Seq(OpenLot) /\ Len(more) = N + 1 /\ more[N + 1] = x
        /\ DOMAIN more = 1..(N + 1) /\ N + 1 \in 1..(N + 1)
        /\ \A n \in 1..N : more[n] = l[n] /\ n \in 1..(N + 1) /\ n # N + 1
    BY <2>1
  <2>3. l \in Seq(Lot) /\ x \in Lot
    BY <1>0
  <2>4. /\ Made(new, l, at, rank, ref)
        /\ before \in Tables /\ ToSet(before) = ToSet(table) \cup ToSet(new)
        /\ \A a : Units(before, a) = Units(table, a) + Units(new, a)
        /\ row \in Row /\ row.lot = x.lot /\ row.delta = x.quantity /\ row.cost = x.cost
        /\ row.at = at /\ row.rank = rank /\ row.index = N
        /\ \E m : /\ Puts(before, row, m, after)
                  /\ \A k \in DOMAIN before : Key(before[k]) <= Key(row) <=> k <= m
    <3>1. Grows(table, new, before, row, after, l, x, at, rank, ref)
      BY <2>3, OneMore
    <3> HIDE DEF new, before, after, row
    <3> QED
      BY <2>1, <3>1 DEF Grows
  <2> SUFFICES ASSUME Fits(more) PROVE Pictures(lots \o more, after, Live(after))
    BY <2>2
  <2>5. Fits(l) /\ N \in Single
    <3>1. Apart(l)
      BY <2>1, <2>2 DEF Apart
    <3>2. Unnamed(l, table)
      BY <2>1, <2>2 DEF Unnamed
    <3>3. N + 1 <= 10
      <4>1. Len(more) <= 10
        OBVIOUS
      <4> HIDE DEF more
      <4> QED
        BY <2>2, <4>1
    <3>4. N \in Single
      BY <3>3, Singles
    <3>5. Len(l) <= 10
      BY <2>1, <3>3
    <3> QED
      BY <3>1, <3>2, <3>4, <3>5
  <2>6. Pictures(lots \o l, before, Live(before))
    BY <1>2, <2>5
  <2>7. /\ \A y \in ToSet(table) : y.lot # x.lot /\ \A n \in 1..N : y.lot # l[n].lot
        /\ \A n \in 1..N : l[n].lot # x.lot
    <3>1. \A n \in 1..(N + 1) : \A y \in ToSet(table) : y.lot # more[n].lot
      BY <2>2 DEF Unnamed
    <3>2. \A n \in 1..N : more[n].lot # more[N + 1].lot
      BY <2>2 DEF Apart
    <3>3. more[N + 1] = x /\ N + 1 \in 1..(N + 1) /\ \A n \in 1..N : more[n] = l[n] /\ n \in 1..(N + 1)
      BY <2>2
    <3> HIDE DEF more
    <3> QED
      BY <3>1, <3>2, <3>3
  <2>8. /\ new \in Tables /\ DOMAIN new = 1..N
        /\ \A n \in 1..N : /\ new[n].lot = l[n].lot /\ new[n].index = n - 1 /\ new[n].at = at
                           /\ new[n].rank = rank /\ new[n] \in Row
    BY <2>1, <2>4 DEF Made
  <2>9. x.quantity > 0 /\ lots \o l \in Seq(OpenLot) /\ lots \o more = Append(lots \o l, x)
    BY OpenLotIs, JoinedLast
  <2> HIDE DEF more, new, before, after, row, Fits
  <2>10. PICK m : /\ Puts(before, row, m, after)
                  /\ \A k \in DOMAIN before : Key(before[k]) <= Key(row) <=> k <= m
    BY <2>4
  <2>11. \A k \in DOMAIN before : before[k] \in ToSet(before)
    BY DEF ToSet
  <2>12. \A y \in ToSet(new) : \E n \in 1..N : y = new[n]
    BY <2>8 DEF ToSet
  <2>13. \A k \in DOMAIN before : before[k].lot # row.lot
    <3>1. \A y \in ToSet(before) : y.lot # x.lot
      BY <2>4, <2>7, <2>8, <2>12
    <3> QED
      BY <2>4, <2>11, <3>1
  <2>14. /\ Key(row) = KeyAt(at, rank, N) /\ KeyAt(at, rank, N) \in Nat
         /\ FirstKey(at, rank) \in Nat /\ FirstKey(at, rank) <= KeyAt(at, rank, N)
         /\ \A n \in 1..N : KeyAt(at, rank, n - 1) <= KeyAt(at, rank, N)
    <3>1. Key(row) = KeyAt(at, rank, row.index)
      BY <2>4, <2>5, KeysInOrder
    <3> QED
      BY <2>4, <2>5, <3>1, KeysGrow
  <2>15. ASSUME NEW k \in Live(before) PROVE k <= m
    <3>1. k \in DOMAIN before /\ Units(before, before[k].lot) > 0
      <4>1. Live(before) \in SUBSET Leads(before) /\ Leads(before) \in SUBSET DOMAIN before
        BY <2>4, TableIs
      <4> QED
        BY <4>1 DEF Live
    <3>2. PICK y : y = before[k] /\ y \in ToSet(table) \cup ToSet(new)
      BY <2>4, <2>11, <3>1
    <3>3. CASE y \in ToSet(table)
      <4>1. \A n \in DOMAIN new : new[n].lot # y.lot
        BY <2>7, <2>8, <3>3
      <4>2. Units(new, y.lot) = 0
        BY <2>8, <4>1, NoUnits
      <4>3. Units(table, y.lot) \in Int
        BY TableIs
      <4>4. Units(table, y.lot) > 0
        BY <2>4, <3>1, <3>2, <4>2, <4>3
      <4>5. Key(y) <= FirstKey(at, rank)
        BY <3>3, <4>4 DEF Early
      <4>6. Key(y) \in Nat
        <5>1. y \in Row
          BY <2>4, <3>1, <3>2, TableIs
        <5> QED
          BY <5>1, KeyIs
      <4>7. Key(y) <= Key(row)
        BY <2>14, <4>5, <4>6
      <4> QED
        BY <2>10, <3>1, <3>2, <4>7
    <3>4. CASE y \in ToSet(new)
      <4>1. PICK n \in 1..N : y = new[n]
        BY <2>12, <3>4
      <4>2. y \in Row /\ y.index = n - 1 /\ y.at = at /\ y.rank = rank
        BY <2>8, <4>1
      <4>3. n - 1 \in Single
        BY <2>1, <2>5, Singles
      <4>4. Key(y) = KeyAt(at, rank, n - 1)
        BY <4>2, <4>3, KeysInOrder
      <4>5. Key(y) <= Key(row)
        BY <2>14, <4>4
      <4> QED
        BY <2>10, <3>1, <3>2, <4>5
    <3> QED
      BY <3>2, <3>3, <3>4
  <2>16. Pictures(Append(lots \o l, [lot |-> row.lot, quantity |-> row.delta, cost |-> row.cost]),
                  after, Live(after))
    <3>1. row.delta > 0
      BY <2>4, <2>9
    <3> QED
      BY <2>4, <2>6, <2>9, <2>10, <2>13, <2>15, <3>1, OpenLast
  <2>17. [lot |-> row.lot, quantity |-> row.delta, cost |-> row.cost] = x
    <3>1. PICK a, b, c : x = [lot |-> a, quantity |-> b, cost |-> c]
      BY DEF OpenLot
    <3> QED
      BY <2>4, <3>1
  <2> QED
    BY <2>9, <2>16, <2>17
<1> HIDE DEF P
<1>3. \A pieces \in Seq(OpenLot) : pieces \in P
  BY <1>1, <1>2, ListInduct
<1> QED
  BY <1>3 DEF P
\* A sale takes from the front.
SoldFrom(lots, left) ==
  \E whole \in 0..Len(lots) :
    \/ left = Rest(lots, whole)
    \/ /\ whole < Len(lots)
       /\ \E part \in 1..(lots[whole + 1].quantity - 1) :
            left = [Rest(lots, whole) EXCEPT ![1].quantity = part]

LEMMA SoldInOrder ==
  ASSUME NEW table, Whole(table), NEW at \in Nat, NEW ref \in Nat, Unused(table, CLOSE, ref),
         NEW lots, lots = Fold(table), NEW taken \in Seq(OpenLot), GivesFront(taken, lots),
         NEW next, next = Added(table, RowsOf(Negatives(taken), at, CLOSE, ref)), next \in Tables
  PROVE  SoldFrom(lots, Fold(next))
<1> DEFINE pieces == Negatives(taken)
<1>1. table \in Tables /\ Sorted(table) /\ CLOSE \in Nat
  BY DEF Whole, CLOSE
<1>2. lots \in Seq(OpenLot) /\ Pictures(lots, table, Live(table))
  BY <1>1, FoldPictured
<1>3. PICK N \in Nat : N = Len(lots) /\ DOMAIN lots = 1..N
  <2>1. Len(lots) \in Nat /\ DOMAIN lots = 1..Len(lots)
    BY <1>2
  <2> QED
    BY <2>1
<1>4. PICK whole \in 0..Len(lots), cut \in 0..1 :
        /\ Len(taken) = whole + cut
        /\ \A n \in 1..whole : taken[n] = lots[n]
        /\ cut = 1 => /\ whole < Len(lots)
                      /\ \E part \in 1..(lots[whole + 1].quantity - 1) :
                           taken[whole + 1] = [lots[whole + 1] EXCEPT !.quantity = part]
  BY DEF GivesFront
<1>5. DOMAIN taken = 1..(whole + cut) /\ whole \in Nat /\ whole <= N
  <2>1. DOMAIN taken = 1..Len(taken)
    OBVIOUS
  <2> QED
    BY <1>3, <1>4, <2>1
<1>6. /\ pieces \in Seq(Lot) /\ DOMAIN pieces = 1..(whole + cut)
      /\ \A n \in 1..(whole + cut) :
           /\ pieces[n].lot = taken[n].lot /\ pieces[n].quantity = -taken[n].quantity
           /\ pieces[n].cost = taken[n].cost
  BY <1>5, NegativesAre
<1> HIDE DEF pieces
<1>7. CASE cut = 0
  <2>1. Len(pieces) = whole
    BY <1>4, <1>6, <1>7
  <2>2. Closes(pieces, lots)
    <3>1. \A n \in 1..whole : n \in 1..(whole + cut)
      BY <1>7
    <3> QED
      BY <1>3, <1>4, <1>5, <1>6, <2>1, <3>1 DEF Closes
  <2>3. Pictures(Rest(lots, whole), next, Live(next))
    BY <1>1, <1>2, <1>6, <2>1, <2>2, CloseRun DEF pieces
  <2>4. Rest(lots, whole) \in Seq(OpenLot)
    BY <1>2, <1>3, <1>4, RestIs
  <2>5. Fold(next) = Rest(lots, whole)
    BY <2>3, <2>4, FoldIs
  <2> QED
    BY <1>3, <1>4, <2>5 DEF SoldFrom
<1>8. CASE cut = 1
  <2> DEFINE front == SubSeq(pieces, 1, whole)
             x == pieces[whole + 1]
             before == Added(table, RowsOf(front, at, CLOSE, ref))
             row == RowFor(x, at, CLOSE, Len(front), ref)
  <2>1. Len(pieces) = whole + 1 /\ DOMAIN pieces = 1..(whole + 1)
    BY <1>5, <1>6, <1>8
  <2>2. /\ front \in Seq(Lot) /\ Len(front) = whole /\ x \in Lot
        /\ \A n \in 1..whole : front[n] = pieces[n]
        /\ Append(front, x) = pieces
    <3>1. /\ front \in Seq(Lot) /\ Len(front) = whole /\ x \in Lot
          /\ \A n \in 1..whole : front[n] = pieces[n]
      BY <1>5, <1>6, <2>1
    <3> HIDE DEF front, x
    <3>2. /\ Append(front, x) \in Seq(Lot) /\ Len(Append(front, x)) = whole + 1
          /\ \A n \in 1..whole : Append(front, x)[n] = front[n]
          /\ Append(front, x)[whole + 1] = x
      BY <1>5, <3>1
    <3>3. \A n \in 1..(whole + 1) : n \in 1..whole \/ n = whole + 1
      BY <1>5
    <3>4. \A n \in 1..(whole + 1) : Append(front, x)[n] = pieces[n]
      BY <3>1, <3>2, <3>3 DEF x
    <3>5. Append(front, x) = pieces
      BY <1>6, <2>1, <3>2, <3>4, SameList
    <3> QED
      BY <3>1, <3>5
  <2>3. Closes(front, lots)
    <3>1. \A n \in 1..whole : n \in 1..(whole + cut)
      BY <1>5, <1>8
    <3> HIDE DEF front
    <3> QED
      BY <1>3, <1>4, <1>5, <1>6, <2>2, <3>1 DEF Closes
  <2> HIDE DEF front, x
  <2>4. Pictures(Rest(lots, whole), before, Live(before))
    BY <1>1, <1>2, <2>2, <2>3, CloseRun
  <2>5. Grows(table, RowsOf(front, at, CLOSE, ref), before, row, next, front, x, at, CLOSE, ref)
    <3>1. next = Added(table, RowsOf(Append(front, x), at, CLOSE, ref))
      BY <2>2 DEF pieces
    <3> QED
      BY <1>1, <2>2, <3>1, OneMore
  <2> HIDE DEF before, row
  <2>6. /\ before \in Tables /\ row \in Row /\ row.lot = x.lot /\ row.delta = x.quantity
        /\ row.cost = x.cost
    BY <2>5 DEF Grows
  <2>7. PICK m : Puts(before, row, m, next)
    BY <2>5 DEF Grows
  <2>8. PICK l \in OpenLot : l = lots[whole + 1]
    <3>1. whole + 1 \in 1..N
      BY <1>3, <1>4, <1>5, <1>8
    <3> QED
      BY <1>2, <1>3, <3>1
  <2>9. PICK part \in 1..(l.quantity - 1) : taken[whole + 1] = [l EXCEPT !.quantity = part]
    BY <1>4, <1>8, <2>8
  <2>10. l.quantity \in Nat \ {0}
    BY OpenLotIs
  <2>11. x.lot = l.lot /\ x.quantity = -part /\ x.cost = l.cost
    <3>1. taken[whole + 1] = [lot |-> l.lot, quantity |-> part, cost |-> l.cost]
      BY <2>9, Relabelled
    <3>2. whole + 1 \in 1..(whole + cut)
      BY <1>5, <1>8
    <3> QED
      BY <1>6, <3>1, <3>2 DEF x
  <2>12. /\ Rest(lots, whole) \in Seq(OpenLot) /\ Rest(lots, whole) # << >>
         /\ Rest(lots, whole)[1] = l
    <3>1. whole \in 0..Len(lots) /\ whole < Len(lots)
      BY <1>3, <1>4, <1>8
    <3> QED
      BY <1>2, <2>8, <3>1, RestIs
  <2>13. PICK left \in Nat \ {0} : left = l.quantity - part /\ left \in 1..(l.quantity - 1)
    BY <2>10
  <2>14. row.delta = left - l.quantity
    BY <2>6, <2>10, <2>11, <2>13
  <2> DEFINE rest == Rest(lots, whole)
             cutted == [rest EXCEPT ![1].quantity = left]
  <2>15. rest \in Seq(OpenLot) /\ rest # << >> /\ rest[1] = l /\ Pictures(rest, before, Live(before))
    BY <2>4, <2>12
  <2> HIDE DEF rest
  <2>16. Pictures(cutted, next, Live(next))
    BY <2>6, <2>7, <2>11, <2>14, <2>15, CutHead
  <2>17. cutted \in Seq(OpenLot)
    <3>1. PICK M \in Nat : M = Len(rest) /\ DOMAIN rest = 1..M /\ 1 \in 1..M
      BY <2>15
    <3>2. [l EXCEPT !.quantity = left] \in OpenLot
      <4>1. [l EXCEPT !.quantity = left] = [lot |-> l.lot, quantity |-> left, cost |-> l.cost]
        BY Relabelled
      <4>2. l.lot \in Seq(Nat) /\ l.cost \in Nat
        BY OpenLotIs
      <4> QED
        BY <4>1, <4>2 DEF OpenLot
    <3>3. cutted = [k \in 1..M |-> cutted[k]]
          /\ \A k \in 1..M : cutted[k] = IF k = 1 THEN [l EXCEPT !.quantity = left] ELSE rest[k]
      BY <2>15, <3>1
    <3>4. \A k \in 1..M : rest[k] \in OpenLot
      BY <2>15, <3>1
    <3> HIDE DEF cutted
    <3>5. \A k \in 1..M : cutted[k] \in OpenLot
      BY <3>2, <3>3, <3>4
    <3> QED
      BY <3>3, <3>5, Listed
  <2> HIDE DEF cutted
  <2>18. Fold(next) = cutted
    BY <2>16, <2>17, FoldIs
  <2>19. Fold(next) = [Rest(lots, whole) EXCEPT ![1].quantity = left]
    BY <2>18 DEF rest, cutted
  <2>20. left \in 1..(lots[whole + 1].quantity - 1) /\ whole \in 0..Len(lots) /\ whole < Len(lots)
    BY <1>3, <1>4, <1>8, <2>8, <2>13
  <2> QED
    BY <2>19, <2>20 DEF SoldFrom
<1> QED
  BY <1>7, <1>8
\* A purchase joins at the end.
LEMMA BoughtInOrder ==
  ASSUME NEW table, Whole(table), NEW at \in Nat, NEW ref \in Nat, Unused(table, OPEN, ref),
         Early(table, at, OPEN), NEW pieces \in Seq(OpenLot), Apart(pieces), Unnamed(pieces, table),
         Len(pieces) <= 10, NEW next, next = Added(table, RowsOf(pieces, at, OPEN, ref))
  PROVE  Fold(next) = Fold(table) \o pieces
<1>1. table \in Tables /\ Sorted(table) /\ OPEN \in Nat
  BY DEF Whole, OPEN
<1>2. Fold(table) \in Seq(OpenLot) /\ Pictures(Fold(table), table, Live(table))
  BY <1>1, FoldPictured
<1>3. Pictures(Fold(table) \o pieces, next, Live(next))
  BY <1>1, <1>2, OpenRun
<1>4. Fold(table) \o pieces \in Seq(OpenLot)
  BY <1>2
<1>5. next \in Tables
  <2>1. \A l \in OpenLot : l \in Lot
    BY DEF OpenLot, Lot
  <2>2. pieces \in Seq(Lot)
    BY <2>1
  <2>3. Made(RowsOf(pieces, at, OPEN, ref), pieces, at, OPEN, ref)
    BY <1>1, <2>2, RowsOfAre
  <2>4. RowsOf(pieces, at, OPEN, ref) \in Seq(Row)
    BY <2>3 DEF Made, Tables
  <2> QED
    BY <1>1, <2>4, AddedIs
<1> QED
  BY <1>3, <1>4, <1>5, FoldIs

\* A split leaves the lots where they stood.
LEMMA SplitInOrder ==
  ASSUME NEW table, Whole(table), NEW at \in Nat, NEW ref \in Nat, Unused(table, SPLIT_OUT, ref),
         NEW lots, lots = Fold(table), Len(lots) <= 10,
         NEW pieces \in Seq(OpenLot), Len(pieces) = Len(lots), Apart(pieces),
         NEW mid, mid = Added(table, RowsOf(Negatives(lots), at, SPLIT_OUT, ref)), Whole(mid),
         Unused(mid, SPLIT_IN, ref), Unnamed(pieces, mid),
         NEW next, next = Added(mid, RowsOf(pieces, at, SPLIT_IN, ref)), next \in Tables
  PROVE  Fold(next) = pieces
<1>1. /\ table \in Tables /\ Sorted(table) /\ SPLIT_OUT \in Nat /\ SPLIT_IN \in Nat
      /\ mid \in Tables /\ Sorted(mid)
  BY DEF Whole, SPLIT_OUT, SPLIT_IN
<1>2. lots \in Seq(OpenLot) /\ Pictures(lots, table, Live(table))
  BY <1>1, FoldPictured
<1>3. PICK N \in Nat : N = Len(lots) /\ DOMAIN lots = 1..N
  <2>1. Len(lots) \in Nat /\ DOMAIN lots = 1..Len(lots)
    BY <1>2
  <2> QED
    BY <2>1
<1>4. /\ Negatives(lots) \in Seq(Lot) /\ DOMAIN Negatives(lots) = 1..N
      /\ \A n \in 1..N : /\ Negatives(lots)[n].lot = lots[n].lot
                         /\ Negatives(lots)[n].quantity = -lots[n].quantity
  BY <1>2, <1>3, NegativesAre
<1>5. Len(Negatives(lots)) = N
  BY <1>4
<1>6. Closes(Negatives(lots), lots)
  BY <1>3, <1>4, <1>5 DEF Closes
<1>7. Pictures(Rest(lots, N), mid, Live(mid))
  BY <1>1, <1>2, <1>4, <1>5, <1>6, CloseRun
<1>8. Rest(lots, N) = << >>
  <2>1. N \in 0..Len(lots)
    BY <1>3
  <2>2. Rest(lots, N) \in Seq(OpenLot) /\ Len(Rest(lots, N)) = Len(lots) - N
    BY <1>2, <2>1, RestIs
  <2>3. Len(Rest(lots, N)) = 0
    BY <1>3, <2>2
  <2> QED
    BY <2>2, <2>3
<1>9. Pictures(<< >>, mid, Live(mid))
  BY <1>7, <1>8
<1>10. Live(mid) = {}
  <2>1. PICK q : Lists(q, Len(<< >>), Live(mid))
    BY <1>9 DEF Pictures
  <2>2. Len(<< >>) = 0
    OBVIOUS
  <2> QED
    BY <2>1, <2>2 DEF Lists
<1>11. Early(mid, at, SPLIT_IN)
  <2> SUFFICES ASSUME NEW x \in ToSet(mid), Units(mid, x.lot) > 0 PROVE FALSE
    BY DEF Early
  <2>1. PICK j \in DOMAIN mid : x = mid[j]
    BY DEF ToSet
  <2>2. PICK k \in Leads(mid) : mid[k].lot = mid[j].lot
    BY <1>1, LeadOf
  <2>3. k \in Live(mid)
    BY <2>1, <2>2 DEF Live
  <2> QED
    BY <1>10, <2>3
<1>12. << >> \in Seq(OpenLot) /\ << >> \o pieces = pieces
  OBVIOUS
<1>13. Len(pieces) <= 10
  OBVIOUS
<1>14. Pictures(<< >> \o pieces, next, Live(next))
  BY <1>1, <1>9, <1>11, <1>12, <1>13, OpenRun
<1>15. Pictures(pieces, next, Live(next))
  BY <1>12, <1>14
<1> QED
  BY <1>15, FoldIs
-----------------------------------------------------------------------------
(* What rows of today leave of the days before. *)

KnownBy(table, at) == /\ table \in Tables /\ Sorted(table)
                      /\ \A x \in ToSet(table) : x.at <= at

\* What was known of a table at an instant does not change by a later row.
LEMMA EarlierPut ==
  ASSUME NEW table \in Tables, NEW row \in Row, NEW m, NEW next, Puts(table, row, m, next),
         NEW instant, ~(row.at <= instant)
  PROVE  AsOf(next, instant) = AsOf(table, instant)
<1> DEFINE K == {k \in DOMAIN table : table[k].at <= instant}
           L == {k \in DOMAIN next : next[k].at <= instant}
           c == Cardinality(K)
           d == Cardinality(L)
           old == Chosen(table, K)
           new == Chosen(next, L)
           p == [i \in 1..c |-> Shift(m, Nth(K, i))]
           q == [i \in 1..d |-> Nth(L, i)]
<1>1. /\ m \in Nat /\ next \in Tables /\ next[m + 1] = row
      /\ \A k \in DOMAIN table : Shift(m, k) \in DOMAIN next /\ next[Shift(m, k)] = table[k]
      /\ \A l \in DOMAIN next : l = m + 1 \/ \E k \in DOMAIN table : l = Shift(m, k)
      /\ \A k, l \in DOMAIN table : k < l => Shift(m, k) < Shift(m, l)
  BY PutIs
<1>2. /\ AsOf(table, instant) = old /\ AsOf(next, instant) = new
      /\ K \in SUBSET DOMAIN table /\ L \in SUBSET DOMAIN next
  BY DEF AsOf, Sift
<1>3. /\ \A k \in K : Shift(m, k) \in L /\ next[Shift(m, k)] = table[k]
      /\ \A l \in L : \E k \in K : l = Shift(m, k)
  BY <1>1
<1> HIDE DEF K, L
<1>4. /\ old \in Seq(Row) /\ c \in Nat /\ Len(old) = c
      /\ \A i \in 1..c : Nth(K, i) \in K /\ old[i] = table[Nth(K, i)]
      /\ \A k \in K : \E i \in 1..c : Nth(K, i) = k
      /\ \A i, j \in 1..c : i < j => Nth(K, i) < Nth(K, j)
  BY <1>2, ChosenIs DEF Tables
<1>5. /\ new \in Seq(Row) /\ d \in Nat /\ Len(new) = d
      /\ \A i \in 1..d : Nth(L, i) \in L /\ new[i] = next[Nth(L, i)]
      /\ \A k \in L : \E i \in 1..d : Nth(L, i) = k
      /\ \A i, j \in 1..d : i < j => Nth(L, i) < Nth(L, j)
  BY <1>1, <1>2, ChosenIs DEF Tables
<1>6. L \in SUBSET Nat
  BY <1>1, <1>2, TableIs
<1> HIDE DEF c, d, old, new
<1>7. Lists(q, d, L)
  BY <1>5, <1>6 DEF Lists
<1>8. Lists(p, c, L)
  <2>1. \A i \in 1..c : p[i] = Shift(m, Nth(K, i))
    OBVIOUS
  <2> HIDE DEF p
  <2>2. \A i \in 1..c : p[i] \in L
    BY <1>3, <1>4, <2>1
  <2>3. \A i, j \in 1..c : i < j => p[i] < p[j]
    BY <1>1, <1>2, <1>4, <2>1
  <2>4. \A l \in L : \E i \in 1..c : p[i] = l
    BY <1>3, <1>4, <2>1
  <2> QED
    BY <1>4, <1>6, <2>2, <2>3, <2>4 DEF Lists
<1>9. c = d /\ \A i \in 1..c : p[i] = q[i]
  <2> HIDE DEF p, q
  <2> QED
    BY <1>7, <1>8, SameOrder
<1>10. ASSUME NEW i \in 1..c PROVE old[i] = new[i]
  <2>1. Nth(L, i) = Shift(m, Nth(K, i))
    BY <1>9
  <2>2. Nth(K, i) \in K /\ old[i] = table[Nth(K, i)]
    BY <1>4
  <2>3. new[i] = next[Nth(L, i)]
    BY <1>5, <1>9
  <2> HIDE DEF p, q
  <2> QED
    BY <1>3, <2>1, <2>2, <2>3
<1>11. old = new
  BY <1>4, <1>5, <1>9, <1>10
<1> QED
  BY <1>2, <1>11

\* Nor by any number of them.
AllAt(new, at) == \A n \in DOMAIN new : new[n].at = at
KeepsBefore(next, table, at) ==
  /\ KnownBy(next, at)
  /\ \A instant \in Int : instant < at => AsOf(next, instant) = AsOf(table, instant)

LEMMA EarlierAdded ==
  ASSUME NEW table, NEW at \in Nat, KnownBy(table, at), NEW added \in Tables, AllAt(added, at)
  PROVE  KeepsBefore(Added(table, added), table, at)
<1> DEFINE Later(new) == \A n \in DOMAIN new : new[n].at = at
           All(new) ==
             /\ KnownBy(Added(table, new), at)
             /\ \A instant \in Int :
                  instant < at => AsOf(Added(table, new), instant) = AsOf(table, instant)
           P == {new \in Tables : Later(new) => All(new)}
<1>0. table \in Tables
  BY DEF KnownBy
<1>1. << >> \in P
  <2>1. << >> \in Tables /\ Added(table, << >>) = table
    BY <1>0, AddedIs DEF Tables
  <2> QED
    BY <2>1
<1>2. ASSUME NEW new \in Seq(Row), NEW row \in Row, new \in P PROVE Append(new, row) \in P
  <2> DEFINE more == Append(new, row)
             before == Added(table, new)
             after == Insert(before, row)
  <2>1. more \in Tables /\ Added(table, more) = after
    BY <1>0, AddedIs DEF Tables
  <2> SUFFICES ASSUME Later(more) PROVE All(more)
    BY <2>1
  <2>2. Later(new) /\ row.at = at
    <3>1. /\ \A n \in DOMAIN new : n \in DOMAIN more /\ more[n] = new[n]
          /\ Len(new) + 1 \in DOMAIN more /\ more[Len(new) + 1] = row
      OBVIOUS
    <3> HIDE DEF more
    <3> QED
      BY <3>1
  <2>3. All(new)
    BY <1>2, <2>2
  <2> HIDE DEF before, after, P, more
  <2>4. before \in Tables /\ Sorted(before) /\ \A x \in ToSet(before) : x.at <= at
    BY <2>3 DEF KnownBy, before
  <2>5. CASE \E k \in DOMAIN before : before[k] = row
    <3>1. after = before
      <4>1. DOMAIN before = 1..Len(before)
        BY <2>4, TableIs
      <4> QED
        BY <2>5, <4>1 DEF after, Insert, Contains
    <3> QED
      BY <2>1, <2>3, <3>1 DEF before
  <2>6. CASE \A k \in DOMAIN before : before[k] # row
    <3>1. PICK m : Puts(before, row, m, after)
      BY <2>4, <2>6, InsertPuts DEF after
    <3>2. Sorted(after) /\ after \in Tables
      BY <2>4, <2>6, <3>1, InsertPuts DEF after, Puts
    <3>3. ToSet(after) = ToSet(before) \cup {row}
      BY <2>4, <3>1, PutSet
    <3>4. KnownBy(after, at)
      BY <2>2, <2>4, <3>2, <3>3 DEF KnownBy
    <3>5. ASSUME NEW instant \in Int, instant < at
          PROVE  AsOf(after, instant) = AsOf(before, instant)
      <4>1. ~(row.at <= instant)
        BY <2>2, <3>5
      <4> QED
        BY <2>4, <3>1, <4>1, EarlierPut
    <3> QED
      BY <2>1, <2>3, <3>4, <3>5 DEF before
  <2> QED
    BY <2>5, <2>6
<1>3. \A new \in Seq(Row) : new \in P
  <2> HIDE DEF P
  <2> QED
    BY <1>1, <1>2, ListInduct
<1>4. added \in P /\ Later(added)
  BY <1>3 DEF Tables, AllAt
<1> QED
  BY <1>4 DEF KeepsBefore

\* All of a table is known at the instant of its last row, and after it.
LEMMA KnownOpen ==
  ASSUME NEW table, NEW at \in Int, KnownBy(table, at)
  PROVE  open_lots(table, at) = Fold(table)
<1>1. table \in Tables /\ \A k \in DOMAIN table : table[k] \in ToSet(table)
  BY TableIs DEF ToSet, KnownBy
<1>2. \A k \in DOMAIN table : table[k].at <= at
  BY <1>1 DEF KnownBy
<1> QED
  BY <1>1, <1>2, AsOfAll

-----------------------------------------------------------------------------
(* A table that tells which purchases, sales and splits made it.             *)

(* A lot is named by the purchase that opened it and the splits that         *)
(* re-denominated it since.                                                  *)
NamedBy(lot, bought, split) ==
  lot # << >> /\ lot[1] \in bought /\ \A n \in 2..Len(lot) : lot[n] \in split
MadeBy(row, at, bought, sold, split) ==
  /\ row.at <= at
  /\ row.rank = OPEN => row.ref \in bought
  /\ row.rank = CLOSE => row.ref \in sold
  /\ row.rank \in {SPLIT_OUT, SPLIT_IN} => row.ref \in split
  /\ NamedBy(row.lot, bought, split)
Traced(table, at, bought, sold, split) ==
  Whole(table) /\ \A x \in ToSet(table) : MadeBy(x, at, bought, sold, split)

LEMMA TracedIs ==
  ASSUME NEW table, NEW at, NEW bought, NEW sold, NEW split,
         Traced(table, at, bought, sold, split), NEW lots, lots = Fold(table)
  PROVE  /\ Whole(table) /\ table \in Tables /\ lots \in Seq(OpenLot)
         /\ \A x \in ToSet(table) : x.at <= at
         /\ \A ref : ref \notin bought => /\ Unused(table, OPEN, ref)
                                          /\ \A x \in ToSet(table) : x.lot # <<ref>>
         /\ \A ref : ref \notin sold => Unused(table, CLOSE, ref)
         /\ \A ref : ref \notin split => Unused(table, SPLIT_OUT, ref) /\ Unused(table, SPLIT_IN, ref)
         /\ \A n \in DOMAIN lots : lots[n].lot \in Seq(Nat) /\ NamedBy(lots[n].lot, bought, split)
<1>1. Whole(table) /\ table \in Tables
  BY DEF Traced, Whole
<1>2. \A x \in ToSet(table) : MadeBy(x, at, bought, sold, split)
  BY DEF Traced
<1>3. \A ref : <<ref>>[1] = ref
  OBVIOUS
<1>4. \A ref : ref \notin bought => /\ Unused(table, OPEN, ref)
                                    /\ \A x \in ToSet(table) : x.lot # <<ref>>
  BY <1>2, <1>3 DEF Unused, MadeBy, NamedBy
<1>5. \A ref : ref \notin sold => Unused(table, CLOSE, ref)
  BY <1>2 DEF Unused, MadeBy
<1>6. \A ref : ref \notin split => Unused(table, SPLIT_OUT, ref) /\ Unused(table, SPLIT_IN, ref)
  BY <1>2 DEF Unused, MadeBy
<1>7. /\ lots \in Seq(OpenLot)
      /\ \A n \in DOMAIN lots : /\ lots[n].lot \in Seq(Nat)
                                /\ \E x \in ToSet(table) : x.lot = lots[n].lot
  BY <1>1, OpenFacts
<1>8. \A n \in DOMAIN lots : NamedBy(lots[n].lot, bought, split)
  BY <1>2, <1>7 DEF MadeBy
<1>9. \A x \in ToSet(table) : x.at <= at
  BY <1>2 DEF MadeBy
<1> QED
  BY <1>1, <1>4, <1>5, <1>6, <1>7, <1>8, <1>9

LEMMA NoneTraced ==
  ASSUME NEW at, NEW bought, NEW sold, NEW split
  PROVE  Traced(<< >>, at, bought, sold, split) /\ CostBasis(Fold(<< >>)) = 0
<1>1. Whole(<< >>) /\ ToSet(<< >>) = {} /\ CostBasis(Fold(<< >>)) = 0
  <2>1. << >> \in Tables /\ DOMAIN << >> = {}
    BY DEF Tables
  <2>2. \A a : Units(<< >>, a) = 0
    BY <2>1, NoUnits
  <2>3. Sorted(<< >>) /\ CostsAgree(<< >>) /\ ToSet(<< >>) = {}
    BY <2>1 DEF Sorted, CostsAgree, ToSet
  <2>4. \A a : Units(<< >>, a) >= 0
    BY <2>2
  <2>5. CostBasis(Fold(<< >>)) = Worth(<< >>)
    BY <2>1, <2>3, <2>4, FoldWorth
  <2>6. Worth(<< >>) = 0
    BY WeightsAre, SumOfAdds DEF Worth
  <2> QED
    BY <2>1, <2>3, <2>4, <2>5, <2>6 DEF Whole
<1> QED
  BY <1>1 DEF Traced

\* What is traced stays so while time passes and more is bought, sold and split.
LEMMA TracedMore ==
  ASSUME NEW table, NEW at \in Nat, NEW bought, NEW sold, NEW split,
         Traced(table, at, bought, sold, split),
         NEW later \in Nat, at <= later, NEW moreBought, bought \subseteq moreBought,
         NEW moreSold, sold \subseteq moreSold, NEW moreSplit, split \subseteq moreSplit
  PROVE  Traced(table, later, moreBought, moreSold, moreSplit)
<1>1. table \in Tables
  BY DEF Traced, Whole
<1>2. \A x \in ToSet(table) : x.at \in Nat
  <2>1. \A x \in ToSet(table) : \E k \in DOMAIN table : x = table[k]
    BY DEF ToSet
  <2> QED
    BY <1>1, <2>1, TableIs
<1>3. ASSUME NEW x \in ToSet(table) PROVE MadeBy(x, later, moreBought, moreSold, moreSplit)
  <2>1. MadeBy(x, at, bought, sold, split)
    BY DEF Traced
  <2>2. x.at <= later
    BY <1>2, <2>1 DEF MadeBy
  <2> QED
    BY <2>1, <2>2 DEF MadeBy, NamedBy
<1> QED
  BY <1>3 DEF Traced

\* So do rows that are entered in a name that is.
LEMMA EnteredTraced ==
  ASSUME NEW table, NEW at \in Nat, NEW bought, NEW sold, NEW split,
         \A x \in ToSet(table) : MadeBy(x, at, bought, sold, split),
         NEW next, NEW new, NEW pieces, NEW rank, NEW ref,
         Entered(next, table, new, pieces, at, rank, ref),
         rank = OPEN => ref \in bought, rank = CLOSE => ref \in sold,
         rank \in {SPLIT_OUT, SPLIT_IN} => ref \in split,
         \A n \in DOMAIN pieces : NamedBy(pieces[n].lot, bought, split)
  PROVE  Traced(next, at, bought, sold, split)
<1>1. /\ Whole(next) /\ ToSet(next) = ToSet(table) \cup ToSet(new)
      /\ Made(new, pieces, at, rank, ref)
  BY DEF Entered
<1>2. /\ DOMAIN new = DOMAIN pieces
      /\ \A n \in DOMAIN pieces : /\ new[n].lot = pieces[n].lot /\ new[n].at = at
                                  /\ new[n].rank = rank /\ new[n].ref = ref
  BY <1>1 DEF Made
<1>3. \A x \in ToSet(new) : \E n \in DOMAIN pieces : x = new[n]
  BY <1>2 DEF ToSet
<1>4. \A x \in ToSet(new) : MadeBy(x, at, bought, sold, split)
  <2>1. at <= at
    OBVIOUS
  <2> QED
    BY <1>2, <1>3, <2>1 DEF MadeBy
<1> QED
  BY <1>1, <1>4 DEF Traced

\* What the lots of a table cost more than those of another.
Gains(next, table, amount) == CostBasis(Fold(next)) = CostBasis(Fold(table)) + amount

\* A purchase of its own adds what it paid.
LEMMA BuyTraced ==
  ASSUME NEW table, NEW at \in Nat, NEW bought, NEW sold, NEW split,
         Traced(table, at, bought, sold, split),
         NEW ref \in Nat, ref \notin bought, NEW quantity \in Nat \ {0}, NEW cost \in Nat,
         NEW worth, worth = quantity * cost,
         NEW next, next = open_lot(table, quantity, cost, at, ref)
  PROVE  /\ Traced(next, at, bought \cup {ref}, sold, split)
         /\ Gains(next, table, worth)
<1> DEFINE pieces == <<[lot |-> <<ref>>, quantity |-> quantity, cost |-> cost]>>
           new == RowsOf(pieces, at, OPEN, ref)
<1>1. /\ Whole(table) /\ \A x \in ToSet(table) : x.at <= at
      /\ Unused(table, OPEN, ref) /\ \A x \in ToSet(table) : x.lot # <<ref>>
  BY TracedIs
<1>2. DOMAIN pieces = 1..1 /\ pieces[1].lot = <<ref>>
  OBVIOUS
<1> HIDE DEF pieces
<1>3. OpenedAs(next, table, new, pieces, at, ref, quantity * cost)
  BY <1>1, Opened DEF pieces
<1> HIDE DEF new
<1>4. /\ Entered(next, table, new, pieces, at, OPEN, ref)
      /\ CostBasis(pieces) = quantity * cost
  BY <1>3 DEF OpenedAs
<1>5. \A n \in DOMAIN pieces : NamedBy(pieces[n].lot, bought \cup {ref}, split)
  <2>1. NamedBy(<<ref>>, bought \cup {ref}, split)
    BY DEF NamedBy
  <2> QED
    BY <1>2, <2>1
<1>6. \A x \in ToSet(table) : MadeBy(x, at, bought \cup {ref}, sold, split)
  BY TracedMore DEF Traced
<1>7. OPEN # CLOSE /\ OPEN \notin {SPLIT_OUT, SPLIT_IN}
  BY DEF OPEN, CLOSE, SPLIT_OUT, SPLIT_IN
<1>8. Traced(next, at, bought \cup {ref}, sold, split)
  BY <1>4, <1>5, <1>6, <1>7, EnteredTraced
<1> QED
  BY <1>4, <1>8 DEF Entered, Gains

\* A sale of its own takes out what was paid for the lots it takes.
LEMMA SellTraced ==
  ASSUME NEW table, NEW at \in Nat, NEW bought, NEW sold, NEW split,
         Traced(table, at, bought, sold, split),
         NEW ref \in Nat, ref \notin sold, NEW quantity \in Nat,
         NEW next, next = close_quantity(table, quantity, at, ref),
         NEW taken, taken = Consumed(open_lots(table, at), quantity)
  PROVE  /\ Traced(next, at, bought, sold \cup {ref}, split)
         /\ CostBasis(taken) \in Int /\ Gains(next, table, -CostBasis(taken))
<1> DEFINE lots == Fold(table)
           pieces == Negatives(taken)
           new == RowsOf(pieces, at, CLOSE, ref)
<1>1. /\ Whole(table) /\ table \in Tables /\ \A x \in ToSet(table) : x.at <= at
      /\ lots \in Seq(OpenLot) /\ Unused(table, CLOSE, ref)
      /\ \A n \in DOMAIN lots : NamedBy(lots[n].lot, bought, split)
  BY TracedIs
<1>2. taken = Consumed(lots, quantity)
  BY <1>1, OperationsAre
<1>3. /\ Entered(next, table, new, pieces, at, CLOSE, ref)
      /\ taken \in Seq(OpenLot) /\ GivesFront(taken, lots)
      /\ CostBasis(pieces) = -CostBasis(taken)
  BY <1>1, <1>2, Sold
<1>4. /\ DOMAIN pieces = DOMAIN taken
      /\ \A n \in DOMAIN taken : pieces[n].lot = taken[n].lot
  BY <1>3, NegativesAre
<1> HIDE DEF lots, pieces, new
<1>5. \A n \in DOMAIN taken : n \in DOMAIN lots /\ taken[n].lot = lots[n].lot
  BY <1>1, <1>3, FrontIs
<1>6. \A n \in DOMAIN pieces : NamedBy(pieces[n].lot, bought, split)
  BY <1>1, <1>4, <1>5
<1>7. \A x \in ToSet(table) : MadeBy(x, at, bought, sold \cup {ref}, split)
  BY TracedMore DEF Traced
<1>8. OPEN # CLOSE /\ CLOSE \notin {SPLIT_OUT, SPLIT_IN}
  BY DEF OPEN, CLOSE, SPLIT_OUT, SPLIT_IN
<1>9. Traced(next, at, bought, sold \cup {ref}, split)
  BY <1>3, <1>6, <1>7, <1>8, EnteredTraced
<1>10. CostBasis(taken) \in Int /\ CostBasis(lots) \in Int
  BY <1>1, <1>3, NegativesBasis
<1>11. CostBasis(Fold(next)) = CostBasis(lots) + CostBasis(pieces)
  BY <1>3 DEF Entered, lots
<1>12. Gains(next, table, -CostBasis(taken))
  BY <1>3, <1>11 DEF lots, Gains
<1> QED
  BY <1>9, <1>10, <1>12

\* A split of its own that comes out even changes nothing of what was paid.
LEMMA SplitTraced ==
  ASSUME NEW table, NEW at \in Nat, NEW bought, NEW sold, NEW split,
         Traced(table, at, bought, sold, split),
         NEW ref \in Nat, ref \notin split, NEW num \in Nat \ {0}, NEW den \in Nat \ {0},
         Evenly(open_lots(table, at), num, den),
         NEW next, next = apply_split(table, num, den, at, ref)
  PROVE  /\ Traced(next, at, bought, sold, split \cup {ref})
         /\ CostBasis(Fold(next)) = CostBasis(Fold(table))
<1> DEFINE lots == Fold(table)
           pieces == Reopened(lots, num, den, ref)
           out == RowsOf(Negatives(lots), at, SPLIT_OUT, ref)
           mid == Added(table, out)
           in == RowsOf(pieces, at, SPLIT_IN, ref)
<1>1. /\ Whole(table) /\ table \in Tables /\ \A x \in ToSet(table) : x.at <= at
      /\ lots \in Seq(OpenLot) /\ Unused(table, SPLIT_OUT, ref) /\ Unused(table, SPLIT_IN, ref)
      /\ \A n \in DOMAIN lots : lots[n].lot \in Seq(Nat) /\ NamedBy(lots[n].lot, bought, split)
  BY TracedIs
<1>2. Evenly(lots, num, den)
  BY <1>1, OperationsAre
<1>3. /\ pieces \in Seq(OpenLot) /\ DOMAIN pieces = DOMAIN lots
      /\ \A n \in DOMAIN lots : pieces[n].lot = Append(lots[n].lot, ref)
  <2>1. pieces = Reopened(lots, num, den, ref)
    OBVIOUS
  <2> HIDE DEF lots, pieces
  <2> QED
    BY <1>1, <1>2, <2>1, SplitPieces
<1>4. \A a \in Seq(Nat) : NamedBy(a, bought, split) =>
        /\ NamedBy(Append(a, ref), bought, split \cup {ref})
        /\ ~ NamedBy(Append(a, ref), bought, split)
        /\ NamedBy(a, bought, split \cup {ref})
  <2> SUFFICES ASSUME NEW a \in Seq(Nat), NamedBy(a, bought, split)
               PROVE  /\ NamedBy(Append(a, ref), bought, split \cup {ref})
                      /\ ~ NamedBy(Append(a, ref), bought, split)
                      /\ NamedBy(a, bought, split \cup {ref})
    OBVIOUS
  <2>1. PICK m \in Nat : m = Len(a)
    OBVIOUS
  <2>2. m >= 1
    <3>1. a # << >>
      BY DEF NamedBy
    <3> QED
      BY <2>1, <3>1
  <2> DEFINE b == Append(a, ref)
  <2>3. /\ Len(b) = m + 1 /\ b[m + 1] = ref /\ b # << >>
        /\ \A k \in 1..m : b[k] = a[k]
    BY <2>1
  <2> HIDE DEF b
  <2>4. b[1] = a[1] /\ \A k \in 2..(m + 1) : b[k] = ref \/ (k \in 2..m /\ b[k] = a[k])
    BY <2>2, <2>3
  <2>5. m + 1 \in 2..(m + 1)
    BY <2>2
  <2> QED
    BY <2>1, <2>3, <2>4, <2>5 DEF NamedBy, b
<1> HIDE DEF lots, pieces
<1>5. Unnamed(pieces, table)
  <2> SUFFICES ASSUME NEW n \in DOMAIN pieces, NEW x \in ToSet(table) PROVE x.lot # pieces[n].lot
    BY DEF Unnamed
  <2>1. NamedBy(x.lot, bought, split)
    BY DEF Traced, MadeBy
  <2> QED
    BY <1>1, <1>3, <1>4, <2>1
<1>6. /\ Entered(mid, table, out, Negatives(lots), at, SPLIT_OUT, ref)
      /\ Entered(next, mid, in, pieces, at, SPLIT_IN, ref)
      /\ CostBasis(Fold(next)) = CostBasis(lots)
  BY <1>1, <1>2, <1>5, SplitDone DEF lots, pieces
<1> HIDE DEF mid, out, in
<1>7. /\ OPEN # SPLIT_OUT /\ OPEN # SPLIT_IN /\ CLOSE # SPLIT_OUT /\ CLOSE # SPLIT_IN
  BY DEF OPEN, CLOSE, SPLIT_OUT, SPLIT_IN
<1>8. \A x \in ToSet(table) : MadeBy(x, at, bought, sold, split \cup {ref})
  BY TracedMore DEF Traced
<1>9. \A n \in DOMAIN Negatives(lots) : NamedBy(Negatives(lots)[n].lot, bought, split \cup {ref})
  BY <1>1, <1>4, NegativesAre
<1>10. Traced(mid, at, bought, sold, split \cup {ref})
  BY <1>6, <1>7, <1>8, <1>9, EnteredTraced
<1>11. \A x \in ToSet(mid) : MadeBy(x, at, bought, sold, split \cup {ref})
  BY <1>10 DEF Traced
<1>12. \A n \in DOMAIN pieces : NamedBy(pieces[n].lot, bought, split \cup {ref})
  BY <1>1, <1>3, <1>4
<1>13. Traced(next, at, bought, sold, split \cup {ref})
  BY <1>6, <1>7, <1>11, <1>12, EnteredTraced
<1> QED
  BY <1>6, <1>13 DEF lots

-----------------------------------------------------------------------------
(* A position every one of whose rows is of the past, made by earlier calls. *)

Dated(table, at) == \A x \in ToSet(table) : x.at \in 1..at /\ x.rank \in 1..4
Before(lot, n) == \A j \in DOMAIN lot : lot[j] < n
Fresh(table, n) == \A x \in ToSet(table) : x.ref < n /\ Before(x.lot, n)
Sound(table, at) == Whole(table) /\ Dated(table, at) /\ Fresh(table, Len(table))

\* What no earlier call made has no name yet.
LEMMA FreshRef ==
  ASSUME NEW table \in Tables, NEW n \in Nat, Fresh(table, n)
  PROVE  /\ \A rank : Unused(table, rank, n)
         /\ \A x \in ToSet(table) : x.lot # <<n>>
         /\ \A x \in ToSet(table) : \A a \in Seq(Nat) : x.lot # Append(a, n)
<1>1. \A x \in ToSet(table) : x.ref # n
  <2>1. \A x \in ToSet(table) : x.ref < n
    BY DEF Fresh
  <2>2. \A x \in ToSet(table) : x.ref \in Nat
    <3>1. \A x \in ToSet(table) : \E k \in DOMAIN table : x = table[k]
      BY DEF ToSet
    <3> QED
      BY <3>1, TableIs
  <2> QED
    BY <2>1, <2>2
<1>2. \A lot : Before(lot, n) => lot # <<n>>
  <2>1. DOMAIN <<n>> = 1..1 /\ <<n>>[1] = n /\ ~(n < n)
    OBVIOUS
  <2> QED
    BY <2>1 DEF Before
<1>3. ASSUME NEW lot, Before(lot, n), NEW a \in Seq(Nat) PROVE lot # Append(a, n)
  <2>1. PICK m \in Nat : m = Len(a)
    OBVIOUS
  <2>2. /\ Append(a, n)[m + 1] = n /\ DOMAIN Append(a, n) = 1..(m + 1)
        /\ m + 1 \in 1..(m + 1) /\ ~(n < n)
    BY <2>1
  <2> QED
    BY <1>3, <2>2 DEF Before
<1>4. \A x \in ToSet(table) : Before(x.lot, n)
  BY DEF Fresh
<1> QED
  BY <1>1, <1>2, <1>3, <1>4 DEF Unused

\* Rows of today made by this call leave it so.
LEMMA StaysSound ==
  ASSUME NEW next, NEW table, NEW new, NEW pieces \in Seq(Lot), NEW at \in Nat \ {0},
         NEW rank \in 1..4, NEW ref, NEW n \in Nat, NEW k \in Nat, n <= k,
         Entered(next, table, new, pieces, at, rank, ref), table \in Tables,
         Dated(table, at), Fresh(table, n), pieces # << >> => ref < k,
         \A i \in DOMAIN pieces : Before(pieces[i].lot, k)
  PROVE  Dated(next, at) /\ Fresh(next, k)
<1>1. ToSet(next) = ToSet(table) \cup ToSet(new) /\ Made(new, pieces, at, rank, ref)
  BY DEF Entered
<1>2. /\ DOMAIN new = DOMAIN pieces
      /\ \A i \in DOMAIN pieces : /\ new[i].at = at /\ new[i].rank = rank /\ new[i].ref = ref
                                  /\ new[i].lot = pieces[i].lot
  BY <1>1 DEF Made
<1>3. \A i \in DOMAIN pieces : pieces # << >>
  OBVIOUS
<1>4. \A x \in ToSet(new) : /\ x.at = at /\ x.rank = rank /\ x.ref < k /\ Before(x.lot, k)
  <2>1. \A x \in ToSet(new) : \E i \in DOMAIN pieces : x = new[i]
    BY <1>2 DEF ToSet
  <2> QED
    BY <1>2, <1>3, <2>1
<1>5. \A x \in ToSet(table) : /\ x.at \in 1..at /\ x.rank \in 1..4 /\ x.ref < k /\ Before(x.lot, k)
  <2>1. \A x \in ToSet(table) : x.at \in 1..at /\ x.rank \in 1..4
    BY DEF Dated
  <2>2. \A x \in ToSet(table) : x.ref \in Nat /\ x.lot \in Seq(Nat)
    <3>1. \A x \in ToSet(table) : \E l \in DOMAIN table : x = table[l]
      BY DEF ToSet
    <3> QED
      BY <3>1, TableIs
  <2>3. ASSUME NEW x \in ToSet(table) PROVE x.ref < k
    <3>1. x.ref < n
      BY DEF Fresh
    <3> QED
      BY <2>2, <3>1
  <2>4. ASSUME NEW x \in ToSet(table) PROVE Before(x.lot, k)
    <3>1. PICK a \in Seq(Nat) : a = x.lot
      BY <2>2
    <3>2. Before(a, n)
      BY <3>1 DEF Fresh
    <3>3. \A j \in DOMAIN a : a[j] \in Nat
      OBVIOUS
    <3>4. Before(a, k)
      BY <3>2, <3>3 DEF Before
    <3> QED
      BY <3>1, <3>4
  <2> QED
    BY <2>1, <2>3, <2>4
<1>6. at \in 1..at
  OBVIOUS
<1> QED
  BY <1>1, <1>4, <1>5, <1>6 DEF Dated, Fresh

\* What is open is what its rows leave, and its lots have the names in its rows.
LEMMA SoundIs ==
  ASSUME NEW table, NEW at \in Nat \ {0}, Sound(table, at), NEW lots, lots = Fold(table)
  PROVE  /\ table \in Tables /\ Len(table) \in Nat /\ \A x \in ToSet(table) : x.at <= at
         /\ open_lots(table, at) = lots /\ lots \in Seq(OpenLot) /\ Apart(lots)
         /\ \A n \in DOMAIN lots : Before(lots[n].lot, Len(table)) /\ lots[n].lot \in Seq(Nat)
         /\ \A rank : Unused(table, rank, Len(table))
         /\ \A num, den : Unnamed(Reopened(lots, num, den, Len(table)), table)
<1>1. /\ table \in Tables /\ Dated(table, at) /\ Fresh(table, Len(table)) /\ Len(table) \in Nat
  BY TableIs DEF Sound, Whole
<1>2. \A x \in ToSet(table) : x.at <= at
  BY <1>1 DEF Dated
<1>3. open_lots(table, at) = lots
  BY <1>1, <1>2, OperationsAre
<1>4. /\ lots \in Seq(OpenLot) /\ \A n \in DOMAIN lots : lots[n].lot \in Seq(Nat)
      /\ \A n \in DOMAIN lots : \E x \in ToSet(table) : x.lot = lots[n].lot
      /\ \A i, j \in DOMAIN lots : i # j => lots[i].lot # lots[j].lot
  BY <1>1, OpenFacts
<1>5. \A n \in DOMAIN lots : Before(lots[n].lot, Len(table))
  BY <1>1, <1>4 DEF Fresh
<1>6. Apart(lots)
  BY <1>4 DEF Apart
<1>7. \A rank : Unused(table, rank, Len(table))
  BY <1>1, FreshRef
<1>8. ASSUME NEW num, NEW den PROVE Unnamed(Reopened(lots, num, den, Len(table)), table)
  <2> DEFINE pieces == Reopened(lots, num, den, Len(table))
  <2>1. DOMAIN pieces = DOMAIN lots
        /\ \A n \in DOMAIN lots : pieces[n].lot = Append(lots[n].lot, Len(table))
    BY DEF Reopened, SplitLot
  <2>2. \A x \in ToSet(table) : \A a \in Seq(Nat) : x.lot # Append(a, Len(table))
    BY <1>1, FreshRef
  <2> HIDE DEF pieces
  <2>3. ASSUME NEW n \in DOMAIN pieces, NEW x \in ToSet(table) PROVE x.lot # pieces[n].lot
    <3>1. PICK a \in Seq(Nat) : a = lots[n].lot
      BY <1>4, <2>1
    <3>2. pieces[n].lot = Append(a, Len(table))
      BY <2>1, <3>1
    <3>3. x.lot # Append(a, Len(table))
      BY <2>2
    <3> QED
      BY <3>2, <3>3
  <2>4. Unnamed(pieces, table)
    BY <2>3 DEF Unnamed
  <2> QED
    BY <2>4 DEF pieces
<1> QED
  BY <1>1, <1>2, <1>3, <1>4, <1>5, <1>6, <1>7, <1>8
(* No call made more than ten rows, so that their text follows their numbers. *)
Narrow(table) == \A x \in ToSet(table) : x.index \in Single /\ (x.rank = OPEN => x.index = 0)

LEMMA StaysNarrow ==
  ASSUME NEW next, NEW table, NEW new, NEW pieces \in Seq(Lot), NEW at, NEW rank, NEW ref,
         Entered(next, table, new, pieces, at, rank, ref), Narrow(table),
         Len(pieces) <= 10, rank = OPEN => Len(pieces) <= 1
  PROVE  Narrow(next)
<1>1. ToSet(next) = ToSet(table) \cup ToSet(new) /\ Made(new, pieces, at, rank, ref)
  BY DEF Entered
<1>2. PICK N \in Nat : N = Len(pieces) /\ DOMAIN pieces = 1..N
  BY <1>1 DEF Made
<1>3. DOMAIN new = 1..N /\ \A i \in 1..N : new[i].index = i - 1 /\ new[i].rank = rank
  BY <1>1, <1>2 DEF Made
<1>4. \A i \in 1..N : i - 1 \in Single /\ (rank = OPEN => i - 1 = 0)
  <2>1. N <= 10 /\ (rank = OPEN => N <= 1)
    BY <1>2
  <2>2. \A i \in 1..N : i - 1 \in 0..9
    <3>1. \A i \in 1..N : i - 1 >= 0 /\ i - 1 <= 9 /\ i - 1 \in Int
      BY <2>1
    <3> QED
      BY <3>1
  <2>3. rank = OPEN => \A i \in 1..N : i - 1 = 0
    BY <2>1
  <2> QED
    BY <2>2, <2>3 DEF Single
<1>5. \A x \in ToSet(new) : x.index \in Single /\ (x.rank = OPEN => x.index = 0)
  <2>1. \A x \in ToSet(new) : \E i \in 1..N : x = new[i]
    BY <1>3 DEF ToSet
  <2> QED
    BY <1>3, <1>4, <2>1
<1>6. \A x \in ToSet(table) : x.index \in Single /\ (x.rank = OPEN => x.index = 0)
  BY DEF Narrow
<1> QED
  BY <1>1, <1>5, <1>6 DEF Narrow

\* No row of such a position is due after a purchase of the same instant.
LEMMA EarlyEnough ==
  ASSUME NEW table \in Tables, NEW at \in Nat \ {0}, Dated(table, at), Narrow(table)
  PROVE  Early(table, at, OPEN)
<1> SUFFICES ASSUME NEW x \in ToSet(table) PROVE Key(x) <= FirstKey(at, OPEN)
  BY DEF Early
<1>1. x \in Row
  <2>1. PICK k \in DOMAIN table : x = table[k]
    BY DEF ToSet
  <2> QED
    BY <2>1, TableIs
<1>2. /\ x.at \in 1..at /\ x.rank \in 1..4 /\ x.index \in Single
      /\ x.rank = OPEN => x.index = 0
  BY DEF Dated, Narrow
<1>3. Key(x) = KeyAt(x.at, x.rank, x.index)
  <2>1. x.at \in Nat /\ x.rank \in Nat
    BY <1>2
  <2> QED
    BY <1>1, <1>2, <2>1, KeysInOrder
<1>4. KeyAt(x.at, x.rank, x.index) <= FirstKey(at, OPEN)
  <2>1. PICK a \in 1..at, r \in 1..4, i \in 0..9 : a = x.at /\ r = x.rank /\ i = x.index /\ (r = 4 => i = 0)
    BY <1>2 DEF Single, OPEN
  <2>2. (a * 5 + r) * 1000 + 11 * i <= (at * 5 + 4) * 1000
    <3>1. a \in Nat /\ a <= at
      OBVIOUS
    <3>2. CASE r = 4
      BY <2>1, <3>1, <3>2
    <3>3. CASE r <= 3
      BY <3>1, <3>3
    <3> QED
      BY <3>2, <3>3
  <2> QED
    BY <2>1, <2>2 DEF KeyAt, FirstKey, OPEN
<1> QED
  BY <1>3, <1>4

\* A purchase.
LEMMA BuyTable ==
  ASSUME NEW table, NEW at \in Nat \ {0}, Sound(table, at), NEW quantity \in Nat \ {0}, NEW cost \in Nat,
         NEW ref, ref = Len(table), NEW next, next = open_lot(table, quantity, cost, at, ref)
  PROVE  /\ Sound(next, at) /\ open_lots(next, at) = Fold(next)
         /\ Narrow(table) => /\ Narrow(next)
                             /\ Fold(next) = Append(Fold(table), [lot |-> <<ref>>, quantity |-> quantity,
                                                                  cost |-> cost])
<1>1. Whole(table) /\ Dated(table, at) /\ Fresh(table, ref) /\ ref \in Nat /\ table \in Tables
  BY SoundIs DEF Sound
<1>2. /\ \A x \in ToSet(table) : x.at <= at /\ x.lot # <<ref>>
      /\ Unused(table, OPEN, ref)
  BY <1>1, SoundIs, FreshRef
<1> DEFINE x == [lot |-> <<ref>>, quantity |-> quantity, cost |-> cost]
           pieces == <<x>>
           new == RowsOf(pieces, at, OPEN, ref)
<1>3. /\ Entered(next, table, new, pieces, at, OPEN, ref) /\ next = Added(table, new)
      /\ pieces \in Seq(OpenLot) /\ Apart(pieces) /\ Unnamed(pieces, table)
  <2>1. \A y \in ToSet(table) : y.at <= at
    BY <1>2
  <2>2. \A y \in ToSet(table) : y.lot # <<ref>>
    BY <1>2
  <2> QED
    <3>1. /\ pieces = <<[lot |-> <<ref>>, quantity |-> quantity, cost |-> cost]>>
          /\ new = RowsOf(pieces, at, OPEN, ref)
      OBVIOUS
    <3> HIDE DEF pieces, new, x
    <3>2. OpenedAs(next, table, new, pieces, at, ref, quantity * cost)
      BY <1>1, <1>2, <2>1, <2>2, <3>1, Opened
    <3> QED
      BY <3>2 DEF OpenedAs
<1>4. /\ pieces \in Seq(Lot) /\ Len(pieces) = 1 /\ DOMAIN pieces = 1..1
      /\ \A i \in DOMAIN pieces : Before(pieces[i].lot, ref + 1)
  <2>1. \A l \in OpenLot : l \in Lot
    BY DEF OpenLot, Lot
  <2>2. pieces \in Seq(Lot)
    BY <1>3, <2>1
  <2>3. \A i \in DOMAIN pieces : pieces[i].lot = <<ref>>
    OBVIOUS
  <2>4. Before(<<ref>>, ref + 1)
    <3>1. DOMAIN <<ref>> = 1..1 /\ <<ref>>[1] = ref /\ ref < ref + 1
      BY <1>1
    <3> QED
      BY <3>1 DEF Before
  <2> QED
    BY <2>2, <2>3, <2>4
<1> HIDE DEF new, pieces, x
<1>5. Len(next) = ref + 1 /\ Whole(next)
  BY <1>3, <1>4 DEF Entered
<1>6. Dated(next, at) /\ Fresh(next, ref + 1)
  <2>1. OPEN \in 1..4 /\ ref + 1 \in Nat /\ ref <= ref + 1 /\ ref < ref + 1
    BY <1>1 DEF OPEN
  <2> QED
    BY <1>1, <1>3, <1>4, <2>1, StaysSound
<1>7. Sound(next, at)
  BY <1>5, <1>6 DEF Sound
<1>8. open_lots(next, at) = Fold(next)
  BY <1>7, SoundIs
<1>9. ASSUME Narrow(table) PROVE Narrow(next)
  <2>1. Len(pieces) <= 10 /\ Len(pieces) <= 1
    BY <1>4
  <2> QED
    BY <1>3, <1>4, <1>9, <2>1, StaysNarrow
<1>10. ASSUME Narrow(table) PROVE Fold(next) = Append(Fold(table), x)
  <2>1. Early(table, at, OPEN) /\ Len(pieces) <= 10
    BY <1>1, <1>4, <1>10, EarlyEnough
  <2>2. Fold(next) = Fold(table) \o pieces
    BY <1>1, <1>2, <1>3, <2>1, BoughtInOrder DEF new
  <2>3. Fold(table) \in Seq(OpenLot) /\ x \in OpenLot
    <3>1. pieces[1] \in OpenLot
      <4>1. 1 \in 1..1
        OBVIOUS
      <4>2. \A i \in DOMAIN pieces : pieces[i] \in OpenLot
        BY <1>3
      <4> QED
        BY <1>4, <4>1, <4>2
    <3>2. pieces[1] = x
      BY DEF pieces
    <3> QED
      BY <1>1, <3>1, <3>2, OpenFacts
  <2>4. Fold(table) \o <<x>> = Append(Fold(table), x)
    BY <2>3
  <2> QED
    BY <2>2, <2>4 DEF pieces
<1> QED
  BY <1>7, <1>8, <1>9, <1>10 DEF x
\* A sale.
LEMMA SellTable ==
  ASSUME NEW table, NEW at \in Nat \ {0}, Sound(table, at), NEW quantity \in Nat,
         NEW ref, ref = Len(table), NEW next, next = close_quantity(table, quantity, at, ref),
         NEW lots, lots = Fold(table)
  PROVE  /\ Sound(next, at) /\ open_lots(next, at) = Fold(next)
         /\ SoldFrom(lots, Fold(next))
         /\ Narrow(table) /\ Len(lots) <= 10 => Narrow(next)
<1>1. Whole(table) /\ Dated(table, at) /\ Fresh(table, ref) /\ ref \in Nat /\ table \in Tables
  BY SoundIs DEF Sound
<1>2. /\ \A x \in ToSet(table) : x.at <= at
      /\ Unused(table, CLOSE, ref) /\ lots \in Seq(OpenLot)
      /\ \A n \in DOMAIN lots : Before(lots[n].lot, ref) /\ lots[n].lot \in Seq(Nat)
  BY <1>1, SoundIs
<1> DEFINE taken == Consumed(lots, quantity)
           pieces == Negatives(taken)
           new == RowsOf(pieces, at, CLOSE, ref)
<1>3. /\ Entered(next, table, new, pieces, at, CLOSE, ref) /\ next = Added(table, new)
      /\ taken \in Seq(OpenLot) /\ GivesFront(taken, lots)
  <2>1. taken = Consumed(Fold(table), quantity) /\ new = RowsOf(Negatives(taken), at, CLOSE, ref)
    OBVIOUS
  <2>2. at \in Nat /\ \A x \in ToSet(table) : x.at <= at
    BY <1>2
  <2> HIDE DEF taken, new
  <2> QED
    BY <1>1, <1>2, <2>1, <2>2, Sold
<1> HIDE DEF taken
<1>4. /\ DOMAIN taken = 1..Len(taken) /\ Len(taken) \in Nat /\ Len(taken) <= Len(lots)
      /\ \A n \in DOMAIN taken : n \in DOMAIN lots /\ taken[n].lot = lots[n].lot
  BY <1>2, <1>3, FrontIs
<1>5. /\ pieces \in Seq(Lot) /\ DOMAIN pieces = DOMAIN taken /\ Len(pieces) = Len(taken)
      /\ \A n \in DOMAIN taken : pieces[n].lot = taken[n].lot
  BY <1>1, <1>3, NegativesAre, Given
<1> HIDE DEF pieces, new
<1>6. PICK N \in Nat : N = Len(pieces)
  BY <1>4, <1>5
<1>7. Len(next) = ref + N /\ Whole(next)
  BY <1>3, <1>6 DEF Entered
<1>8. Dated(next, at) /\ Fresh(next, ref + N)
  <2>1. CLOSE \in 1..4 /\ ref + N \in Nat /\ ref <= ref + N
    BY <1>1 DEF CLOSE
  <2>2. pieces # << >> => ref < ref + N
    BY <1>1, <1>5, <1>6
  <2>3. ASSUME NEW i \in DOMAIN pieces PROVE Before(pieces[i].lot, ref + N)
    <3>1. PICK a \in Seq(Nat) : a = pieces[i].lot /\ Before(a, ref)
      BY <1>2, <1>4, <1>5
    <3>2. \A j \in DOMAIN a : a[j] \in Nat
      OBVIOUS
    <3>3. Before(a, ref + N)
      BY <1>1, <3>1, <3>2 DEF Before
    <3> QED
      BY <3>1, <3>3
  <2> QED
    BY <1>1, <1>3, <1>5, <2>1, <2>2, <2>3, StaysSound
<1>9. Sound(next, at)
  BY <1>7, <1>8 DEF Sound
<1>10. open_lots(next, at) = Fold(next)
  BY <1>9, SoundIs
<1>11. SoldFrom(lots, Fold(next))
  <2>1. next \in Tables /\ next = Added(table, RowsOf(Negatives(taken), at, CLOSE, ref))
    BY <1>3, <1>7 DEF Whole, pieces, new
  <2> QED
    BY <1>1, <1>2, <1>3, <2>1, SoldInOrder
<1>12. ASSUME Narrow(table), Len(lots) <= 10 PROVE Narrow(next)
  <2>1. Len(pieces) <= 10 /\ CLOSE # OPEN
    <3>1. Len(lots) \in Nat
      BY <1>2
    <3> QED
      BY <1>4, <1>5, <1>12, <3>1 DEF CLOSE, OPEN
  <2> QED
    BY <1>3, <1>5, <1>12, <2>1, StaysNarrow
<1> QED
  BY <1>9, <1>10, <1>11, <1>12

\* A split.
LEMMA SplitTable ==
  ASSUME NEW table, NEW at \in Nat \ {0}, Sound(table, at),
         NEW num \in Nat \ {0}, NEW den \in Nat \ {0}, NEW lots, lots = Fold(table), Evenly(lots, num, den),
         NEW ref, ref = Len(table), NEW next, next = apply_split(table, num, den, at, ref)
  PROVE  /\ Sound(next, at) /\ open_lots(next, at) = Fold(next)
         /\ CostBasis(Fold(next)) = CostBasis(lots)
         /\ Narrow(table) /\ Len(lots) <= 10 =>
              Narrow(next) /\ Fold(next) = Reopened(lots, num, den, ref)
<1>1. Whole(table) /\ Dated(table, at) /\ Fresh(table, ref) /\ ref \in Nat /\ table \in Tables
  BY SoundIs DEF Sound
<1> DEFINE pieces == Reopened(lots, num, den, ref)
           gone == Negatives(lots)
           out == RowsOf(gone, at, SPLIT_OUT, ref)
           mid == Added(table, out)
           in == RowsOf(pieces, at, SPLIT_IN, ref)
<1>2. /\ \A x \in ToSet(table) : x.at <= at
      /\ Unused(table, SPLIT_OUT, ref) /\ Unused(table, SPLIT_IN, ref) /\ lots \in Seq(OpenLot)
      /\ \A n \in DOMAIN lots : Before(lots[n].lot, ref) /\ lots[n].lot \in Seq(Nat)
      /\ Unnamed(pieces, table)
  BY <1>1, SoundIs
<1>3. /\ pieces = Reopened(lots, num, den, ref) /\ out = RowsOf(Negatives(lots), at, SPLIT_OUT, ref)
      /\ mid = Added(table, out) /\ in = RowsOf(pieces, at, SPLIT_IN, ref) /\ gone = Negatives(lots)
  OBVIOUS
<1> HIDE DEF pieces, out, mid, in, gone
<1>4. /\ Entered(mid, table, out, Negatives(lots), at, SPLIT_OUT, ref)
      /\ Entered(next, mid, in, pieces, at, SPLIT_IN, ref) /\ next = Added(mid, in)
      /\ Unused(mid, SPLIT_IN, ref) /\ Unnamed(pieces, mid)
      /\ lots \in Seq(OpenLot) /\ pieces \in Seq(OpenLot) /\ Apart(lots) /\ Apart(pieces)
      /\ CostBasis(Fold(next)) = CostBasis(lots)
  <2>1. at \in Nat /\ \A x \in ToSet(table) : x.at <= at
    BY <1>2
  <2> QED
    BY <1>1, <1>2, <1>3, <2>1, SplitDone
<1>5. /\ pieces \in Seq(Lot) /\ DOMAIN pieces = DOMAIN lots /\ Len(pieces) = Len(lots)
      /\ \A n \in DOMAIN lots : pieces[n].lot = Append(lots[n].lot, ref)
  BY <1>1, <1>3, <1>4, SplitPieces
<1>6. /\ gone \in Seq(Lot) /\ DOMAIN gone = DOMAIN lots
      /\ \A n \in DOMAIN lots : gone[n].lot = lots[n].lot
  BY <1>3, <1>4, NegativesAre
<1>7. PICK N \in Nat : N = Len(lots) /\ DOMAIN lots = 1..N /\ Len(gone) = N /\ Len(pieces) = N
  <2>1. PICK m \in Nat : m = Len(lots) /\ DOMAIN lots = 1..m
    BY <1>4
  <2>2. Len(gone) = m
    BY <1>6, <2>1
  <2> QED
    BY <1>5, <2>1, <2>2
<1>8. Whole(mid) /\ Len(mid) = ref + N /\ Whole(next) /\ Len(next) = ref + N + N /\ mid \in Tables
  BY <1>3, <1>4, <1>7 DEF Entered, Whole
<1>9. SPLIT_OUT \in 1..4 /\ SPLIT_IN \in 1..4 /\ SPLIT_OUT # OPEN /\ SPLIT_IN # OPEN
  BY DEF SPLIT_OUT, SPLIT_IN, OPEN
<1>10. \A i \in DOMAIN lots : Before(lots[i].lot, ref + N) /\ Before(Append(lots[i].lot, ref), ref + N + N)
  <2> SUFFICES ASSUME NEW i \in DOMAIN lots
               PROVE  Before(lots[i].lot, ref + N) /\ Before(Append(lots[i].lot, ref), ref + N + N)
    OBVIOUS
  <2>1. PICK a \in Seq(Nat) : a = lots[i].lot /\ Before(a, ref)
    BY <1>2
  <2>2. PICK m \in Nat : m = Len(a) /\ DOMAIN a = 1..m /\ \A j \in 1..m : a[j] \in Nat
    OBVIOUS
  <2>3. Before(a, ref + N)
    BY <1>1, <2>1, <2>2 DEF Before
  <2>4. DOMAIN Append(a, ref) = 1..(m + 1) /\ Append(a, ref)[m + 1] = ref
        /\ \A j \in 1..m : Append(a, ref)[j] = a[j]
    BY <2>2
  <2>5. N > 0
    BY <1>7
  <2>6. \A j \in 1..(m + 1) : Append(a, ref)[j] < ref + N + N
    <3>1. \A j \in 1..(m + 1) : j \in 1..m \/ j = m + 1
      OBVIOUS
    <3>2. ASSUME NEW j \in 1..m PROVE a[j] < ref + N + N
      <4>1. a[j] < ref /\ a[j] \in Nat
        BY <2>1, <2>2 DEF Before
      <4> QED
        BY <1>1, <4>1
    <3> QED
      BY <1>1, <2>4, <2>5, <3>1, <3>2
  <2>7. Before(Append(a, ref), ref + N + N)
    BY <2>4, <2>6 DEF Before
  <2> QED
    BY <2>1, <2>3, <2>7
<1>11. Dated(mid, at) /\ Fresh(mid, ref + N)
  <2>1. ref + N \in Nat /\ ref <= ref + N
    BY <1>1
  <2>2. gone # << >> => ref < ref + N
    BY <1>1, <1>6, <1>7
  <2>3. \A i \in DOMAIN gone : Before(gone[i].lot, ref + N)
    BY <1>6, <1>10
  <2>4. Entered(mid, table, out, gone, at, SPLIT_OUT, ref)
    BY <1>3, <1>4
  <2> QED
    BY <1>1, <1>6, <1>9, <2>1, <2>2, <2>3, <2>4, StaysSound
<1>12. Dated(next, at) /\ Fresh(next, ref + N + N)
  <2>1. ref + N \in Nat /\ ref + N + N \in Nat /\ ref + N <= ref + N + N
    BY <1>1
  <2>2. pieces # << >> => ref < ref + N + N
    BY <1>1, <1>5, <1>7
  <2>3. \A i \in DOMAIN pieces : Before(pieces[i].lot, ref + N + N)
    BY <1>5, <1>10
  <2> QED
    BY <1>4, <1>5, <1>8, <1>9, <1>11, <2>1, <2>2, <2>3, StaysSound
<1>13. Sound(next, at)
  BY <1>8, <1>12 DEF Sound
<1>14. open_lots(next, at) = Fold(next)
  BY <1>13, SoundIs
<1>15. ASSUME Narrow(table), Len(lots) <= 10 PROVE Narrow(next) /\ Fold(next) = pieces
  <2>1. Narrow(mid)
    <3>1. Entered(mid, table, out, gone, at, SPLIT_OUT, ref) /\ Len(gone) <= 10
      BY <1>3, <1>4, <1>7, <1>15
    <3> QED
      BY <1>6, <1>9, <1>15, <3>1, StaysNarrow
  <2>2. Narrow(next)
    <3>1. Len(pieces) <= 10
      BY <1>5, <1>15
    <3> QED
      BY <1>4, <1>5, <1>9, <2>1, <3>1, StaysNarrow
  <2>3. next \in Tables /\ at \in Nat
    BY <1>8 DEF Whole
  <2>4. Fold(next) = pieces
    BY <1>1, <1>2, <1>3, <1>4, <1>5, <1>8, <1>15, <2>3, SplitInOrder
  <2> QED
    BY <2>2, <2>4
<1> QED
  BY <1>4, <1>13, <1>14, <1>15 DEF pieces
-----------------------------------------------------------------------------
(* The specification. *)

(* What the table is at every step: sound, and what it leaves is what is held. *)
Kept ==
  /\ Sound(rows, now) /\ held = Fold(rows)
  /\ now \in 1..LAST /\ filling \in BOOLEAN
  /\ calls \in [buys : 0..MAX_BUYS, splits : 0..MAX_SPLITS, sales : 0..MAX_SALES]

LEMMA NoRows == Sound(<< >>, 1) /\ Fold(<< >>) = << >> /\ Narrow(<< >>)
<1>1. << >> \in Tables /\ ToSet(<< >>) = {} /\ DOMAIN << >> = {}
  BY DEF Tables, ToSet
<1>2. \A a : Units(<< >>, a) = 0
  BY SumOfAdds, WeightsAre DEF Units
<1>3. Sorted(<< >>) /\ CostsAgree(<< >>)
  BY <1>1 DEF Sorted, CostsAgree
<1>4. Whole(<< >>)
  BY <1>1, <1>2, <1>3 DEF Whole
<1>5. Sound(<< >>, 1) /\ Narrow(<< >>)
  BY <1>1, <1>4 DEF Sound, Dated, Fresh, Narrow
<1>6. Fold(<< >>) = << >>
  <2>1. Fold(<< >>) \in Seq(OpenLot)
    BY <1>1, OpenFacts
  <2>2. \A n \in DOMAIN Fold(<< >>) : \E x \in ToSet(<< >>) : x.lot = Fold(<< >>)[n].lot
    BY <1>1, OpenFacts
  <2>3. DOMAIN Fold(<< >>) = {}
    BY <1>1, <2>2
  <2> QED
    BY <2>1, <2>3
<1> QED
  BY <1>5, <1>6

LEMMA SplitStep ==
  ASSUME Kept, NEW r \in Ratios, Split(r)
  PROVE  /\ Kept' /\ CostBasis(held') = CostBasis(held)
         /\ Narrow(rows) /\ Len(held) <= 10 =>
              Narrow(rows') /\ held' = Reopened(held, r[1], r[2], Len(rows))
<1>1. r[1] \in Nat \ {0} /\ r[2] \in Nat \ {0}
  BY TradesAssumption
<1>2. now \in Nat \ {0} /\ Sound(rows, now) /\ held = Fold(rows)
  BY BoundsAssumption DEF Kept
<1>3. Evenly(held, r[1], r[2])
  BY DEF Split, Divides, Evenly, Divided
<1>4. rows' = apply_split(rows, r[1], r[2], now, Len(rows)) /\ held' = open_lots(rows', now) /\ now' = now
  BY DEF Split, Becomes, NextRef
<1>5. /\ Sound(rows', now) /\ open_lots(rows', now) = Fold(rows')
      /\ CostBasis(Fold(rows')) = CostBasis(held)
      /\ Narrow(rows) /\ Len(held) <= 10 =>
           Narrow(rows') /\ Fold(rows') = Reopened(held, r[1], r[2], Len(rows))
  BY <1>1, <1>2, <1>3, <1>4, SplitTable
<1>6. filling' \in BOOLEAN
      /\ calls' \in [buys : 0..MAX_BUYS, splits : 0..MAX_SPLITS, sales : 0..MAX_SALES]
  BY BoundsAssumption DEF Kept, Split
<1> QED
  BY <1>4, <1>5, <1>6 DEF Kept

LEMMA BuyStep ==
  ASSUME Kept, NEW q \in Quantities, Buy(q)
  PROVE  /\ Kept' /\ calls'.splits = calls.splits /\ calls'.buys = calls.buys + 1
         /\ Narrow(rows) =>
              /\ Narrow(rows')
              /\ held' = Append(held, [lot |-> <<Len(rows)>>, quantity |-> q, cost |-> Costs[now]])
<1>1. q \in Nat \ {0} /\ now \in 1..LAST /\ now \in Nat \ {0} /\ Costs[now] \in Nat
  BY TradesAssumption, BoundsAssumption DEF Kept
<1>2. Sound(rows, now) /\ held = Fold(rows)
  BY DEF Kept
<1>3. rows' = open_lot(rows, q, Costs[now], now, Len(rows)) /\ held' = open_lots(rows', now) /\ now' = now
  BY DEF Buy, Becomes, NextRef
<1>4. /\ Sound(rows', now) /\ open_lots(rows', now) = Fold(rows')
      /\ Narrow(rows) =>
           /\ Narrow(rows')
           /\ Fold(rows') = Append(held, [lot |-> <<Len(rows)>>, quantity |-> q, cost |-> Costs[now]])
  BY <1>1, <1>2, <1>3, BuyTable
<1>5. /\ filling' \in BOOLEAN
      /\ calls' \in [buys : 0..MAX_BUYS, splits : 0..MAX_SPLITS, sales : 0..MAX_SALES]
      /\ calls'.splits = calls.splits /\ calls'.buys = calls.buys + 1
  BY BoundsAssumption DEF Kept, Buy
<1> QED
  BY <1>3, <1>4, <1>5 DEF Kept

LEMMA SellStep ==
  ASSUME Kept, NEW q \in 1..Sellable, Sell(q)
  PROVE  /\ Kept' /\ calls'.splits = calls.splits /\ calls'.buys = calls.buys
         /\ SoldFrom(held, held')
         /\ Narrow(rows) /\ Len(held) <= 10 => Narrow(rows')
<1>1. q \in Nat /\ now \in Nat \ {0}
  BY BoundsAssumption DEF Kept
<1>2. Sound(rows, now) /\ held = Fold(rows)
  BY DEF Kept
<1>3. rows' = close_quantity(rows, q, now, Len(rows)) /\ held' = open_lots(rows', now) /\ now' = now
  BY DEF Sell, Becomes, NextRef
<1>4. /\ Sound(rows', now) /\ open_lots(rows', now) = Fold(rows') /\ SoldFrom(held, Fold(rows'))
      /\ Narrow(rows) /\ Len(held) <= 10 => Narrow(rows')
  BY <1>1, <1>2, <1>3, SellTable
<1>5. /\ filling' \in BOOLEAN
      /\ calls' \in [buys : 0..MAX_BUYS, splits : 0..MAX_SPLITS, sales : 0..MAX_SALES]
      /\ calls'.splits = calls.splits /\ calls'.buys = calls.buys
  BY BoundsAssumption DEF Kept, Sell
<1> QED
  BY <1>3, <1>4, <1>5 DEF Kept

LEMMA SessionStep ==
  ASSUME Kept, NextSession
  PROVE  Kept' /\ held' = held /\ rows' = rows /\ calls' = calls
<1>1. /\ now \in Nat \ {0} /\ now + 1 \in Nat \ {0} /\ now + 1 \in 1..LAST
      /\ now' = now + 1 /\ rows' = rows /\ held' = open_lots(rows, now + 1)
      /\ calls' = calls /\ filling' = FALSE
  BY BoundsAssumption DEF Kept, NextSession, Becomes
<1>2. Sound(rows, now) /\ held = Fold(rows)
  BY DEF Kept
<1>3. Sound(rows, now + 1)
  <2>1. \A t \in 1..now : t \in 1..(now + 1)
    BY <1>1
  <2> QED
    BY <1>2, <2>1 DEF Sound, Dated
<1>4. open_lots(rows, now + 1) = held
  BY <1>1, <1>2, <1>3, SoundIs
<1> QED
  BY <1>1, <1>2, <1>3, <1>4 DEF Kept

LEMMA SameStep == Kept /\ UNCHANGED vars => Kept' /\ held' = held /\ rows' = rows /\ calls' = calls
BY DEF Kept, vars

LEMMA KeptInit == Init => Kept /\ Narrow(rows) /\ held = << >>
<1> SUFFICES ASSUME Init PROVE Kept /\ Narrow(rows) /\ held = << >>
  OBVIOUS
<1>1. /\ rows = << >> /\ held = << >> /\ now = 1 /\ filling = FALSE
      /\ calls = [buys |-> 0, splits |-> 0, sales |-> 0]
  BY DEF Init
<1>2. /\ now \in 1..LAST /\ filling \in BOOLEAN
      /\ calls \in [buys : 0..MAX_BUYS, splits : 0..MAX_SPLITS, sales : 0..MAX_SALES]
  <2>1. /\ 1 \in 1..LAST /\ FALSE \in BOOLEAN
        /\ MAX_BUYS \in Nat /\ MAX_SPLITS \in Nat /\ MAX_SALES \in Nat
    BY BoundsAssumption
  <2>2. 0 \in 0..MAX_BUYS /\ 0 \in 0..MAX_SPLITS /\ 0 \in 0..MAX_SALES
    BY <2>1
  <2> QED
    BY <1>1, <2>1, <2>2
<1> QED
  BY <1>1, <1>2, NoRows DEF Kept

\* Whatever is bought, sold and split, in whatever order and over however many
\* sessions: the rows stay sorted, every lot keeps one cost and is never short of
\* units, no row is of the future, and what they leave is what is held.
THEOREM StaysKept == Spec => []Kept
<1>1. Kept /\ [Next]_vars => Kept'
  BY SplitStep, BuyStep, SellStep, SessionStep, SameStep DEF Next
<1> QED
  BY KeptInit, <1>1, PTL DEF Spec

\* PositionBook.TypeOK: the table holds rows of the type, never of the future.
THEOREM TypesKept == Spec => []TypeOK
<1>1. Kept => TypeOK
  <2> SUFFICES ASSUME Kept PROVE TypeOK
    OBVIOUS
  <2>1. rows \in Tables /\ Dated(rows, now) /\ now \in Nat \ {0} /\ now \in 1..LAST
    BY BoundsAssumption DEF Kept, Sound, Whole
  <2>2. ASSUME NEW n \in DOMAIN rows
        PROVE  rows[n] \in [lot : Seq(Nat), at : 1..LAST, rank : 1..4,
                            index : Nat, delta : Int, cost : Nat, ref : Nat]
    <3>1. rows[n] \in ToSet(rows) /\ rows[n] \in Row
      BY <2>1, TableIs DEF ToSet
    <3>2. rows[n].at \in 1..now /\ rows[n].rank \in 1..4
      BY <2>1, <3>1 DEF Dated
    <3>3. rows[n].at \in 1..LAST
      BY <2>1, <3>2, BoundsAssumption
    <3> QED
      BY <3>1, <3>2, <3>3 DEF Row
  <2> QED
    BY <2>1, <2>2 DEF Kept, TypeOK
<1> QED
  BY StaysKept, <1>1, PTL

\* PositionBook.SplitKeepsCostBasis: whatever was bought, sold and split before,
\* a split re-denominates every lot and leaves what the position cost.
THEOREM SplitsKeepCost == Spec => SplitKeepsCostBasis
<1>1. Kept /\ [Next]_vars =>
        [calls'.splits # calls.splits => CostBasis(held') = CostBasis(held)]_vars
  BY SplitStep, BuyStep, SellStep, SessionStep DEF Next
<1> QED
  BY StaysKept, <1>1, PTL DEF Spec, SplitKeepsCostBasis

-----------------------------------------------------------------------------
(* The queue of parcels. *)

Few == Len(held) <= 10

Parcel == [quantity : Nat \ {0}, cost : Nat]

\* What is held is a list of lots, and what the queue shows of it.
LEMMA QueueIs ==
  ASSUME NEW lots \in Seq(OpenLot), NEW queue,
         queue = [n \in DOMAIN lots |-> [quantity |-> lots[n].quantity, cost |-> lots[n].cost]]
  PROVE  /\ queue \in Seq(Parcel) /\ Len(queue) = Len(lots)
         /\ DOMAIN queue = DOMAIN lots /\ DOMAIN lots = 1..Len(lots) /\ Len(lots) \in Nat
         /\ \A n \in DOMAIN lots : queue[n] = [quantity |-> lots[n].quantity, cost |-> lots[n].cost]
<1>1. PICK N \in Nat : N = Len(lots) /\ DOMAIN lots = 1..N
  <2>1. Len(lots) \in Nat /\ DOMAIN lots = 1..Len(lots)
    OBVIOUS
  <2> QED
    BY <2>1
<1>2. \A n \in 1..N : lots[n].quantity \in Nat \ {0} /\ lots[n].cost \in Nat
  <2>1. \A n \in 1..N : lots[n] \in OpenLot
    BY <1>1
  <2> QED
    BY <2>1, OpenLotIs
<1>3. /\ queue = [n \in 1..N |-> queue[n]]
      /\ \A n \in 1..N : queue[n] = [quantity |-> lots[n].quantity, cost |-> lots[n].cost]
  BY <1>1
<1>4. \A n \in 1..N : queue[n] \in Parcel
  BY <1>2, <1>3 DEF Parcel
<1>5. queue \in Seq(Parcel) /\ Len(queue) = N /\ DOMAIN queue = 1..N
  BY <1>3, <1>4, Listed
<1> QED
  BY <1>1, <1>3, <1>5

LEMMA QueueNow ==
  ASSUME Kept
  PROVE  /\ held \in Seq(OpenLot)
         /\ Queue \in Seq(Parcel) /\ Len(Queue) = Len(held)
         /\ DOMAIN Queue = DOMAIN held /\ DOMAIN held = 1..Len(held) /\ Len(held) \in Nat
         /\ \A n \in DOMAIN held : Queue[n] = [quantity |-> held[n].quantity, cost |-> held[n].cost]
<1>1. held \in Seq(OpenLot)
  BY OpenFacts DEF Kept, Sound, Whole
<1>2. Queue = [n \in DOMAIN held |-> [quantity |-> held[n].quantity, cost |-> held[n].cost]]
  BY DEF Queue
<1> QED
  BY <1>1, <1>2, QueueIs

(* What is left of a list once its first k entries are taken.                *)
LEMMA SubSeqIs ==
  ASSUME NEW S, NEW s \in Seq(S), NEW N \in Nat, N = Len(s), NEW k \in Nat, k <= N
  PROVE  /\ SubSeq(s, k + 1, Len(s)) \in Seq(S) /\ Len(SubSeq(s, k + 1, Len(s))) = N - k
         /\ \A i \in 1..(N - k) : SubSeq(s, k + 1, Len(s))[i] = s[k + i]
<1>1. SubSeq(s, k + 1, N) \in Seq(S) /\ Len(SubSeq(s, k + 1, N)) = N - k
  OBVIOUS
<1>2. \A i \in 1..(N - k) : SubSeq(s, k + 1, N)[i] = s[k + i]
  OBVIOUS
<1> QED
  BY <1>1, <1>2

(* Two initial ranges with the same members are equally long.                *)
LEMMA SameRange ==
  ASSUME NEW m \in Nat, NEW n \in Nat, 1..m = 1..n PROVE m = n
<1>1. m <= n
  <2>1. CASE m = 0
    BY <2>1
  <2>2. CASE m > 0
    <3>1. m \in 1..m
      BY <2>2
    <3> QED
      BY <3>1
  <2> QED
    BY <2>1, <2>2
<1>2. n <= m
  <2>1. CASE n = 0
    BY <2>1
  <2>2. CASE n > 0
    <3>1. n \in 1..n
      BY <2>2
    <3> QED
      BY <3>1
  <2> QED
    BY <2>1, <2>2
<1> QED
  BY <1>1, <1>2

\* A purchase of the rows is a purchase of the queue.
LEMMA BuyJoins ==
  ASSUME Kept, Kept', Narrow(rows), NEW q \in Quantities, Buy(q) PROVE Fifo!Buy
<1> DEFINE x == [lot |-> <<Len(rows)>>, quantity |-> q, cost |-> Costs[now]]
           parcel == [quantity |-> q, cost |-> Costs[now]]
<1>1. held' = Append(held, x)
  BY BuyStep
<1>2. /\ held \in Seq(OpenLot) /\ Queue \in Seq(Parcel) /\ Len(Queue) = Len(held)
      /\ DOMAIN Queue = DOMAIN held /\ DOMAIN held = 1..Len(held) /\ Len(held) \in Nat
      /\ \A n \in DOMAIN held : Queue[n] = [quantity |-> held[n].quantity, cost |-> held[n].cost]
  BY QueueNow
<1>3. /\ held' \in Seq(OpenLot) /\ Queue' \in Seq(Parcel) /\ Len(Queue') = Len(held')
      /\ \A n \in DOMAIN held' : Queue'[n] = [quantity |-> held'[n].quantity, cost |-> held'[n].cost]
      /\ DOMAIN held' = 1..Len(held')
  <2>1. held' \in Seq(OpenLot)
    BY OpenFacts DEF Kept, Sound, Whole
  <2>2. Queue' = [n \in DOMAIN held' |-> [quantity |-> held'[n].quantity, cost |-> held'[n].cost]]
    BY DEF Queue
  <2> QED
    BY <2>1, <2>2, QueueIs
<1>4. q \in Nat \ {0} /\ now \in 1..LAST /\ Costs[now] \in Nat
  BY TradesAssumption DEF Kept
<1>5. parcel \in Parcel
  BY <1>4 DEF Parcel
<1>6. PICK N \in Nat : N = Len(held)
  BY <1>2
<1>7. x.quantity = q /\ x.cost = Costs[now]
  OBVIOUS
<1> HIDE DEF x
<1>8. Len(held') = N + 1 /\ held'[N + 1] = x /\ \A n \in 1..N : held'[n] = held[n]
  BY <1>1, <1>2, <1>6
<1> HIDE DEF parcel
<1>9. /\ Append(Queue, parcel) \in Seq(Parcel) /\ Len(Append(Queue, parcel)) = N + 1
      /\ Append(Queue, parcel)[N + 1] = parcel
      /\ \A n \in 1..N : Append(Queue, parcel)[n] = Queue[n]
  BY <1>2, <1>5, <1>6
<1>10. \A n \in 1..(N + 1) : Queue'[n] = Append(Queue, parcel)[n]
  <2>1. \A n \in 1..(N + 1) : n \in 1..N \/ n = N + 1
    BY <1>6
  <2>2. Queue'[N + 1] = parcel
    <3>1. N + 1 \in DOMAIN held'
      BY <1>3, <1>6, <1>8
    <3> QED
      BY <1>3, <1>7, <1>8, <3>1 DEF parcel
  <2>3. ASSUME NEW n \in 1..N PROVE Queue'[n] = Queue[n]
    <3>1. n \in DOMAIN held' /\ n \in DOMAIN held
      BY <1>2, <1>3, <1>6, <1>8
    <3> QED
      BY <1>2, <1>3, <1>8, <3>1
  <2> QED
    BY <1>9, <2>1, <2>2, <2>3
<1>11. Queue' = Append(Queue, parcel)
  BY <1>3, <1>8, <1>9, <1>10, SameList
<1> QED
  BY <1>4, <1>11 DEF Fifo!Buy, parcel
\* So is a sale, which takes the front parcels whole and a part of the next.
LEMMA SellTakes ==
  ASSUME Kept, Kept', NEW q \in 1..Sellable, Sell(q) PROVE Fifo!Sell \/ Queue' = Queue
<1>1. /\ held \in Seq(OpenLot) /\ Queue \in Seq(Parcel) /\ Len(Queue) = Len(held)
      /\ DOMAIN Queue = DOMAIN held /\ DOMAIN held = 1..Len(held) /\ Len(held) \in Nat
      /\ \A n \in DOMAIN held : Queue[n] = [quantity |-> held[n].quantity, cost |-> held[n].cost]
  BY QueueNow
<1>2. /\ held' \in Seq(OpenLot) /\ Queue' \in Seq(Parcel) /\ Len(Queue') = Len(held')
      /\ \A n \in DOMAIN held' : Queue'[n] = [quantity |-> held'[n].quantity, cost |-> held'[n].cost]
      /\ DOMAIN held' = 1..Len(held')
  <2>1. held' \in Seq(OpenLot)
    BY OpenFacts DEF Kept, Sound, Whole
  <2>2. Queue' = [n \in DOMAIN held' |-> [quantity |-> held'[n].quantity, cost |-> held'[n].cost]]
    BY DEF Queue
  <2> QED
    BY <2>1, <2>2, QueueIs
<1>3. SoldFrom(held, held')
  BY SellStep
<1>4. PICK whole \in 0..Len(held) :
        \/ held' = Rest(held, whole)
        \/ /\ whole < Len(held)
           /\ \E part \in 1..(held[whole + 1].quantity - 1) :
                held' = [Rest(held, whole) EXCEPT ![1].quantity = part]
  BY <1>3 DEF SoldFrom
<1>5. PICK N \in Nat : N = Len(held)
  BY <1>1
<1>12. whole \in Nat /\ whole <= N
  <2>1. whole \in 0..N
    BY <1>5
  <2> QED
    BY <2>1
<1>13. N = Len(Queue)
  BY <1>1, <1>5
<1> DEFINE rest == Rest(held, whole)
           left == SubSeq(Queue, whole + 1, Len(Queue))
<1>6. /\ rest \in Seq(OpenLot) /\ Len(rest) = N - whole
      /\ \A i \in 1..(N - whole) : rest[i] = held[whole + i]
  <2>1. Len(held) = N /\ held \in Seq(OpenLot)
    BY <1>1, <1>5
  <2>2. Rest(held, whole) = SubSeq(held, whole + 1, Len(held))
    BY DEF Rest
  <2> QED
    BY <1>12, <2>1, <2>2, SubSeqIs
<1>7. /\ left \in Seq(Parcel) /\ Len(left) = N - whole
      /\ \A i \in 1..(N - whole) : left[i] = Queue[whole + i]
  <2> DEFINE queue == Queue
  <2>1. queue \in Seq(Parcel) /\ N = Len(queue) /\ left = SubSeq(queue, whole + 1, Len(queue))
    BY <1>1, <1>13
  <2> HIDE DEF queue, left
  <2>2. /\ left \in Seq(Parcel) /\ Len(left) = N - whole
        /\ \A i \in 1..(N - whole) : left[i] = queue[whole + i]
    BY <1>12, <2>1, SubSeqIs
  <2> QED
    BY <2>2 DEF queue
<1> HIDE DEF rest, left
<1>8. \A i \in 1..(N - whole) :
        /\ left[i] = [quantity |-> rest[i].quantity, cost |-> rest[i].cost]
        /\ whole + i \in 1..N
  <2> TAKE i \in 1..(N - whole)
  <2>1. whole + i \in 1..N
    BY <1>12
  <2> QED
    BY <1>1, <1>5, <1>6, <1>7, <2>1
<1>9. whole \in 0..Len(Queue)
  BY <1>1
<1>10. CASE held' = Rest(held, whole)
  <2>1. \A i \in 1..(N - whole) : Queue'[i] = left[i]
    BY <1>2, <1>6, <1>8, <1>10 DEF rest
  <2>2. Len(Queue') = N - whole
    BY <1>2, <1>6, <1>10 DEF rest
  <2>3. Queue' = left
    BY <1>2, <1>7, <2>1, <2>2, SameList
  <2>4. CASE whole > 0
    BY <1>9, <2>3, <2>4 DEF Fifo!Sell, left
  <2>5. CASE whole = 0
    <3>1. Queue' \in Seq(Parcel) /\ Len(Queue') = N /\ \A i \in 1..N : Queue'[i] = Queue[i]
      <4>1. \A i \in 1..N : i \in 1..(N - whole) /\ whole + i = i
        BY <1>5, <1>12, <2>5
      <4>2. N - whole = N
        BY <1>5, <1>12, <2>5
      <4> QED
        BY <1>2, <1>7, <2>1, <2>2, <4>1, <4>2
    <3>2. Queue' = Queue
      BY <1>1, <1>5, <3>1, SameList
    <3> QED
      BY <3>2
  <2> QED
    BY <1>12, <2>4, <2>5
<1>11. CASE /\ whole < Len(held)
            /\ \E part \in 1..(held[whole + 1].quantity - 1) :
                 held' = [Rest(held, whole) EXCEPT ![1].quantity = part]
  <2>1. PICK part \in 1..(held[whole + 1].quantity - 1) : held' = [rest EXCEPT ![1].quantity = part]
    BY <1>11 DEF rest
  <2>2. 1 \in 1..(N - whole) /\ N - whole \in Nat
    BY <1>5, <1>11, <1>12
  <2>3. left # << >> /\ left[1].quantity = held[whole + 1].quantity
    <3>1. left[1] = [quantity |-> rest[1].quantity, cost |-> rest[1].cost] /\ rest[1] = held[whole + 1]
      BY <1>6, <1>8, <2>2
    <3> QED
      BY <1>7, <2>2, <3>1
  <2>4. /\ Len(held') = N - whole /\ DOMAIN rest = 1..(N - whole)
        /\ \A i \in 1..(N - whole) :
             held'[i] = IF i = 1 THEN [rest[1] EXCEPT !.quantity = part] ELSE rest[i]
    <3>1. DOMAIN rest = 1..(N - whole)
      BY <1>6
    <3>2. DOMAIN held' = 1..(N - whole)
      BY <2>1, <3>1
    <3>3. Len(held') = N - whole
      <4>1. PICK h \in Seq(OpenLot) : h = held'
        BY <1>2
      <4>2. Len(h) \in Nat
        OBVIOUS
      <4>3. 1..Len(h) = DOMAIN held'
        BY <1>2, <4>1
      <4>4. 1..Len(h) = 1..(N - whole)
        BY <3>2, <4>3
      <4>5. Len(h) = N - whole
        BY <2>2, <4>2, <4>4, SameRange
      <4> QED
        BY <4>1, <4>5
    <3> QED
      BY <2>1, <3>1, <3>3
  <2> DEFINE cutted == [left EXCEPT ![1].quantity = part]
  <2>5. DOMAIN left = 1..(N - whole)
    BY <1>7
  <2>6. /\ DOMAIN cutted = 1..(N - whole)
        /\ \A i \in 1..(N - whole) :
             cutted[i] = IF i = 1 THEN [left[1] EXCEPT !.quantity = part] ELSE left[i]
    BY <2>5
  <2> HIDE DEF cutted
  <2>7. PICK l \in OpenLot : l = rest[1]
    BY <1>6, <2>2
  <2>8. Queue'[1] = cutted[1]
    <3>1. [l EXCEPT !.quantity = part] = [lot |-> l.lot, quantity |-> part, cost |-> l.cost]
      BY Relabelled
    <3>2. Queue'[1] = [quantity |-> part, cost |-> l.cost]
      BY <1>2, <2>2, <2>4, <2>7, <3>1
    <3>3. cutted[1] = [quantity |-> part, cost |-> l.cost]
      <4>1. left[1] = [quantity |-> l.quantity, cost |-> l.cost]
        BY <1>8, <2>2, <2>7
      <4>2. cutted[1] = [left[1] EXCEPT !.quantity = part]
        BY <2>2, <2>6
      <4> QED
        BY <4>1, <4>2
    <3> QED
      BY <3>2, <3>3
  <2>9. ASSUME NEW i \in 1..(N - whole) PROVE Queue'[i] = cutted[i]
    <3>1. CASE i = 1
      BY <2>8, <3>1
    <3>2. CASE i # 1
      <4>1. held'[i] = rest[i] /\ cutted[i] = left[i] /\ i \in DOMAIN held'
        BY <1>2, <2>4, <2>6, <3>2
      <4> QED
        BY <1>2, <1>8, <4>1
    <3> QED
      BY <3>1, <3>2
  <2>10. Queue' = cutted
    <3>1. Len(Queue') = N - whole /\ DOMAIN Queue' = 1..(N - whole)
      BY <1>2, <2>4
    <3>2. Queue' = [i \in 1..(N - whole) |-> Queue'[i]]
      BY <1>2, <3>1
    <3>3. cutted = [i \in 1..(N - whole) |-> cutted[i]]
      BY <2>5, <2>6 DEF cutted
    <3> QED
      BY <2>9, <3>2, <3>3
  <2> QED
    BY <1>9, <2>1, <2>3, <2>10 DEF Fifo!Sell, left, cutted
<1> QED
  BY <1>4, <1>10, <1>11

\* And a split re-denominates every parcel where it stands.
LEMMA SplitKeepsOrder ==
  ASSUME Kept, Kept', Narrow(rows), Few, NEW r \in Ratios, Split(r) PROVE Fifo!Split
<1>1. /\ held \in Seq(OpenLot) /\ Queue \in Seq(Parcel) /\ Len(Queue) = Len(held)
      /\ DOMAIN Queue = DOMAIN held /\ DOMAIN held = 1..Len(held) /\ Len(held) \in Nat
      /\ \A n \in DOMAIN held : Queue[n] = [quantity |-> held[n].quantity, cost |-> held[n].cost]
  BY QueueNow
<1>2. held' = Reopened(held, r[1], r[2], Len(rows))
  BY SplitStep DEF Few
<1>3. /\ DOMAIN held' = DOMAIN held
      /\ \A n \in DOMAIN held :
           /\ held'[n].quantity = (held[n].quantity * r[1]) \div r[2]
           /\ held'[n].cost = (held[n].cost * r[2]) \div r[1]
  BY <1>2 DEF Reopened, SplitLot
<1>4. Queue' = [n \in DOMAIN held |->
                  [quantity |-> (held[n].quantity * r[1]) \div r[2],
                   cost |-> (held[n].cost * r[2]) \div r[1]]]
  BY <1>3 DEF Queue
<1>5. \A n \in DOMAIN held : Queue[n].quantity = held[n].quantity /\ Queue[n].cost = held[n].cost
  BY <1>1
<1>6. Queue' = [n \in DOMAIN Queue |->
                  [quantity |-> (Queue[n].quantity * r[1]) \div r[2],
                   cost |-> (Queue[n].cost * r[2]) \div r[1]]]
  BY <1>1, <1>4, <1>5
<1> QED
  BY <1>6 DEF Fifo!Split

\* PositionBook.ImplementsFifo: as long as no more than ten lots are open, the rows
\* are a queue of parcels through any number of purchases, sales and splits.
THEOREM QueueUpToTen == Spec /\ []Few => ImplementsFifo
<1>1. Init => Kept /\ Narrow(rows) /\ Fifo!Init
  BY KeptInit DEF Fifo!Init, Queue
<1>2. ASSUME Kept, Narrow(rows), Few, [Next]_vars
      PROVE  Kept' /\ Narrow(rows)' /\ [Fifo!Next]_Queue
  <2>1. CASE \E r \in Ratios : Split(r)
    <3>1. PICK r \in Ratios : Split(r)
      BY <2>1
    <3>2. Kept' /\ Narrow(rows')
      BY <1>2, <3>1, SplitStep DEF Few
    <3>3. Fifo!Split
      BY <1>2, <3>1, <3>2, SplitKeepsOrder
    <3> QED
      BY <3>2, <3>3 DEF Fifo!Next
  <2>2. CASE \E q \in Quantities : Buy(q)
    <3>1. PICK q \in Quantities : Buy(q)
      BY <2>2
    <3>2. Kept' /\ Narrow(rows')
      BY <1>2, <3>1, BuyStep
    <3>3. Fifo!Buy
      BY <1>2, <3>1, <3>2, BuyJoins
    <3> QED
      BY <3>2, <3>3 DEF Fifo!Next
  <2>3. CASE \E q \in 1..Sellable : Sell(q)
    <3>1. PICK q \in 1..Sellable : Sell(q)
      BY <2>3
    <3>2. Kept' /\ Narrow(rows')
      BY <1>2, <3>1, SellStep DEF Few
    <3>3. Fifo!Sell \/ Queue' = Queue
      BY <1>2, <3>1, <3>2, SellTakes
    <3> QED
      BY <3>2, <3>3 DEF Fifo!Next
  <2>4. CASE NextSession \/ UNCHANGED vars
    <3>1. Kept' /\ held' = held /\ rows' = rows
      BY <1>2, <2>4, SessionStep, SameStep
    <3> QED
      BY <1>2, <3>1 DEF Queue
  <2> QED
    BY <1>2, <2>1, <2>2, <2>3, <2>4 DEF Next
<1> QED
  BY <1>1, <1>2, PTL DEF Spec, ImplementsFifo, Fifo!Spec

\* Which is so at least while no more than ten were bought.
THEOREM TenPurchases == ASSUME MAX_BUYS <= 10 PROVE Spec => ImplementsFifo
<1> DEFINE Inv == Kept /\ Narrow(rows) /\ Len(held) <= calls.buys
<1>1. ASSUME Kept, Len(held) <= calls.buys PROVE Few /\ held \in Seq(OpenLot) /\ Len(held) \in Nat
  <2>1. calls.buys \in 0..MAX_BUYS /\ MAX_BUYS \in Nat
    BY <1>1, BoundsAssumption DEF Kept
  <2>2. held \in Seq(OpenLot) /\ Len(held) \in Nat
    BY <1>1, QueueNow
  <2> QED
    BY <1>1, <2>1, <2>2 DEF Few
<1>2. Init => Inv
  <2> SUFFICES ASSUME Init PROVE Len(held) <= calls.buys
    BY KeptInit
  <2>1. held = << >> /\ calls.buys = 0 /\ Len(<< >>) = 0
    BY DEF Init
  <2> QED
    BY <2>1
<1>3. ASSUME Inv, [Next]_vars PROVE Inv'
  <2>0. Few /\ held \in Seq(OpenLot) /\ Len(held) \in Nat /\ calls.buys \in Nat
    BY <1>1, <1>3, BoundsAssumption DEF Kept
  <2>1. CASE \E r \in Ratios : Split(r)
    <3>1. PICK r \in Ratios : Split(r)
      BY <2>1
    <3>2. Kept' /\ Narrow(rows') /\ held' = Reopened(held, r[1], r[2], Len(rows))
      BY <1>3, <2>0, <3>1, SplitStep DEF Few
    <3>3. Len(held') = Len(held)
      <4>1. PICK m \in Nat : m = Len(held) /\ DOMAIN held = 1..m
        BY <2>0
      <4>2. DOMAIN held' = 1..m
        BY <3>2, <4>1 DEF Reopened
      <4>3. held' \in Seq(OpenLot)
        BY <3>2, OpenFacts DEF Kept, Sound, Whole
      <4> QED
        BY <4>1, <4>2, <4>3
    <3>4. calls'.buys = calls.buys
      BY <1>3, <3>1 DEF Split, Kept
    <3> QED
      BY <1>3, <3>2, <3>3, <3>4
  <2>2. CASE \E q \in Quantities : Buy(q)
    <3>1. PICK q \in Quantities : Buy(q)
      BY <2>2
    <3>2. Kept' /\ Narrow(rows') /\ calls'.buys = calls.buys + 1
          /\ held' = Append(held, [lot |-> <<Len(rows)>>, quantity |-> q, cost |-> Costs[now]])
      BY <1>3, <3>1, BuyStep
    <3>3. Len(held') = Len(held) + 1
      BY <2>0, <3>2
    <3> QED
      BY <1>3, <2>0, <3>2, <3>3
  <2>3. CASE \E q \in 1..Sellable : Sell(q)
    <3>1. PICK q \in 1..Sellable : Sell(q)
      BY <2>3
    <3>2. Kept' /\ Narrow(rows') /\ calls'.buys = calls.buys /\ SoldFrom(held, held')
      BY <1>3, <2>0, <3>1, SellStep DEF Few
    <3>3. Len(held') <= Len(held)
      <4>1. PICK whole \in 0..Len(held) :
              \/ held' = Rest(held, whole)
              \/ \E part : held' = [Rest(held, whole) EXCEPT ![1].quantity = part]
        BY <3>2 DEF SoldFrom
      <4>2. Rest(held, whole) \in Seq(OpenLot) /\ Len(Rest(held, whole)) = Len(held) - whole
        BY <2>0, RestIs
      <4>3. Len(held') = Len(Rest(held, whole))
        BY <4>1, <4>2
      <4> QED
        BY <2>0, <4>2, <4>3
    <3>4. held' \in Seq(OpenLot) /\ Len(held') \in Nat
      <4>1. held' \in Seq(OpenLot)
        BY <3>2, OpenFacts DEF Kept, Sound, Whole
      <4> QED
        BY <4>1
    <3> QED
      BY <1>3, <2>0, <3>2, <3>3, <3>4
  <2>4. CASE NextSession \/ UNCHANGED vars
    <3>1. Kept' /\ held' = held /\ rows' = rows /\ calls' = calls
      BY <1>3, <2>4, SessionStep, SameStep
    <3> QED
      BY <1>3, <3>1
  <2> QED
    BY <1>3, <2>1, <2>2, <2>3, <2>4 DEF Next
<1>4. Inv => Few
  BY <1>1
<1> QED
  BY <1>2, <1>3, <1>4, QueueUpToTen, PTL DEF Spec
=============================================================================
