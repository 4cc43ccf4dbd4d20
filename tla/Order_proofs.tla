----------------------------- MODULE Order_proofs -----------------------------
(***************************************************************************)
(* What the proofs of several components need: a set of numbers has a      *)
(* least element, and one that is bounded a greatest; what goes on from    *)
(* each number to the next holds of all; what a list holds that was        *)
(* sifted, joined or flattened; and that a sum does not depend on the      *)
(* order its elements are taken in.                                        *)
(***************************************************************************)
EXTENDS Sifting, FiniteSetTheorems, WellFoundedInduction, TLAPS

\* The intervals 1..n, n in the set, are finite and ordered by inclusion, which is
\* well-founded: the smallest of them belongs to the least element.
LEMMA LeastOf ==
  ASSUME NEW T \in SUBSET Nat, T # {}
  PROVE  \E n \in T : \A m \in T : n <= m
<1>1. PICK N \in Nat : N \in T
  OBVIOUS
<1> DEFINE S == 1..N
           B == {1..n : n \in T \cap 0..N}
<1>2. IsFiniteSet(S)
  BY FS_Interval
<1>3. /\ IsWellFoundedOn(StrictSubsetOrdering(S), FiniteSubsetsOf(S))
      /\ FiniteSubsetsOf(S) = SUBSET S
  BY <1>2, FS_StrictSubsetOrderingWellFounded, FS_FiniteSubsetsOfFinite, Zenon
<1>4. IsWellFoundedOn(StrictSubsetOrdering(S), SUBSET S)
  BY <1>3
<1>5. B \subseteq SUBSET S /\ B # {}
  BY <1>1
<1>6. \E x \in B : \A y \in B : ~ (<<y, x>> \in StrictSubsetOrdering(S))
  BY <1>4, <1>5, WFMin, Zenon
<1>7. PICK n \in T \cap 0..N : \A y \in B : ~ (y \subseteq 1..n /\ y # 1..n)
  BY <1>5, <1>6 DEF StrictSubsetOrdering
<1>8. ASSUME NEW m \in T, ~(n <= m) PROVE FALSE
  <2>1. m \in 0..N /\ 1..m \in B
    BY <1>8
  <2>2. 1..m \subseteq 1..n /\ n \in 1..n /\ n \notin 1..m
    BY <1>8, <2>1
  <2>3. QED
    BY <2>1, <2>2, <1>7
<1>9. QED
  BY <1>7, <1>8

\* What holds at a, and goes on from every number to the next, holds up to n.
LEMMA Induct ==
  ASSUME NEW T, NEW a \in Nat, NEW n \in Nat, a \in T,
         \A i \in a..(n - 1) : i \in T => i + 1 \in T
  PROVE  \A i \in a..n : i \in T
<1> DEFINE Left == {i \in a..n : i \notin T}
<1> SUFFICES ASSUME Left # {} PROVE FALSE
  OBVIOUS
<1>1. Left \in SUBSET Nat
  OBVIOUS
<1>2. PICK i \in Left : \A j \in Left : i <= j
  BY <1>1, LeastOf
<1>3. i \in a..n /\ i \notin T /\ i # a
  BY <1>2
<1>4. i - 1 \in a..(n - 1) /\ i - 1 \notin Left
  BY <1>2, <1>3
<1>5. i - 1 \in T
  BY <1>4
<1>6. (i - 1) + 1 \in T
  BY <1>4, <1>5
<1> QED
  BY <1>3, <1>6

\* The least of the upper bounds of a bounded set is in it.
LEMMA GreatestUpTo ==
  ASSUME NEW n \in Nat, NEW T \in SUBSET (0..n), T # {}
  PROVE  /\ Max(T) \in T /\ \A k \in T : k <= Max(T)
         /\ \A m \in T : (\A k \in T : k <= m) => m = Max(T)
<1> DEFINE Bounds == {m \in Nat : \A k \in T : k <= m}
<1>1. n \in Bounds /\ Bounds \in SUBSET Nat
  OBVIOUS
<1>2. PICK m \in Bounds : \A b \in Bounds : m <= b
  BY <1>1, LeastOf
<1>3. m \in T
  <2> SUFFICES ASSUME m \notin T PROVE FALSE
    OBVIOUS
  <2>1. PICK k \in T : k \in 0..n
    OBVIOUS
  <2>2. k <= m /\ k # m
    BY <1>2
  <2>3. m - 1 \in Nat
    BY <1>2, <2>1, <2>2
  <2>4. \A j \in T : j <= m /\ j # m /\ j \in Nat
    BY <1>2
  <2>5. m - 1 \in Bounds
    BY <1>2, <2>3, <2>4
  <2>6. QED
    BY <1>2, <2>3, <2>5
<1>4. \E x \in T : \A y \in T : x >= y
  BY <1>2, <1>3
<1>5. Max(T) \in T /\ \A y \in T : Max(T) >= y
  BY <1>4 DEF Max
<1>6. \A j, k \in T : j <= k /\ k <= j => j = k
  OBVIOUS
<1>7. \A j, k \in T : j >= k <=> k <= j
  OBVIOUS
<1>8. QED
  BY <1>5, <1>6, <1>7

\* The same, of a set of positions of a list.
LEMMA Greatest ==
  ASSUME NEW n \in Nat, NEW T \in SUBSET (1..n), T # {}
  PROVE  /\ Max(T) \in T /\ \A k \in T : k <= Max(T)
         /\ \A m \in T : (\A k \in T : k <= m) => m = Max(T)
<1>1. T \in SUBSET (0..n)
  OBVIOUS
<1> QED
  BY <1>1, GreatestUpTo

\* Counting in rows of m: each number has its row and its place in it.
LEMMA Rows ==
  ASSUME NEW m \in Nat, NEW a \in Nat, NEW n \in 1..(a * m)
  PROVE  /\ ((n - 1) \div m) + 1 \in 1..a /\ ((n - 1) % m) + 1 \in 1..m
         /\ n = m * ((n - 1) \div m) + ((n - 1) % m) + 1
         /\ (n - 1) \div m \in Int /\ (n - 1) % m \in Int
<1>1. m # 0
  OBVIOUS
<1>2. n - 1 \in Nat /\ m \in Nat \ {0}
  BY <1>1
<1>3. n - 1 = m * ((n - 1) \div m) + ((n - 1) % m) /\ (n - 1) % m \in 0..(m - 1)
      /\ (n - 1) \div m \in Int
  BY <1>2
<1>4. (n - 1) \div m >= 0
  BY <1>2
<1>5. (n - 1) \div m < a
  BY <1>2, <1>3
<1> QED
  BY <1>2, <1>3, <1>4, <1>5

\* A set has as many elements as one it is mapped onto, one to one.
LEMMA SameCount ==
  ASSUME NEW S, NEW T, IsFiniteSet(S), NEW f \in [S -> T],
         \A x, y \in S : f[x] = f[y] => x = y,
         \A t \in T : \E x \in S : f[x] = t
  PROVE  IsFiniteSet(T) /\ Cardinality(T) = Cardinality(S)
<1>1. f \in Injection(S, T) /\ f \in Surjection(S, T)
  BY DEF Injection, Surjection, IsInjective
<1> QED
  BY <1>1, FS_Surjection

-----------------------------------------------------------------------------
(* Sequences of nothing, of one element, of as many as there are indices. *)

\* A list of one element, and the list of none.
LEMMA One ==
  ASSUME NEW S, NEW x \in S
  PROVE  <<x>> \in Seq(S) /\ <<x>> # << >> /\ << >> \in Seq(S)
OBVIOUS

\* A function on 1..n is a list of length n.
LEMMA Listed ==
  ASSUME NEW S, NEW n \in Nat, NEW f, f = [k \in 1..n |-> f[k]], \A k \in 1..n : f[k] \in S
  PROVE  /\ f \in Seq(S) /\ Len(f) = n /\ DOMAIN f = 1..n
         /\ f = << >> <=> n = 0
OBVIOUS

\* A list has elements unless it is empty.
LEMMA Something ==
  ASSUME NEW S, NEW s \in Seq(S)
  PROVE  /\ \A x : x \in ToSet(s) <=> \E k \in DOMAIN s : x = s[k]
         /\ s = << >> <=> ToSet(s) = {}
         /\ ToSet(s) \subseteq S /\ \A k \in DOMAIN s : s[k] \in S
<1>1. DOMAIN s = 1..Len(s) /\ Len(s) \in Nat /\ \A k \in DOMAIN s : s[k] \in S
  OBVIOUS
<1>2. \A x : x \in ToSet(s) <=> \E k \in DOMAIN s : x = s[k]
  BY DEF ToSet
<1>3. s # << >> => 1 \in DOMAIN s
  BY <1>1
<1>4. s = << >> => DOMAIN s = {}
  BY <1>1
<1> QED
  BY <1>1, <1>2, <1>3, <1>4

\* The last elements of a list.
LEMMA Ended ==
  ASSUME NEW S, NEW s \in Seq(S), NEW N \in Nat, N = Len(s), NEW from \in 1..N
  PROVE  /\ SubSeq(s, from, N) \in Seq(S) /\ DOMAIN SubSeq(s, from, N) = 1..(N - from + 1)
         /\ \A k \in 1..(N - from + 1) : SubSeq(s, from, N)[k] = s[from + k - 1]
OBVIOUS

\* Where the elements of two lists are once they are joined.
LEMMA Joined ==
  ASSUME NEW S, NEW s \in Seq(S), NEW t \in Seq(S)
  PROVE  /\ s \o t \in Seq(S) /\ Len(s \o t) = Len(s) + Len(t)
         /\ Len(s) \in Nat /\ Len(t) \in Nat
         /\ DOMAIN s = 1..Len(s) /\ DOMAIN t = 1..Len(t) /\ DOMAIN (s \o t) = 1..(Len(s) + Len(t))
         /\ \A k \in 1..Len(s) : (s \o t)[k] = s[k]
         /\ \A k \in 1..Len(t) : (s \o t)[Len(s) + k] = t[k]
         /\ s \o t = << >> <=> s = << >> /\ t = << >>
OBVIOUS

\* The same of three lists.
LEMMA JoinedTwice ==
  ASSUME NEW S, NEW s \in Seq(S), NEW t \in Seq(S), NEW u \in Seq(S),
         NEW a, NEW b, NEW c, a = Len(s), b = Len(t), c = Len(u)
  PROVE  /\ a \in Nat /\ b \in Nat /\ c \in Nat
         /\ (s \o t) \o u \in Seq(S) /\ Len((s \o t) \o u) = a + b + c
         /\ DOMAIN ((s \o t) \o u) = 1..(a + b + c)
         /\ \A k \in 1..a : k \in DOMAIN s /\ ((s \o t) \o u)[k] = s[k]
         /\ \A k \in 1..b : k \in DOMAIN t /\ ((s \o t) \o u)[a + k] = t[k]
         /\ \A k \in 1..c : k \in DOMAIN u /\ ((s \o t) \o u)[a + b + k] = u[k]
<1>1. /\ s \o t \in Seq(S) /\ Len(s \o t) = a + b
      /\ a \in Nat /\ b \in Nat /\ c \in Nat
      /\ DOMAIN s = 1..a /\ DOMAIN t = 1..b /\ DOMAIN u = 1..c
      /\ \A k \in 1..a : (s \o t)[k] = s[k]
      /\ \A k \in 1..b : (s \o t)[a + k] = t[k]
  BY Joined
<1> DEFINE st == s \o t
<1>2. /\ st \o u \in Seq(S) /\ Len(st \o u) = (a + b) + c
      /\ DOMAIN (st \o u) = 1..(a + b + c)
      /\ \A k \in 1..(a + b) : (st \o u)[k] = st[k]
      /\ \A k \in 1..c : (st \o u)[(a + b) + k] = u[k]
  <2> HIDE DEF st
  <2> QED
    BY <1>1, Joined DEF st
<1>3. /\ \A k \in 1..a : k \in 1..(a + b)
      /\ \A k \in 1..b : a + k \in 1..(a + b)
  BY <1>1
<1> QED
  BY <1>1, <1>2, <1>3

-----------------------------------------------------------------------------
(* What is chosen from a sequence, and in which order. *)

Below(kept, k) == {j \in kept : j < k}

\* The n-th position kept is well defined, and the positions keep their order.
LEMMA Ranks ==
  ASSUME NEW n \in Nat, NEW kept \in SUBSET (1..n)
  PROVE  /\ IsFiniteSet(kept) /\ Cardinality(kept) \in 0..n
         /\ \A i \in 1..Cardinality(kept) : Nth(kept, i) \in kept
         /\ \A k \in kept : \E i \in 1..Cardinality(kept) : Nth(kept, i) = k
         /\ \A i, j \in 1..Cardinality(kept) : i < j => Nth(kept, i) < Nth(kept, j)
         /\ Cardinality(kept) = n => kept = 1..n
<1> DEFINE c == Cardinality(kept)
           rank == [k \in kept |-> Cardinality(Below(kept, k))]
<1>1. IsFiniteSet(1..n) /\ Cardinality(1..n) = n
  BY FS_Interval
<1>2. IsFiniteSet(kept) /\ c \in Nat /\ c <= n /\ (c = n => kept = 1..n)
  BY <1>1, FS_Subset, FS_CardinalityType
<1>3. ASSUME NEW k \in kept, NEW T \in SUBSET kept, NEW U \in SUBSET T, k \in T, k \notin U
      PROVE  Cardinality(U) < Cardinality(T) /\ Cardinality(U) \in Nat
  <2>1. IsFiniteSet(T)
    BY <1>2, FS_Subset
  <2>2. IsFiniteSet(U) /\ Cardinality(U) <= Cardinality(T) /\ U # T
    BY <1>3, <2>1, FS_Subset
  <2>3. Cardinality(T) = Cardinality(U) => T = U
    BY <2>1, FS_Subset
  <2> QED
    BY <2>1, <2>2, <2>3, FS_CardinalityType
<1>4. \A k \in kept : rank[k] < c /\ rank[k] \in Nat
  <2> TAKE k \in kept
  <2>1. Below(kept, k) \in SUBSET kept /\ k \notin Below(kept, k)
    BY DEF Below
  <2> QED
    BY <1>3, <2>1
<1>5. \A k, l \in kept : k < l => rank[k] < rank[l]
  <2> TAKE k, l \in kept
  <2> HAVE k < l
  <2>1. /\ Below(kept, l) \in SUBSET kept
        /\ k \in Below(kept, l) /\ k \notin Below(kept, k)
    BY DEF Below
  <2>2. Below(kept, k) \in SUBSET Below(kept, l)
    <3>1. \A j \in kept : j < k => j < l
      OBVIOUS
    <3> QED
      BY <3>1 DEF Below
  <2> QED
    BY <1>3, <2>1, <2>2
<1>6. IsFiniteSet(0..(c - 1)) /\ Cardinality(0..(c - 1)) = c
  <2> HIDE DEF c
  <2>1. /\ IsFiniteSet(0..(c - 1))
        /\ Cardinality(0..(c - 1)) = IF 0 > c - 1 THEN 0 ELSE (c - 1) - 0 + 1
    BY <1>2, FS_Interval
  <2> QED
    BY <1>2, <2>1
<1>7. rank \in [kept -> 0..(c - 1)]
  BY <1>2, <1>4
<1>8. \A k, l \in kept : k # l => rank[k] # rank[l]
  BY <1>4, <1>5
<1> HIDE DEF rank
<1>9. rank \in Injection(kept, 0..(c - 1))
  BY <1>7, <1>8 DEF Injection, IsInjective
<1>10. rank \in Surjection(kept, 0..(c - 1))
  BY <1>2, <1>6, <1>9, FS_Injection
<1>11. ASSUME NEW i \in 1..c PROVE Nth(kept, i) \in kept /\ rank[Nth(kept, i)] = i - 1
  <2>1. i - 1 \in 0..(c - 1)
    BY <1>2
  <2>2. PICK k \in kept : rank[k] = i - 1
    BY <1>10, <2>1 DEF Surjection
  <2>3. Cardinality(Below(kept, k)) = i - 1
    BY <2>2 DEF rank
  <2>4. Nth(kept, i) \in kept /\ Cardinality(Below(kept, Nth(kept, i))) = i - 1
    BY <2>3 DEF Nth, Below
  <2> QED
    BY <2>4 DEF rank
<1>12. ASSUME NEW k \in kept PROVE \E i \in 1..c : Nth(kept, i) = k
  <2>1. rank[k] + 1 \in 1..c
    BY <1>2, <1>7
  <2>2. rank[Nth(kept, rank[k] + 1)] = rank[k] /\ Nth(kept, rank[k] + 1) \in kept
    BY <1>7, <1>11, <2>1
  <2> QED
    BY <1>8, <2>1, <2>2
<1>13. ASSUME NEW i \in 1..c, NEW j \in 1..c, i < j PROVE Nth(kept, i) < Nth(kept, j)
  <2>1. rank[Nth(kept, i)] < rank[Nth(kept, j)] /\ Nth(kept, i) \in 1..n /\ Nth(kept, j) \in 1..n
    <3>1. rank[Nth(kept, i)] = i - 1 /\ rank[Nth(kept, j)] = j - 1
      BY <1>11
    <3>2. Nth(kept, i) \in kept /\ Nth(kept, j) \in kept
      BY <1>11
    <3>3. i - 1 < j - 1
      BY <1>2, <1>13
    <3> QED
      BY <3>1, <3>2, <3>3
  <2>2. ~(Nth(kept, j) < Nth(kept, i)) /\ Nth(kept, i) # Nth(kept, j)
    BY <1>5, <1>7, <1>11, <2>1
  <2> QED
    BY <2>1, <2>2
<1> QED
  BY <1>2, <1>11, <1>12, <1>13

\* What is chosen is in the sequence, in its order; it is all of it only when
\* every position is kept.
LEMMA ChosenIs ==
  ASSUME NEW S, NEW s \in Seq(S), NEW kept \in SUBSET (DOMAIN s)
  PROVE  /\ Chosen(s, kept) \in Seq(S) /\ Len(Chosen(s, kept)) = Cardinality(kept)
         /\ Cardinality(kept) \in Nat /\ DOMAIN Chosen(s, kept) = 1..Cardinality(kept)
         /\ \A i \in 1..Cardinality(kept) :
              Nth(kept, i) \in kept /\ Chosen(s, kept)[i] = s[Nth(kept, i)]
         /\ \A k \in kept : \E i \in 1..Cardinality(kept) :
              Nth(kept, i) = k /\ Chosen(s, kept)[i] = s[k]
         /\ \A i, j \in 1..Cardinality(kept) : i < j => Nth(kept, i) < Nth(kept, j)
         /\ Chosen(s, kept) = s <=> kept = DOMAIN s
         /\ Chosen(s, kept) = << >> <=> kept = {}
<1> DEFINE c == Cardinality(kept)
           out == Chosen(s, kept)
<1>1. Len(s) \in Nat /\ DOMAIN s = 1..Len(s) /\ kept \in SUBSET (1..Len(s))
      /\ \A k \in DOMAIN s : s[k] \in S
  OBVIOUS
<1>2. /\ IsFiniteSet(kept) /\ c \in 0..Len(s)
      /\ \A i \in 1..c : Nth(kept, i) \in kept
      /\ \A k \in kept : \E i \in 1..c : Nth(kept, i) = k
      /\ \A i, j \in 1..c : i < j => Nth(kept, i) < Nth(kept, j)
      /\ c = Len(s) => kept = 1..Len(s)
  BY <1>1, Ranks
<1>3. out = [i \in 1..c |-> s[Nth(kept, i)]]
  <2> DEFINE only == [i \in 1..c |-> s[Nth(kept, i)]]
             all == {[i \in 1..Cardinality(positions) |-> whole[Nth(positions, i)]]
                       : whole \in {s}, positions \in {kept}}
  <2>1. all = {only}
    OBVIOUS
  <2>2. out = CHOOSE chosen \in all : TRUE
    BY DEF Chosen
  <2> HIDE DEF only, all
  <2>3. out \in all
    BY <2>1, <2>2
  <2>4. out = only
    BY <2>1, <2>3
  <2> QED
    BY <2>4 DEF only
<1> HIDE DEF out
<1>4. out \in Seq(S) /\ Len(out) = c /\ DOMAIN out = 1..c
  BY <1>1, <1>2, <1>3
<1>5. \A k \in kept : \E i \in 1..c : Nth(kept, i) = k /\ out[i] = s[k]
  BY <1>2, <1>3
<1>6. ASSUME kept = DOMAIN s PROVE out = s
  <2>1. c = Len(s)
    <3>1. PICK m \in Nat : m = Len(s)
      BY <1>1
    <3>2. Cardinality(1..m) = m
      BY FS_Interval
    <3>3. kept = 1..m
      BY <1>1, <1>6, <3>1
    <3> QED
      BY <3>1, <3>2, <3>3
  <2>2. ASSUME NEW i \in 1..c PROVE Nth(kept, i) = i
    <3>1. i \in kept /\ i - 1 \in Nat
      BY <1>1, <1>6, <2>1
    <3>2. Below(kept, i) = 1..(i - 1)
      BY <1>1, <1>6, <3>1 DEF Below
    <3>3. Cardinality(Below(kept, i)) = i - 1
      BY <3>1, <3>2, FS_Interval
    <3>4. \E k \in kept : Cardinality(Below(kept, k)) = i - 1
      BY <3>1, <3>3
    <3>5. Nth(kept, i) \in kept /\ Cardinality(Below(kept, Nth(kept, i))) = i - 1
      BY <3>4 DEF Nth, Below
    <3> DEFINE m == Nth(kept, i)
    <3> HIDE DEF m
    <3>6. m \in kept /\ Cardinality(Below(kept, m)) = i - 1
      BY <3>5 DEF m
    <3>7. Below(kept, m) = 1..(m - 1) /\ m - 1 \in Nat /\ m \in Nat
      BY <1>1, <1>6, <3>6 DEF Below
    <3>8. Cardinality(1..(m - 1)) = m - 1
      BY <3>7, FS_Interval
    <3>9. m - 1 = i - 1
      BY <3>6, <3>7, <3>8
    <3> QED
      BY <3>7, <3>9 DEF m
  <2>3. \A i \in 1..c : out[i] = s[i]
    BY <1>3, <2>2
  <2> QED
    BY <1>1, <1>4, <2>1, <2>3
<1>7. ASSUME out = s PROVE kept = DOMAIN s
  <2>1. c = Len(s)
    BY <1>4, <1>7
  <2> QED
    BY <1>1, <1>2, <2>1
<1>8. out = << >> <=> kept = {}
  <2>1. c = 0 <=> kept = {}
    BY <1>2, FS_EmptySet
  <2> QED
    BY <1>4, <2>1
<1> QED
  BY <1>2, <1>3, <1>4, <1>5, <1>6, <1>7, <1>8 DEF out

\* What is chosen is what stands at the positions kept, and ends with the last.
LEMMA ChosenSays ==
  ASSUME NEW S, NEW s \in Seq(S), NEW kept \in SUBSET (DOMAIN s)
  PROVE  /\ \A x : x \in ToSet(Chosen(s, kept)) <=> \E k \in kept : x = s[k]
         /\ kept # {} => \E last \in kept :
              /\ Chosen(s, kept)[Len(Chosen(s, kept))] = s[last]
              /\ Chosen(s, kept) # << >> /\ Len(Chosen(s, kept)) \in Nat \ {0}
              /\ last = Nth(kept, Len(Chosen(s, kept)))
              /\ \A k \in kept : k <= last
<1> DEFINE c == Cardinality(kept)
           out == Chosen(s, kept)
<1>1. /\ out \in Seq(S) /\ Len(out) = c /\ c \in Nat /\ DOMAIN out = 1..c
      /\ \A i \in 1..c : Nth(kept, i) \in kept /\ out[i] = s[Nth(kept, i)]
      /\ \A k \in kept : \E i \in 1..c : Nth(kept, i) = k /\ out[i] = s[k]
      /\ \A i, j \in 1..c : i < j => Nth(kept, i) < Nth(kept, j)
      /\ out = << >> <=> kept = {}
  BY ChosenIs
<1> HIDE DEF out, c
<1>2. \A x : x \in ToSet(out) <=> \E k \in kept : x = s[k]
  <2>1. ASSUME NEW i \in 1..c PROVE \E k \in kept : out[i] = s[k]
    BY <1>1
  <2>2. \A x : x \in ToSet(out) <=> \E i \in 1..c : x = out[i]
    BY <1>1 DEF ToSet
  <2>3. \A k \in kept : \E i \in 1..c : out[i] = s[k]
    BY <1>1
  <2> QED
    BY <2>1, <2>2, <2>3
<1>3. ASSUME kept # {}
      PROVE  \E last \in kept : /\ out[c] = s[last] /\ out # << >> /\ c \in Nat \ {0}
                                /\ last = Nth(kept, c) /\ \A k \in kept : k <= last
  <2>1. c \in 1..c
    BY <1>1, <1>3
  <2>2. \A k \in kept : k \in Nat
    OBVIOUS
  <2>3. ASSUME NEW k \in kept PROVE k <= Nth(kept, c)
    <3>1. PICK i \in 1..c : Nth(kept, i) = k
      BY <1>1
    <3>2. i = c \/ i < c
      BY <1>1
    <3> QED
      BY <1>1, <2>1, <2>2, <3>1, <3>2
  <2> QED
    BY <1>1, <1>3, <2>1, <2>3
<1> QED
  BY <1>1, <1>2, <1>3 DEF out, c

-----------------------------------------------------------------------------
\* A concatenation says what its parts say.
LEMMA ConcatSays ==
  ASSUME NEW S, NEW s \in Seq(S), NEW t \in Seq(S)
  PROVE  s \o t \in Seq(S) /\ ToSet(s \o t) = ToSet(s) \cup ToSet(t)
<1>1. /\ s \o t \in Seq(S) /\ Len(s \o t) = Len(s) + Len(t)
      /\ DOMAIN (s \o t) = 1..(Len(s) + Len(t)) /\ Len(s) \in Nat /\ Len(t) \in Nat
      /\ DOMAIN s = 1..Len(s) /\ DOMAIN t = 1..Len(t)
  OBVIOUS
<1>2. \A k \in 1..(Len(s) + Len(t)) :
        (s \o t)[k] = IF k <= Len(s) THEN s[k] ELSE t[k - Len(s)]
  OBVIOUS
<1>3. ASSUME NEW k \in DOMAIN (s \o t) PROVE (s \o t)[k] \in ToSet(s) \cup ToSet(t)
  <2>1. CASE k <= Len(s)
    BY <1>1, <1>2, <2>1 DEF ToSet
  <2>2. CASE k > Len(s)
    <3>1. k - Len(s) \in DOMAIN t /\ (s \o t)[k] = t[k - Len(s)]
      BY <1>1, <1>2, <2>2
    <3> QED
      BY <3>1 DEF ToSet
  <2> QED
    BY <1>1, <2>1, <2>2
<1>4. ASSUME NEW k \in DOMAIN s PROVE s[k] \in ToSet(s \o t)
  <2>1. k \in DOMAIN (s \o t) /\ (s \o t)[k] = s[k]
    BY <1>1, <1>2
  <2> QED
    BY <2>1 DEF ToSet
<1>5. ASSUME NEW k \in DOMAIN t PROVE t[k] \in ToSet(s \o t)
  <2>1. k + Len(s) \in DOMAIN (s \o t) /\ (s \o t)[k + Len(s)] = t[k]
    BY <1>1, <1>2
  <2> QED
    BY <2>1 DEF ToSet
<1> QED
  BY <1>1, <1>3, <1>4, <1>5 DEF ToSet

\* The recursion of FlattenSeq has a solution, and any solution holds, up to the
\* i-th part, what the first i parts hold.
LEMMA FlattenSays ==
  ASSUME NEW S, NEW seqs \in Seq(Seq(S))
  PROVE  /\ FlattenSeq(seqs) \in Seq(S)
         /\ \A x : x \in ToSet(FlattenSeq(seqs)) <=> \E k \in DOMAIN seqs : x \in ToSet(seqs[k])
<1> DEFINE N == Len(seqs)
<1>1. N \in Nat /\ DOMAIN seqs = 1..N /\ \A k \in 1..N : seqs[k] \in Seq(S)
  OBVIOUS
<1>2. CASE N = 0
  <2>1. FlattenSeq(seqs) = << >> /\ seqs = << >> /\ ToSet(<< >>) = {} /\ DOMAIN seqs = {}
    BY <1>1, <1>2 DEF FlattenSeq, ToSet
  <2> QED
    BY <2>1
<1>3. CASE N > 0
  <2>0. N \in 1..N /\ 1 \in 1..N /\ \A k \in 1..1 : k = 1
    BY <1>1, <1>3
  <2> HIDE DEF N
  <2> DEFINE Joins(g, m) == \A i \in 1..m : g[i] = IF i = 1 THEN seqs[i] ELSE g[i - 1] \o seqs[i]
             Solved == {m \in 1..N : \E g \in [1..m -> Seq(S)] : Joins(g, m)}
  <2>1. \A m \in 1..N : m \in Solved
    <3>1. 1 \in Solved
      <4> DEFINE g == [i \in 1..1 |-> seqs[1]]
      <4>1. g \in [1..1 -> Seq(S)] /\ Joins(g, 1)
        BY <1>1, <2>0
      <4>2. \E f \in [1..1 -> Seq(S)] : Joins(f, 1)
        BY <4>1
      <4> QED
        BY <2>0, <4>2
    <3>2. ASSUME NEW m \in 1..(N - 1), m \in Solved PROVE m + 1 \in Solved
      <4>1. PICK g \in [1..m -> Seq(S)] : Joins(g, m)
        BY <3>2
      <4> DEFINE h == [i \in 1..(m + 1) |-> IF i = m + 1 THEN g[m] \o seqs[m + 1] ELSE g[i]]
      <4>2. m \in 1..N /\ m + 1 \in 1..N /\ m \in 1..m /\ m + 1 # 1
        BY <1>1
      <4>3. g[m] \o seqs[m + 1] \in Seq(S)
        BY <1>1, <4>2
      <4>4. h \in [1..(m + 1) -> Seq(S)]
        BY <4>3
      <4>5. ASSUME NEW i \in 1..(m + 1) PROVE h[i] = IF i = 1 THEN seqs[i] ELSE h[i - 1] \o seqs[i]
        <5>1. CASE i = m + 1
          <6>1. i - 1 = m /\ h[m] = g[m] /\ h[i] = g[m] \o seqs[m + 1] /\ i # 1
            BY <4>2, <5>1
          <6> QED
            BY <5>1, <6>1
        <5>2. CASE i # m + 1
          <6>0. i \in 1..m
            BY <4>2, <5>2
          <6>1. i \in 1..m /\ h[i] = g[i] /\ g[i] = IF i = 1 THEN seqs[i] ELSE g[i - 1] \o seqs[i]
            BY <4>1, <5>2, <6>0
          <6>2. i # 1 => i - 1 \in 1..(m + 1) /\ i - 1 # m + 1
            BY <6>1
          <6> QED
            BY <6>1, <6>2
        <5> QED
          BY <5>1, <5>2
      <4> QED
        BY <4>2, <4>4, <4>5
    <3> HIDE DEF Solved
    <3> QED
      BY <1>1, <3>1, <3>2, Induct
  <2>2. \E g : g = [i \in 1..Len(seqs) |-> IF i = 1 THEN seqs[i] ELSE g[i - 1] \o seqs[i]]
    <3>0. N \in Solved
      <4> HIDE DEF Solved
      <4> QED
        BY <2>0, <2>1
    <3>1. PICK g \in [1..N -> Seq(S)] : Joins(g, N)
      BY <3>0
    <3>2. g = [i \in 1..N |-> IF i = 1 THEN seqs[i] ELSE g[i - 1] \o seqs[i]]
      BY <3>1
    <3> QED
      BY <3>2 DEF N
  <2> DEFINE flatten == CHOOSE g :
               g = [i \in 1..Len(seqs) |-> IF i = 1 THEN seqs[i] ELSE g[i - 1] \o seqs[i]]
  <2>3. FlattenSeq(seqs) = flatten[N]
    BY <1>3 DEF FlattenSeq, N
  <2>4. flatten = [i \in 1..Len(seqs) |-> IF i = 1 THEN seqs[i] ELSE flatten[i - 1] \o seqs[i]]
    BY <2>2, Zenon
  <2> HIDE DEF flatten
  <2>5. \A i \in 1..N : flatten[i] = IF i = 1 THEN seqs[i] ELSE flatten[i - 1] \o seqs[i]
    BY <2>4 DEF N
  <2> DEFINE Says(i) == /\ flatten[i] \in Seq(S)
                        /\ \A x : x \in ToSet(flatten[i]) <=> \E k \in 1..i : x \in ToSet(seqs[k])
             Right == {i \in 1..N : Says(i)}
  <2>6. \A i \in 1..N : i \in Right
    <3>1. 1 \in Right
      <4>1. flatten[1] = seqs[1] /\ seqs[1] \in Seq(S) /\ \A k \in 1..1 : k = 1
        BY <1>1, <2>0, <2>5
      <4> QED
        BY <2>0, <4>1
    <3>2. ASSUME NEW i \in 1..(N - 1), i \in Right PROVE i + 1 \in Right
      <4>1. i + 1 \in 1..N /\ i + 1 # 1 /\ (i + 1) - 1 = i /\ Says(i)
        BY <1>1, <3>2
      <4>2. flatten[i + 1] = flatten[i] \o seqs[i + 1] /\ seqs[i + 1] \in Seq(S)
        BY <1>1, <2>5, <4>1
      <4>3. /\ flatten[i + 1] \in Seq(S)
            /\ ToSet(flatten[i + 1]) = ToSet(flatten[i]) \cup ToSet(seqs[i + 1])
        BY <4>1, <4>2, ConcatSays
      <4>4. \A k : k \in 1..(i + 1) <=> k \in 1..i \/ k = i + 1
        OBVIOUS
      <4>5. Says(i + 1)
        BY <4>1, <4>3, <4>4
      <4> QED
        BY <4>1, <4>5
    <3> HIDE DEF Right
    <3> QED
      BY <1>1, <3>1, <3>2, Induct
  <2>7. N \in Right
    <3> HIDE DEF Right
    <3> QED
      BY <2>0, <2>6
  <2> QED
    BY <1>1, <2>3, <2>7
<1> QED
  BY <1>1, <1>2, <1>3
-----------------------------------------------------------------------------
(* Sums. *)

\* The elements of a sum are taken one by one, in any order.
AnyOf(t) == CHOOSE x \in t : TRUE
Adds(g, f, D) ==
  /\ g[{}] = 0
  /\ \A t \in SUBSET D : t # {} => g[t] = f[AnyOf(t)] + g[t \ {AnyOf(t)}]

\* What remains of a finite set without one of its elements has one element less.
LEMMA OneLess ==
  ASSUME NEW D, IsFiniteSet(D), NEW t \in SUBSET D
  PROVE  /\ IsFiniteSet(t) /\ Cardinality(t) \in 0..Cardinality(D) /\ Cardinality(D) \in Nat
         /\ Cardinality(t) = 0 <=> t = {}
         /\ \A x \in t : Cardinality(t \ {x}) = Cardinality(t) - 1
         /\ t # {} => AnyOf(t) \in t
<1>1. IsFiniteSet(t) /\ Cardinality(t) <= Cardinality(D)
  BY FS_Subset
<1>2. Cardinality(t) \in Nat /\ Cardinality(D) \in Nat
  BY <1>1, FS_CardinalityType
<1>3. Cardinality(t) = 0 <=> t = {}
  BY <1>1, FS_EmptySet
<1>4. \A x \in t : Cardinality(t \ {x}) = Cardinality(t) - 1
  BY <1>1, FS_RemoveElement
<1> QED
  BY <1>1, <1>2, <1>3, <1>4 DEF AnyOf

\* What holds of a finite set whenever it holds of it without any one element, holds
\* of all subsets.
LEMMA FiniteInduct ==
  ASSUME NEW D, IsFiniteSet(D), NEW P,
         \A t \in SUBSET D : (\A x \in t : t \ {x} \in P) => t \in P
  PROVE  \A t \in SUBSET D : t \in P
<1> DEFINE Sized == {n \in Nat : \A t \in SUBSET D : Cardinality(t) = n => t \in P}
<1>1. PICK N \in Nat : N = Cardinality(D)
  BY OneLess
<1>2. \A t \in SUBSET D : /\ Cardinality(t) \in 0..N
                          /\ \A x \in t : Cardinality(t \ {x}) = Cardinality(t) - 1
  <2> TAKE t \in SUBSET D
  <2> QED
    BY <1>1, OneLess
<1>3. 0 \in Sized
  <2>1. \A t \in SUBSET D : Cardinality(t) = 0 => t = {}
    BY OneLess
  <2>2. {} \in SUBSET D => {} \in P
    OBVIOUS
  <2> QED
    BY <2>1, <2>2
<1>4. ASSUME NEW n \in 0..(N - 1), n \in Sized PROVE n + 1 \in Sized
  <2>1. ASSUME NEW t \in SUBSET D, Cardinality(t) = n + 1 PROVE t \in P
    <3>1. ASSUME NEW x \in t PROVE t \ {x} \in P
      <4>1. t \ {x} \in SUBSET D
        OBVIOUS
      <4>2. Cardinality(t \ {x}) = n
        BY <1>2, <2>1
      <4> QED
        BY <1>4, <4>1, <4>2
    <3> QED
      BY <3>1
  <2>2. n + 1 \in Nat
    OBVIOUS
  <2> QED
    BY <2>1, <2>2
<1>5. \A n \in 0..N : n \in Sized
  <2> HIDE DEF Sized
  <2> QED
    BY <1>3, <1>4, Induct
<1> QED
  BY <1>2, <1>5

\* A recursion that takes the elements of a finite set one by one.
TakesApart(h, F, base, pick, D) ==
  h = [t \in SUBSET D |-> IF t = {} THEN base ELSE F[<<h[t \ {pick[t]}], pick[t]>>]]

\* What is done with each element: from the result so far to the next.
StepOn(A, S) == [A \X S -> A]
Picks(pick, D) == \A t \in SUBSET D : t # {} => pick[t] \in t

\* It has a solution.
LEMMA FiniteRecursion ==
  ASSUME NEW D, IsFiniteSet(D), NEW A, NEW base \in A, NEW F \in StepOn(A, D),
         NEW pick, Picks(pick, D)
  PROVE  \E h \in [SUBSET D -> A] : TakesApart(h, F, base, pick, D)
<1> DEFINE Upto(n) == {t \in SUBSET D : Cardinality(t) <= n}
           Result(h, t) == IF t = {} THEN base ELSE F[<<h[t \ {pick[t]}], pick[t]>>]
           Solves(n, h) == h \in [Upto(n) -> A] /\ h = [t \in Upto(n) |-> Result(h, t)]
           Solved == {n \in 0..Cardinality(D) : \E h : Solves(n, h)}
<1>1. PICK N \in Nat : N = Cardinality(D)
  BY OneLess
<1>2. \A t \in SUBSET D : Cardinality(t) \in 0..N /\ (Cardinality(t) = 0 <=> t = {})
  BY <1>1, OneLess
<1>3. \A t \in SUBSET D : t # {} => /\ pick[t] \in t /\ pick[t] \in D
                                    /\ t \ {pick[t]} \in SUBSET D
                                    /\ Cardinality(t \ {pick[t]}) = Cardinality(t) - 1
  <2> TAKE t \in SUBSET D
  <2> HAVE t # {}
  <2>1. pick[t] \in t
    BY DEF Picks
  <2> QED
    BY <2>1, OneLess
<1>4. \A n \in 0..N, t \in SUBSET D : t \in Upto(n) <=> Cardinality(t) <= n
  OBVIOUS
<1>5. \A n \in 0..N : {} \in Upto(n)
  <2>1. {} \in SUBSET D /\ Cardinality({}) = 0
    BY <1>2
  <2> HIDE DEF Upto
  <2> QED
    BY <1>4, <2>1
<1>6. \A n \in 0..N : \A t \in Upto(n) : t \in SUBSET D
  OBVIOUS
<1>7. 0 \in Solved
  <2> DEFINE h == [t \in Upto(0) |-> base]
  <2>1. ASSUME NEW t \in Upto(0) PROVE t = {}
    <3>0. 0 \in 0..N
      OBVIOUS
    <3> HIDE DEF Upto
    <3>1. t \in SUBSET D /\ Cardinality(t) <= 0
      BY <1>4, <1>6, <3>0
    <3> QED
      BY <1>2, <3>1
  <2>2. h \in [Upto(0) -> A] /\ h = [t \in Upto(0) |-> Result(h, t)]
    <3> HIDE DEF Upto
    <3> QED
      BY <2>1
  <2> HIDE DEF h, Upto, Result
  <2>3. Solves(0, h)
    BY <2>2
  <2> HIDE DEF Solves
  <2>4. 0 \in 0..Cardinality(D)
    BY <1>1
  <2> QED
    BY <2>3, <2>4
<1>8. ASSUME NEW n \in 0..(N - 1), n \in Solved PROVE n + 1 \in Solved
  <2>0. n \in 0..N /\ n + 1 \in 0..N
    OBVIOUS
  <2>1. PICK h : h \in [Upto(n) -> A] /\ h = [t \in Upto(n) |-> Result(h, t)]
    BY <1>8
  <2> DEFINE k == [t \in Upto(n + 1) |-> IF t \in Upto(n) THEN h[t] ELSE Result(h, t)]
  <2>2. ASSUME NEW t \in Upto(n + 1) PROVE k[t] = Result(k, t) /\ k[t] \in A
    <3>1. CASE t = {}
      <4>1. t \in Upto(n)
        <5> HIDE DEF Upto
        <5> QED
          BY <1>5, <2>0, <3>1
      <4> QED
        BY <2>1, <3>1, <4>1
    <3>2. CASE t # {}
      <4>1. /\ t \ {pick[t]} \in Upto(n) /\ t \ {pick[t]} \in Upto(n + 1) /\ pick[t] \in D
        <5> HIDE DEF Upto
        <5>0. t \in SUBSET D /\ Cardinality(t) <= n + 1
          BY <1>4, <1>6, <2>0
        <5>1. /\ Cardinality(t) \in 0..N /\ t \ {pick[t]} \in SUBSET D
              /\ Cardinality(t \ {pick[t]}) = Cardinality(t) - 1
          BY <1>2, <1>3, <3>2, <5>0
        <5>2. Cardinality(t \ {pick[t]}) <= n
          BY <5>0, <5>1
        <5>3. Cardinality(t \ {pick[t]}) <= n + 1
          BY <5>0, <5>1
        <5>4. pick[t] \in D
          BY <1>3, <3>2, <5>0
        <5> QED
          BY <1>4, <2>0, <5>1, <5>2, <5>3, <5>4
      <4>2. k[t \ {pick[t]}] = h[t \ {pick[t]}] /\ h[t \ {pick[t]}] \in A
        BY <2>1, <4>1
      <4>3. k[t] = F[<<h[t \ {pick[t]}], pick[t]>>]
        <5>1. CASE t \in Upto(n)
          BY <2>1, <3>2, <5>1
        <5>2. CASE t \notin Upto(n)
          BY <3>2, <5>2
        <5> QED
          BY <5>1, <5>2
      <4>4. k[t] \in A
        <5> HIDE DEF Upto, k
        <5> QED
          BY <4>1, <4>2, <4>3 DEF StepOn
      <4> QED
        BY <3>2, <4>2, <4>3, <4>4
    <3> QED
      BY <3>1, <3>2
  <2>3. k \in [Upto(n + 1) -> A] /\ k = [t \in Upto(n + 1) |-> Result(k, t)]
    <3>1. k = [t \in Upto(n + 1) |-> Result(k, t)]
      <4> HIDE DEF Result
      <4> QED
        BY <2>2
    <3>2. \A t \in Upto(n + 1) : k[t] \in A
      BY <2>2
    <3>3. k = [t \in Upto(n + 1) |-> k[t]]
      OBVIOUS
    <3> HIDE DEF Result, k, Upto
    <3> QED
      BY <3>1, <3>2, <3>3
  <2>4. n + 1 \in 0..Cardinality(D)
    BY <1>1
  <2> HIDE DEF Result, k, Upto
  <2>5. Solves(n + 1, k)
    BY <2>3
  <2> HIDE DEF Solves
  <2> QED
    BY <2>4, <2>5
<1>9. N \in Solved
  <2> HIDE DEF Solved
  <2>1. \A i \in 0..N : i \in Solved
    BY <1>7, <1>8, Induct
  <2> QED
    BY <2>1
<1>10. Upto(N) = SUBSET D
  <2>1. \A t \in SUBSET D : Cardinality(t) <= N
    BY <1>2
  <2> QED
    BY <2>1
<1>11. PICK h : Solves(N, h)
  <2> HIDE DEF Solves
  <2> QED
    BY <1>9
<1>12. h \in [SUBSET D -> A] /\ h = [t \in SUBSET D |-> Result(h, t)]
  <2> HIDE DEF Result, Upto
  <2> QED
    BY <1>10, <1>11
<1> QED
  BY <1>12 DEF TakesApart

\* The recursion of SumFunction is one of those.
LEMMA SumAdds ==
  ASSUME NEW D, IsFiniteSet(D), NEW f, DOMAIN f = D, \A x \in D : f[x] \in Int
  PROVE  \E g : Adds(g, f, D) /\ SumFunction(f) = g[D]
<1> DEFINE pick == [t \in SUBSET D |-> AnyOf(t)]
           F == [p \in Int \X D |-> f[p[2]] + p[1]]
<1>1. F \in StepOn(Int, D) /\ Picks(pick, D)
  BY DEF AnyOf, StepOn, Picks
<1>2. PICK h \in [SUBSET D -> Int] : TakesApart(h, F, 0, pick, D)
  <2>1. 0 \in Int
    OBVIOUS
  <2> HIDE DEF F, pick
  <2> QED
    BY <1>1, <2>1, FiniteRecursion
<1>3. ASSUME NEW t \in SUBSET D, t # {}
      PROVE  F[<<h[t \ {pick[t]}], pick[t]>>] = f[AnyOf(t)] + h[t \ {AnyOf(t)}]
  <2>1. AnyOf(t) \in D /\ pick[t] = AnyOf(t) /\ h[t \ {AnyOf(t)}] \in Int
    BY <1>3 DEF AnyOf
  <2> QED
    BY <2>1
<1>4. h = [t \in SUBSET D |-> IF t = {} THEN 0 ELSE f[AnyOf(t)] + h[t \ {AnyOf(t)}]]
  <2> HIDE DEF F, pick
  <2> QED
    BY <1>2, <1>3 DEF TakesApart
<1>5. \E iter : iter = [t \in SUBSET D |-> IF t = {} THEN 0
                         ELSE f[CHOOSE x \in t : TRUE] + iter[t \ {CHOOSE x \in t : TRUE}]]
  BY <1>4, Zenon DEF AnyOf
<1> DEFINE iter == CHOOSE iter : iter = [t \in SUBSET D |-> IF t = {} THEN 0
                          ELSE f[CHOOSE x \in t : TRUE] + iter[t \ {CHOOSE x \in t : TRUE}]]
<1>6. iter = [t \in SUBSET D |-> IF t = {} THEN 0
                ELSE f[CHOOSE x \in t : TRUE] + iter[t \ {CHOOSE x \in t : TRUE}]]
  BY <1>5, Zenon
<1>7. SumFunction(f) = iter[D]
  BY DEF SumFunction, SumFunctionOnSet, FoldFunctionOnSet, MapThenFoldSet
<1> HIDE DEF iter
<1>8. iter = [t \in SUBSET D |-> IF t = {} THEN 0 ELSE f[AnyOf(t)] + iter[t \ {AnyOf(t)}]]
  BY <1>6 DEF AnyOf
<1>9. Adds(iter, f, D)
  BY <1>8 DEF Adds
<1> QED
  BY <1>7, <1>9

\* Whatever is taken first.
LEMMA AddsAnyFirst ==
  ASSUME NEW D, IsFiniteSet(D), NEW f, \A x \in D : f[x] \in Int, NEW g, Adds(g, f, D)
  PROVE  \A t \in SUBSET D : g[t] \in Int /\ \A d \in t : g[t] = f[d] + g[t \ {d}]
<1> DEFINE Right(t) == g[t] \in Int /\ \A d \in t : g[t] = f[d] + g[t \ {d}] /\ g[t \ {d}] \in Int
           P == {t \in SUBSET D : Right(t)}
<1>1. ASSUME NEW t \in SUBSET D, \A x \in t : t \ {x} \in P PROVE t \in P
  <2>1. CASE t = {}
    BY <2>1 DEF Adds
  <2>2. CASE t # {}
    <3> DEFINE c == AnyOf(t)
    <3>1. c \in t
      BY <2>2 DEF AnyOf
    <3>2. g[t] = f[c] + g[t \ {c}]
      BY <2>2 DEF Adds
    <3>3. \A x \in t : Right(t \ {x}) /\ f[x] \in Int
      BY <1>1
    <3>4. g[t] \in Int
      <4>1. g[t \ {c}] \in Int /\ f[c] \in Int
        BY <3>1, <3>3
      <4> QED
        BY <3>2, <4>1
    <3> HIDE DEF c
    <3>5. ASSUME NEW d \in t, d # c PROVE g[t] = f[d] + g[t \ {d}]
      <4>1. d \in t \ {c} /\ c \in t \ {d} /\ (t \ {c}) \ {d} = (t \ {d}) \ {c}
        BY <3>1, <3>5
      <4> DEFINE u == (t \ {c}) \ {d}
      <4>2. g[t \ {c}] = f[d] + g[u] /\ g[u] \in Int
        BY <3>1, <3>3, <4>1
      <4>3. g[t \ {d}] = f[c] + g[u]
        BY <3>3, <4>1
      <4>4. f[d] \in Int /\ f[c] \in Int
        BY <3>1, <3>3
      <4> HIDE DEF u
      <4> QED
        BY <3>2, <4>2, <4>3, <4>4
    <3> QED
      BY <3>2, <3>3, <3>4, <3>5
  <2> QED
    BY <2>1, <2>2
<1>2. \A t \in SUBSET D : t \in P
  <2> HIDE DEF P
  <2> QED
    BY <1>1, FiniteInduct
<1> QED
  BY <1>2

\* The sums of the same values over the same set are one, however they were taken.
LEMMA AddsAgree ==
  ASSUME NEW D, IsFiniteSet(D), NEW f, NEW h, \A x \in D : f[x] = h[x],
         NEW g, Adds(g, f, D), NEW k, Adds(k, h, D)
  PROVE  g[D] = k[D]
<1> DEFINE P == {t \in SUBSET D : g[t] = k[t]}
<1>1. ASSUME NEW t \in SUBSET D, \A x \in t : t \ {x} \in P PROVE t \in P
  <2>1. t # {} => AnyOf(t) \in t
    BY DEF AnyOf
  <2> QED
    BY <1>1, <2>1 DEF Adds
<1>2. \A t \in SUBSET D : t \in P
  <2> HIDE DEF P
  <2> QED
    BY <1>1, FiniteInduct
<1> QED
  BY <1>2

\* A sum over nothing is zero, and over something, the sum of any of its elements
\* and of the rest.
LEMMA Sums ==
  ASSUME NEW f, IsFiniteSet(DOMAIN f), \A x \in DOMAIN f : f[x] \in Int
  PROVE  /\ SumFunction(f) \in Int
         /\ DOMAIN f = {} => SumFunction(f) = 0
         /\ \A d \in DOMAIN f :
              SumFunction(f) = f[d] + SumFunction([x \in DOMAIN f \ {d} |-> f[x]])
<1>1. PICK g : Adds(g, f, DOMAIN f) /\ SumFunction(f) = g[DOMAIN f]
  BY SumAdds
<1> DEFINE D == DOMAIN f
<1>2. \A t \in SUBSET (DOMAIN f) : g[t] \in Int /\ \A d \in t : g[t] = f[d] + g[t \ {d}]
  <2>1. IsFiniteSet(D) /\ (\A x \in D : f[x] \in Int) /\ Adds(g, f, D)
    BY <1>1
  <2> HIDE DEF D
  <2>2. \A t \in SUBSET D : g[t] \in Int /\ \A d \in t : g[t] = f[d] + g[t \ {d}]
    BY <2>1, AddsAnyFirst
  <2> QED
    BY <2>2 DEF D
<1> HIDE DEF D
<1>3. ASSUME NEW d \in DOMAIN f
      PROVE  SumFunction([x \in DOMAIN f \ {d} |-> f[x]]) = g[DOMAIN f \ {d}]
  <2> DEFINE rest == DOMAIN f \ {d}
             h == [x \in rest |-> f[x]]
  <2>1. /\ IsFiniteSet(rest) /\ DOMAIN h = rest
        /\ \A x \in rest : h[x] = f[x] /\ h[x] \in Int
    BY FS_RemoveElement
  <2>2. Adds(g, f, rest)
    BY <1>1 DEF Adds
  <2> HIDE DEF rest, h
  <2>3. PICK k : Adds(k, h, rest) /\ SumFunction(h) = k[rest]
    BY <2>1, SumAdds
  <2>4. k[rest] = g[rest]
    BY <2>1, <2>2, <2>3, AddsAgree
  <2> QED
    BY <2>3, <2>4 DEF rest, h
<1>4. DOMAIN f = {} => SumFunction(f) = 0
  BY <1>1 DEF Adds
<1> QED
  BY <1>1, <1>2, <1>3, <1>4

\* A sum of naturals is one.
LEMMA SumsNat ==
  ASSUME NEW f, IsFiniteSet(DOMAIN f), \A x \in DOMAIN f : f[x] \in Nat
  PROVE  SumFunction(f) \in Nat
<1>1. PICK g : Adds(g, f, DOMAIN f) /\ SumFunction(f) = g[DOMAIN f]
  BY SumAdds
<1> DEFINE P == {t \in SUBSET (DOMAIN f) : g[t] \in Nat}
<1>2. ASSUME NEW t \in SUBSET (DOMAIN f), \A x \in t : t \ {x} \in P PROVE t \in P
  <2>1. t # {} => AnyOf(t) \in t
    BY DEF AnyOf
  <2>2. g[{}] = 0 /\ (t # {} => g[t] = f[AnyOf(t)] + g[t \ {AnyOf(t)}])
    BY <1>1 DEF Adds
  <2>3. t # {} => f[AnyOf(t)] \in Nat /\ g[t \ {AnyOf(t)}] \in Nat
    BY <1>2, <2>1
  <2>4. g[t] \in Nat
    <3>1. CASE t = {}
      BY <2>2, <3>1
    <3>2. CASE t # {}
      <4>1. g[t] = f[AnyOf(t)] + g[t \ {AnyOf(t)}]
        BY <2>2, <3>2
      <4> QED
        BY <2>3, <3>2, <4>1
    <3> QED
      BY <3>1, <3>2
  <2> QED
    BY <2>4
<1>3. \A t \in SUBSET (DOMAIN f) : t \in P
  <2> HIDE DEF P
  <2> QED
    BY <1>2, FiniteInduct
<1> QED
  BY <1>1, <1>3
-----------------------------------------------------------------------------
(* Lists, one element after another. *)

\* A list that is not empty is a shorter one and its last element.
LEMMA LastOff ==
  ASSUME NEW S, NEW s \in Seq(S), s # << >>
  PROVE  \E u \in Seq(S) : \E x \in S : s = Append(u, x) /\ Len(s) = Len(u) + 1
<1>1. PICK n \in Nat : Len(s) = n + 1 /\ DOMAIN s = 1..(n + 1) /\ \A k \in 1..(n + 1) : s[k] \in S
  <2>1. Len(s) \in Nat /\ DOMAIN s = 1..Len(s) /\ Len(s) # 0 /\ \A k \in 1..Len(s) : s[k] \in S
    OBVIOUS
  <2>2. Len(s) - 1 \in Nat /\ Len(s) = (Len(s) - 1) + 1
    BY <2>1
  <2> QED
    BY <2>1, <2>2
<1> DEFINE u == [k \in 1..n |-> s[k]]
<1>2. u \in Seq(S) /\ Len(u) = n
  BY <1>1
<1>3. s = Append(u, s[n + 1])
  BY <1>1, <1>2
<1> HIDE DEF u
<1>4. s[n + 1] \in S /\ Len(s) = Len(u) + 1
  BY <1>1, <1>2
<1> QED
  BY <1>2, <1>3, <1>4

\* What holds of the empty list, and of a list with one element more, holds of all.
LEMMA ListInduct ==
  ASSUME NEW S, NEW P, << >> \in P,
         \A s \in Seq(S) : \A x \in S : s \in P => Append(s, x) \in P
  PROVE  \A s \in Seq(S) : s \in P
<1> SUFFICES ASSUME NEW all \in Seq(S) PROVE all \in P
  OBVIOUS
<1> DEFINE T == {n \in Nat : \A s \in Seq(S) : Len(s) = n => s \in P}
<1>1. 0 \in T
  <2>1. \A s \in Seq(S) : Len(s) = 0 => s = << >>
    OBVIOUS
  <2> QED
    BY <2>1
<1>2. PICK N \in Nat : N = Len(all)
  OBVIOUS
<1>3. ASSUME NEW n \in 0..(N - 1), n \in T PROVE n + 1 \in T
  <2>1. ASSUME NEW s \in Seq(S), Len(s) = n + 1 PROVE s \in P
    <3>1. s # << >> /\ n \in Nat
      BY <2>1
    <3>2. PICK u \in Seq(S), x \in S : s = Append(u, x) /\ Len(s) = Len(u) + 1
      BY <3>1, LastOff
    <3>3. Len(u) = n
      BY <2>1, <3>1, <3>2
    <3> QED
      BY <1>3, <3>2, <3>3
  <2>2. n + 1 \in Nat
    OBVIOUS
  <2> HIDE DEF T
  <2> QED
    BY <2>1, <2>2 DEF T
<1>4. N \in T
  <2> HIDE DEF T
  <2>1. \A n \in 0..N : n \in T
    BY <1>1, <1>3, Induct
  <2> QED
    BY <2>1
<1> QED
  BY <1>2, <1>4

\* Joining a list that ends with an element.
LEMMA JoinedLast ==
  ASSUME NEW S, NEW s \in Seq(S), NEW t \in Seq(S), NEW x \in S
  PROVE  /\ s \o Append(t, x) = Append(s \o t, x) /\ Append(t, x) \in Seq(S)
         /\ s \o << >> = s /\ s \o t \in Seq(S)
OBVIOUS

(* q goes through some numbers, in order.                                     *)
Lists(q, n, numbers) ==
  /\ n \in Nat /\ numbers \in SUBSET Nat
  /\ \A i \in 1..n : q[i] \in numbers
  /\ \A i, j \in 1..n : i < j => q[i] < q[j]
  /\ \A k \in numbers : \E i \in 1..n : q[i] = k

\* Two increasing lists of the same numbers are one.
LEMMA SameOrder ==
  ASSUME NEW numbers, NEW m, NEW n, NEW p, NEW q,
         Lists(p, m, numbers), Lists(q, n, numbers)
  PROVE  m = n /\ \A i \in 1..m : p[i] = q[i]
<1>0. /\ m \in Nat /\ n \in Nat
      /\ \A i \in 1..m : p[i] \in Nat /\ \E j \in 1..n : p[i] = q[j]
      /\ \A j \in 1..n : q[j] \in Nat /\ \E i \in 1..m : q[j] = p[i]
      /\ \A i, j \in 1..m : i < j => p[i] < p[j]
      /\ \A i, j \in 1..n : i < j => q[i] < q[j]
  BY DEF Lists
<1> DEFINE T == {k \in 0..m : k <= n /\ \A i \in 1..k : p[i] = q[i]}
<1>1. 0 \in T
  BY <1>0
<1>2. ASSUME NEW k \in 0..(m - 1), k \in T PROVE k + 1 \in T
  <2>1. k + 1 \in 1..m /\ k + 1 \in 0..m /\ k \in Nat /\ k <= n /\ \A i \in 1..k : p[i] = q[i]
    BY <1>0, <1>2
  <2>2. PICK j \in 1..n : p[k + 1] = q[j]
    BY <1>0, <2>1
  <2>3. ~(j <= k)
    <3> SUFFICES ASSUME j <= k PROVE FALSE
      BY <1>0
    <3>1. j \in 1..k /\ j \in 1..m /\ j < k + 1
      BY <1>0, <2>1
    <3>2. p[j] = q[j] /\ p[j] < p[k + 1] /\ p[j] \in Nat
      BY <1>0, <2>1, <3>1
    <3> QED
      BY <2>2, <3>2
  <2>4. k + 1 <= j /\ k + 1 \in 1..n
    BY <1>0, <2>1, <2>3
  <2>5. PICK i \in 1..m : q[k + 1] = p[i]
    BY <1>0, <2>4
  <2>6. ~(i <= k)
    <3> SUFFICES ASSUME i <= k PROVE FALSE
      BY <1>0
    <3>1. i \in 1..k /\ i \in 1..n /\ i < k + 1
      BY <1>0, <2>1
    <3>2. p[i] = q[i] /\ q[i] < q[k + 1] /\ q[i] \in Nat
      BY <1>0, <2>1, <2>4, <3>1
    <3> QED
      BY <2>5, <3>2
  <2>7. q[k + 1] <= q[j] /\ p[k + 1] <= p[i] /\ p[i] \in Nat /\ q[j] \in Nat
    <3>1. k + 1 = j \/ k + 1 < j
      BY <2>1, <2>4
    <3>2. k + 1 = i \/ k + 1 < i
      BY <2>1, <2>6
    <3>3. p[i] \in Nat /\ q[j] \in Nat
      BY <1>0
    <3>4. q[k + 1] <= q[j]
      BY <1>0, <2>4, <3>1, <3>3
    <3>5. p[k + 1] <= p[i]
      BY <1>0, <2>1, <3>2, <3>3
    <3> QED
      BY <3>3, <3>4, <3>5
  <2>8. p[k + 1] = q[k + 1]
    BY <2>2, <2>5, <2>7
  <2>9. \A l \in 1..(k + 1) : l \in 1..k \/ l = k + 1
    BY <2>1
  <2> QED
    BY <1>0, <2>1, <2>4, <2>8, <2>9
<1>3. m \in T
  <2> HIDE DEF T
  <2>1. \A k \in 0..m : k \in T
    BY <1>0, <1>1, <1>2, Induct
  <2> QED
    BY <1>0, <2>1
<1>4. m = n
  <2> SUFFICES ASSUME m < n PROVE FALSE
    BY <1>0, <1>3
  <2>1. m + 1 \in 1..n
    BY <1>0
  <2>2. PICK i \in 1..m : q[m + 1] = p[i]
    BY <1>0, <2>1
  <2>3. p[i] = q[i] /\ i < m + 1 /\ i \in 1..n /\ q[i] \in Nat
    BY <1>0, <1>3
  <2> QED
    BY <1>0, <2>1, <2>2, <2>3
<1> QED
  BY <1>3, <1>4

\* The positions kept are what any increasing list of them says.
LEMMA ChosenBy ==
  ASSUME NEW S, NEW s \in Seq(S), NEW kept \in SUBSET (DOMAIN s), NEW n, NEW q,
         Lists(q, n, kept)
  PROVE  /\ Chosen(s, kept) \in Seq(S) /\ Len(Chosen(s, kept)) = n
         /\ DOMAIN Chosen(s, kept) = 1..n
         /\ \A i \in 1..n : Chosen(s, kept)[i] = s[q[i]]
<1>1. \A k \in kept : k \in Nat
  OBVIOUS
<1> DEFINE m == Cardinality(kept)
           p == [i \in 1..m |-> Nth(kept, i)]
<1>2. /\ Chosen(s, kept) \in Seq(S) /\ Len(Chosen(s, kept)) = m
      /\ m \in Nat /\ DOMAIN Chosen(s, kept) = 1..m
      /\ \A i \in 1..m : p[i] \in kept /\ Chosen(s, kept)[i] = s[p[i]]
      /\ \A k \in kept : \E i \in 1..m : p[i] = k
      /\ \A i, j \in 1..m : i < j => p[i] < p[j]
  BY ChosenIs
<1> HIDE DEF m, p
<1>3. Lists(p, m, kept)
  <2>1. kept \in SUBSET Nat
    BY <1>1
  <2> QED
    BY <1>2, <2>1 DEF Lists
<1>4. m = n /\ \A i \in 1..m : p[i] = q[i]
  BY <1>3, SameOrder
<1>5. \A i \in 1..n : q[i] \in kept
  BY DEF Lists
<1> QED
  BY <1>2, <1>4, <1>5

\* Positions from and to are chosen as they stand.
LEMMA ChosenRange ==
  ASSUME NEW S, NEW s \in Seq(S), NEW a \in Nat, NEW b \in Nat, a <= b, b <= Len(s)
  PROVE  /\ Chosen(s, (a + 1)..b) \in Seq(S) /\ Len(Chosen(s, (a + 1)..b)) = b - a
         /\ DOMAIN Chosen(s, (a + 1)..b) = 1..(b - a)
         /\ \A k \in 1..(b - a) : Chosen(s, (a + 1)..b)[k] = s[a + k]
<1> DEFINE kept == (a + 1)..b
           n == b - a
           q == [k \in 1..n |-> a + k]
<1>1. kept \in SUBSET DOMAIN s /\ n \in Nat
  OBVIOUS
<1>2. /\ \A i \in 1..n : q[i] \in kept
      /\ \A i, j \in 1..n : i < j => q[i] < q[j]
  OBVIOUS
<1>3. ASSUME NEW k \in kept PROVE \E i \in 1..n : q[i] = k
  <2>1. k - a \in 1..n /\ a + (k - a) = k
    OBVIOUS
  <2> QED
    BY <2>1
<1> HIDE DEF kept, n, q
<1>4. Lists(q, n, kept)
  <2>1. kept \in SUBSET Nat
    BY DEF kept
  <2> QED
    BY <1>1, <1>2, <1>3, <2>1 DEF Lists
<1>5. /\ Chosen(s, kept) \in Seq(S) /\ Len(Chosen(s, kept)) = n
      /\ DOMAIN Chosen(s, kept) = 1..n
      /\ \A i \in 1..n : Chosen(s, kept)[i] = s[q[i]]
  BY <1>1, <1>4, ChosenBy
<1> QED
  BY <1>5 DEF kept, n, q

\* Choosing from a list with one element more.
LEMMA ChosenLast ==
  ASSUME NEW S, NEW s \in Seq(S), NEW x \in S, NEW kept \in SUBSET DOMAIN s
  PROVE  /\ Chosen(Append(s, x), kept) = Chosen(s, kept)
         /\ Chosen(Append(s, x), kept \cup {Len(s) + 1}) = Append(Chosen(s, kept), x)
<1>1. PICK N \in Nat : N = Len(s) /\ DOMAIN s = 1..N
  <2>1. Len(s) \in Nat /\ DOMAIN s = 1..Len(s)
    OBVIOUS
  <2> QED
    BY <2>1
<1> DEFINE t == Append(s, x)
           n == Cardinality(kept)
           c == Chosen(s, kept)
           more == kept \cup {N + 1}
           q == [i \in 1..(n + 1) |-> IF i = n + 1 THEN N + 1 ELSE Nth(kept, i)]
<1>2. /\ t \in Seq(S) /\ DOMAIN t = 1..(N + 1) /\ t[N + 1] = x /\ \A k \in 1..N : t[k] = s[k]
  BY <1>1
<1>3. /\ c \in Seq(S) /\ Len(c) = n /\ n \in Nat /\ DOMAIN c = 1..n
      /\ \A i \in 1..n : Nth(kept, i) \in kept /\ c[i] = s[Nth(kept, i)]
      /\ \A i, j \in 1..n : i < j => Nth(kept, i) < Nth(kept, j)
      /\ \A k \in kept : \E i \in 1..n : Nth(kept, i) = k
  BY ChosenIs
<1> HIDE DEF n, c
<1>4. /\ \A i \in 1..n : q[i] \in kept /\ q[i] = Nth(kept, i) /\ q[i] < N + 1 /\ q[i] \in 1..N
      /\ q[n + 1] = N + 1
  <2>1. \A k \in kept : k \in 1..N /\ k < N + 1
    BY <1>1
  <2>2. \A i \in 1..n : i \in 1..(n + 1) /\ i # n + 1
    BY <1>3
  <2>3. n + 1 \in 1..(n + 1)
    BY <1>3
  <2> QED
    BY <1>3, <2>1, <2>2, <2>3
<1>5. \A i \in 1..(n + 1) : i \in 1..n \/ i = n + 1
  BY <1>3
<1>6. kept \in SUBSET DOMAIN t /\ more \in SUBSET DOMAIN t /\ n + 1 \in Nat
  BY <1>1, <1>2, <1>3
<1>7. \A i \in 1..(n + 1) : q[i] \in more
  BY <1>4, <1>5
<1>8. \A i, j \in 1..(n + 1) : i < j => q[i] < q[j]
  <2> TAKE i, j \in 1..(n + 1)
  <2> HAVE i < j
  <2>1. i \in 1..n
    BY <1>3
  <2>2. CASE j = n + 1
    BY <1>4, <2>1, <2>2
  <2>3. CASE j \in 1..n
    BY <1>3, <1>4, <2>1, <2>3
  <2> QED
    BY <1>5, <2>2, <2>3
<1>9. \A k \in more : \E i \in 1..(n + 1) : q[i] = k
  <2>1. \A i \in 1..n : i \in 1..(n + 1)
    BY <1>3
  <2>2. n + 1 \in 1..(n + 1)
    BY <1>3
  <2> QED
    BY <1>3, <1>4, <2>1, <2>2
<1> HIDE DEF t, more, q
<1>10. Lists(q, n + 1, more)
  <2>1. more \in SUBSET Nat
    BY <1>2, <1>6
  <2> QED
    BY <1>6, <1>7, <1>8, <1>9, <2>1 DEF Lists
<1>11. /\ Chosen(t, more) \in Seq(S) /\ Len(Chosen(t, more)) = n + 1
       /\ \A i \in 1..(n + 1) : Chosen(t, more)[i] = t[q[i]]
  BY <1>2, <1>6, <1>10, ChosenBy
<1>12. Chosen(t, more) = Append(c, x)
  <2>1. \A i \in 1..n : Chosen(t, more)[i] = c[i]
    <3> TAKE i \in 1..n
    <3>1. i \in 1..(n + 1) /\ q[i] \in 1..N /\ q[i] = Nth(kept, i)
      BY <1>3, <1>4
    <3>2. Chosen(t, more)[i] = t[q[i]] /\ t[q[i]] = s[q[i]]
      BY <1>2, <1>11, <3>1
    <3> QED
      BY <1>3, <3>1, <3>2
  <2>2. Chosen(t, more)[n + 1] = x
    <3>1. n + 1 \in 1..(n + 1) /\ q[n + 1] = N + 1
      BY <1>3, <1>4
    <3>2. Chosen(t, more)[n + 1] = t[N + 1]
      BY <1>11, <3>1
    <3> QED
      BY <1>2, <3>2
  <2> DEFINE d == Chosen(t, more)
  <2>3. d \in Seq(S) /\ Len(d) = n + 1 /\ \A i \in 1..n : d[i] = c[i] /\ d[n + 1] = x
    BY <1>3, <1>11, <2>1, <2>2
  <2> HIDE DEF d
  <2>4. d[n + 1] = x
    BY <2>2 DEF d
  <2>5. d = Append(c, x)
    BY <1>3, <2>3, <2>4
  <2> QED
    BY <2>5 DEF d
<1>13. Chosen(t, kept) = c
  <2> DEFINE d == Chosen(t, kept)
  <2>1. d \in Seq(S) /\ Len(d) = n /\ \A i \in 1..n : d[i] = t[Nth(kept, i)]
    <3>1. \A i \in 1..n : Nth(kept, i) \in kept
      BY <1>3
    <3>2. /\ Chosen(t, kept) \in Seq(S) /\ Len(Chosen(t, kept)) = Cardinality(kept)
          /\ \A i \in 1..Cardinality(kept) : Chosen(t, kept)[i] = t[Nth(kept, i)]
      BY <1>2, <1>6, ChosenIs
    <3> QED
      BY <3>2 DEF n
  <2> HIDE DEF d
  <2>2. \A i \in 1..n : d[i] = c[i]
    BY <1>1, <1>2, <1>3, <1>4, <2>1
  <2> QED
    BY <1>3, <2>1, <2>2 DEF d
<1> QED
  BY <1>1, <1>12, <1>13 DEF t, c, more

-----------------------------------------------------------------------------
(* Folds.  FoldLeft is given an operator, which no lemma can be; so a fold is   *)
(* compared with the one below, that is given the operator as a function.       *)

\* The results after 0, 1, ... elements of a list.
IsRun(g, F, base, s) ==
  g = [n \in 0..Len(s) |-> IF n = 0 THEN base ELSE F[<<g[n - 1], s[n]>>]]
Folded(F, base, s) == (CHOOSE g : IsRun(g, F, base, s))[Len(s)]

\* There are such results, all of the type the function keeps to.
LEMMA RunOf ==
  ASSUME NEW A, NEW S, NEW s \in Seq(S), NEW base \in A, NEW F \in StepOn(A, S)
  PROVE  \E g : /\ g \in [0..Len(s) -> A] /\ IsRun(g, F, base, s)
              /\ Folded(F, base, s) = g[Len(s)]
<1>1. PICK N \in Nat : N = Len(s) /\ \A n \in 1..N : s[n] \in S
  <2>1. Len(s) \in Nat /\ \A n \in 1..Len(s) : s[n] \in S
    OBVIOUS
  <2> QED
    BY <2>1
<1> DEFINE Result(h, n) == IF n = 0 THEN base ELSE F[<<h[n - 1], s[n]>>]
           Solved == {m \in 0..N : \E h : h = [n \in 0..m |-> Result(h, n)]}
<1>2. 0 \in Solved
  <2> DEFINE h == [n \in 0..0 |-> base]
  <2>1. h = [n \in 0..0 |-> Result(h, n)]
    OBVIOUS
  <2>2. 0 \in 0..N
    OBVIOUS
  <2> HIDE DEF h, Result
  <2> QED
    BY <2>1, <2>2
<1>3. ASSUME NEW m \in 0..(N - 1), m \in Solved PROVE m + 1 \in Solved
  <2>1. PICK h : h = [n \in 0..m |-> Result(h, n)]
    BY <1>3
  <2> DEFINE k == [n \in 0..(m + 1) |-> IF n = m + 1 THEN F[<<h[m], s[m + 1]>>] ELSE h[n]]
  <2>2. ASSUME NEW n \in 0..(m + 1) PROVE k[n] = Result(k, n)
    <3>1. CASE n = m + 1
      <4>1. n - 1 = m /\ m \in 0..(m + 1) /\ m # m + 1 /\ n # 0
        BY <3>1
      <4>2. k[n - 1] = h[m]
        BY <4>1
      <4> QED
        BY <3>1, <4>1, <4>2
    <3>2. CASE n # m + 1
      <4>1. n \in 0..m /\ k[n] = h[n]
        BY <3>2
      <4>2. h[n] = Result(h, n)
        BY <2>1, <4>1
      <4>3. n # 0 => k[n - 1] = h[n - 1]
        BY <4>1
      <4> QED
        BY <4>1, <4>2, <4>3
    <3> QED
      BY <3>1, <3>2
  <2>3. k = [n \in 0..(m + 1) |-> Result(k, n)]
    <3> HIDE DEF Result
    <3> QED
      BY <2>2
  <2>4. m + 1 \in 0..N
    OBVIOUS
  <2> HIDE DEF Result, k
  <2> QED
    BY <2>3, <2>4
<1>4. N \in Solved
  <2> HIDE DEF Solved
  <2>1. \A i \in 0..N : i \in Solved
    BY <1>2, <1>3, Induct
  <2> QED
    BY <2>1
<1>5. \E g : IsRun(g, F, base, s)
  BY <1>1, <1>4 DEF IsRun
<1> DEFINE g == CHOOSE g : IsRun(g, F, base, s)
<1>6. IsRun(g, F, base, s)
  BY <1>5, Zenon
<1>7. Folded(F, base, s) = g[Len(s)]
  BY DEF Folded
<1> HIDE DEF g, Result, Solved
<1>8. g = [n \in 0..N |-> IF n = 0 THEN base ELSE F[<<g[n - 1], s[n]>>]]
  BY <1>1, <1>6 DEF IsRun
<1> DEFINE Typed == {n \in 0..N : g[n] \in A}
<1>9. 0 \in Typed
  <2>1. 0 \in 0..N
    OBVIOUS
  <2>2. g[0] = base
    BY <1>8, <2>1
  <2> QED
    BY <2>1, <2>2
<1>10. ASSUME NEW n \in 0..(N - 1), n \in Typed PROVE n + 1 \in Typed
  <2>1. n + 1 \in 0..N /\ n + 1 \in 1..N /\ (n + 1) - 1 = n /\ n + 1 # 0
    OBVIOUS
  <2>2. g[n + 1] = F[<<g[n], s[n + 1]>>]
    BY <1>8, <2>1
  <2>3. g[n] \in A /\ s[n + 1] \in S
    BY <1>1, <1>10, <2>1
  <2>4. F[<<g[n], s[n + 1]>>] \in A
    BY <2>3 DEF StepOn
  <2> QED
    BY <2>1, <2>2, <2>4
<1>11. \A n \in 0..N : g[n] \in A
  <2> HIDE DEF Typed
  <2>1. \A n \in 0..N : n \in Typed
    BY <1>9, <1>10, Induct
  <2> QED
    BY <2>1 DEF Typed
<1>12. g \in [0..Len(s) -> A]
  BY <1>1, <1>8, <1>11
<1> QED
  BY <1>6, <1>7, <1>12

\* A fold over nothing, and over one element more.
LEMMA FoldedIs ==
  ASSUME NEW A, NEW S, NEW base \in A, NEW F \in StepOn(A, S)
  PROVE  /\ Folded(F, base, << >>) = base
         /\ \A s \in Seq(S) : Folded(F, base, s) \in A
         /\ \A s \in Seq(S) : \A x \in S :
              Folded(F, base, Append(s, x)) = F[<<Folded(F, base, s), x>>]
<1>1. Folded(F, base, << >>) = base
  <2>1. ASSUME NEW s \in Seq(S), Len(s) = 0 PROVE Folded(F, base, s) = base
    <3>1. PICK g : g \in [0..Len(s) -> A] /\ IsRun(g, F, base, s) /\ Folded(F, base, s) = g[Len(s)]
      BY RunOf
    <3>2. g[0] = base
      BY <2>1, <3>1 DEF IsRun
    <3> QED
      BY <2>1, <3>1, <3>2
  <2>2. << >> \in Seq(S) /\ Len(<< >>) = 0
    OBVIOUS
  <2> QED
    BY <2>1, <2>2
<1>2. ASSUME NEW s \in Seq(S) PROVE Folded(F, base, s) \in A
  <2>1. Len(s) \in 0..Len(s)
    OBVIOUS
  <2>2. PICK g : g \in [0..Len(s) -> A] /\ Folded(F, base, s) = g[Len(s)]
    BY RunOf
  <2> QED
    BY <2>1, <2>2
<1>3. ASSUME NEW s \in Seq(S), NEW x \in S
      PROVE  Folded(F, base, Append(s, x)) = F[<<Folded(F, base, s), x>>]
  <2> DEFINE t == Append(s, x)
  <2>1. PICK N \in Nat : N = Len(s) /\ Len(t) = N + 1 /\ t[N + 1] = x /\ \A n \in 1..N : t[n] = s[n]
    <3>1. /\ Len(s) \in Nat /\ Len(t) = Len(s) + 1 /\ t[Len(s) + 1] = x
          /\ \A n \in 1..Len(s) : t[n] = s[n]
      OBVIOUS
    <3> QED
      BY <3>1
  <2>2. t \in Seq(S)
    OBVIOUS
  <2> HIDE DEF t
  <2>3. PICK g : g \in [0..N -> A] /\ IsRun(g, F, base, s) /\ Folded(F, base, s) = g[N]
    BY <2>1, RunOf
  <2>4. PICK h : h \in [0..(N + 1) -> A] /\ IsRun(h, F, base, t) /\ Folded(F, base, t) = h[N + 1]
    BY <2>1, <2>2, RunOf
  <2>5. g = [n \in 0..N |-> IF n = 0 THEN base ELSE F[<<g[n - 1], s[n]>>]]
    BY <2>1, <2>3 DEF IsRun
  <2>6. h = [n \in 0..(N + 1) |-> IF n = 0 THEN base ELSE F[<<h[n - 1], t[n]>>]]
    BY <2>1, <2>4 DEF IsRun
  <2> DEFINE Same == {n \in 0..N : g[n] = h[n]}
  <2>7. 0 \in Same
    <3>1. 0 \in 0..N /\ 0 \in 0..(N + 1)
      OBVIOUS
    <3>2. g[0] = base /\ h[0] = base
      BY <2>5, <2>6, <3>1
    <3> QED
      BY <3>1, <3>2
  <2>8. ASSUME NEW n \in 0..(N - 1), n \in Same PROVE n + 1 \in Same
    <3>1. n + 1 \in 0..N /\ n + 1 \in 0..(N + 1) /\ n + 1 \in 1..N /\ (n + 1) - 1 = n /\ n + 1 # 0
      OBVIOUS
    <3>2. g[n + 1] = F[<<g[n], s[n + 1]>>]
      BY <2>5, <3>1
    <3>3. h[n + 1] = F[<<h[n], t[n + 1]>>]
      BY <2>6, <3>1
    <3> QED
      BY <2>1, <2>8, <3>1, <3>2, <3>3
  <2>9. N \in Same
    <3> HIDE DEF Same
    <3>1. \A n \in 0..N : n \in Same
      BY <2>7, <2>8, Induct
    <3> QED
      BY <3>1
  <2>10. h[N + 1] = F[<<h[N], t[N + 1]>>]
    <3>1. N + 1 \in 0..(N + 1) /\ N + 1 # 0 /\ (N + 1) - 1 = N
      OBVIOUS
    <3> QED
      BY <2>6, <3>1
  <2> QED
    BY <2>1, <2>3, <2>4, <2>9, <2>10 DEF t
<1> QED
  BY <1>1, <1>2, <1>3

(* The recursion of FoldLeft goes over sets of positions, taking the last one *)
(* off, and does step to each; the step is that of F where its result so far  *)
(* is of the type F keeps to.                                                 *)
Unfolds(iter, step, base, s) ==
  iter = [t \in SUBSET DOMAIN s |-> IF t = {} THEN base ELSE step[t]]
StepsBy(iter, step, F, A, s) ==
  \A t \in SUBSET DOMAIN s :
    t # {} /\ iter[t \ {Max(t)}] \in A => step[t] = F[<<iter[t \ {Max(t)}], s[Max(t)]>>]
Solves(iter, step, F, A, base, s) ==
  /\ iter \in [SUBSET DOMAIN s -> A] /\ Unfolds(iter, step, base, s)
  /\ step = [t \in SUBSET DOMAIN s |-> F[<<iter[t \ {Max(t)}], s[Max(t)]>>]]

\* The recursion has a solution ...
LEMMA Recursion ==
  ASSUME NEW A, NEW S, NEW s \in Seq(S), NEW base \in A, NEW F \in StepOn(A, S)
  PROVE  \E iter, step : Solves(iter, step, F, A, base, s)
<1>1. PICK N \in Nat : DOMAIN s = 1..N /\ \A n \in 1..N : s[n] \in S
  <2>1. Len(s) \in Nat /\ DOMAIN s = 1..Len(s) /\ \A n \in 1..Len(s) : s[n] \in S
    OBVIOUS
  <2> QED
    BY <2>1
<1> DEFINE Result(h, t) == IF t = {} THEN base ELSE F[<<h[t \ {Max(t)}], s[Max(t)]>>]
           Solved == {m \in 0..N : \E h \in [SUBSET (1..m) -> A] :
                                      h = [t \in SUBSET (1..m) |-> Result(h, t)]}
<1>2. ASSUME NEW m \in 0..N, NEW t \in SUBSET (1..m), t # {}
      PROVE  /\ Max(t) \in t /\ t \ {Max(t)} \in SUBSET (1..m)
             /\ m \in t => Max(t) = m
  <2>1. m \in Nat
    OBVIOUS
  <2>2. /\ Max(t) \in t /\ \A k \in t : k <= Max(t)
        /\ \A k \in t : (\A j \in t : j <= k) => k = Max(t)
    BY <1>2, <2>1, Greatest
  <2>3. \A j \in t : j <= m
    OBVIOUS
  <2> QED
    BY <2>2, <2>3
<1>3. 0 \in Solved
  <2> DEFINE h == [t \in SUBSET (1..0) |-> base]
  <2>1. \A t \in SUBSET (1..0) : t = {}
    OBVIOUS
  <2>2. h = [t \in SUBSET (1..0) |-> Result(h, t)] /\ h \in [SUBSET (1..0) -> A]
    BY <2>1
  <2> QED
    BY <2>2
<1>4. ASSUME NEW m \in 0..(N - 1), m \in Solved PROVE m + 1 \in Solved
  <2>1. PICK h \in [SUBSET (1..m) -> A] : h = [t \in SUBSET (1..m) |-> Result(h, t)]
    BY <1>4
  <2> DEFINE k == [t \in SUBSET (1..(m + 1)) |->
                     IF m + 1 \in t THEN F[<<h[t \ {m + 1}], s[m + 1]>>] ELSE h[t]]
  <2>2. ASSUME NEW t \in SUBSET (1..(m + 1)) PROVE k[t] = Result(k, t) /\ k[t] \in A
    <3>0. m + 1 \in 0..N /\ m \in 0..N /\ m + 1 \in 1..N
      OBVIOUS
    <3>1. CASE m + 1 \in t
      <4>1. t # {} /\ Max(t) = m + 1
        BY <1>2, <3>0, <3>1
      <4>2. /\ t \ {m + 1} \in SUBSET (1..(m + 1)) /\ m + 1 \notin t \ {m + 1}
            /\ t \ {m + 1} \in SUBSET (1..m)
        OBVIOUS
      <4>3. k[t \ {m + 1}] = h[t \ {m + 1}] /\ h[t \ {m + 1}] \in A
        BY <4>2
      <4>4. F[<<h[t \ {m + 1}], s[m + 1]>>] \in A
        BY <1>1, <3>0, <4>3 DEF StepOn
      <4> QED
        BY <3>1, <4>1, <4>3, <4>4
    <3>2. CASE m + 1 \notin t
      <4>1. t \in SUBSET (1..m) /\ k[t] = h[t]
        BY <3>2
      <4>2. h[t] = Result(h, t) /\ h[t] \in A
        <5>1. h[t] \in A
          BY <4>1
        <5> QED
          BY <2>1, <4>1, <5>1
      <4>3. ASSUME t # {} PROVE k[t \ {Max(t)}] = h[t \ {Max(t)}]
        <5>1. t \ {Max(t)} \in SUBSET (1..(m + 1)) /\ m + 1 \notin t \ {Max(t)}
          BY <3>2
        <5> QED
          BY <5>1
      <4> QED
        BY <4>1, <4>2, <4>3
    <3> QED
      BY <3>1, <3>2
  <2>3. k = [t \in SUBSET (1..(m + 1)) |-> Result(k, t)] /\ k \in [SUBSET (1..(m + 1)) -> A]
    <3> HIDE DEF Result
    <3> QED
      BY <2>2
  <2>4. m + 1 \in 0..N
    OBVIOUS
  <2> HIDE DEF Result, k
  <2> QED
    BY <2>3, <2>4
<1>5. N \in Solved
  <2> HIDE DEF Solved
  <2>1. \A i \in 0..N : i \in Solved
    BY <1>3, <1>4, Induct
  <2> QED
    BY <2>1
<1>6. PICK iter \in [SUBSET DOMAIN s -> A] : iter = [t \in SUBSET DOMAIN s |-> Result(iter, t)]
  BY <1>1, <1>5
<1> DEFINE step == [t \in SUBSET DOMAIN s |-> F[<<iter[t \ {Max(t)}], s[Max(t)]>>]]
<1>7. Unfolds(iter, step, base, s)
  BY <1>6 DEF Unfolds
<1> HIDE DEF Result, Solved
<1> QED
  BY <1>6, <1>7 DEF Solves

\* ... and any solution, from the whole list, takes its positions off one by one.
LEMMA Iterated ==
  ASSUME NEW A, NEW S, NEW s \in Seq(S), NEW base \in A, NEW F \in StepOn(A, S),
         NEW iter, NEW step, Unfolds(iter, step, base, s), StepsBy(iter, step, F, A, s)
  PROVE  iter[DOMAIN s] = Folded(F, base, s)
<1>0. /\ iter = [t \in SUBSET DOMAIN s |-> IF t = {} THEN base ELSE step[t]]
      /\ \A t \in SUBSET DOMAIN s :
           t # {} /\ iter[t \ {Max(t)}] \in A
             => step[t] = F[<<iter[t \ {Max(t)}], s[Max(t)]>>]
  BY DEF Unfolds, StepsBy
<1>1. PICK N \in Nat : N = Len(s) /\ DOMAIN s = 1..N
  <2>1. Len(s) \in Nat /\ DOMAIN s = 1..Len(s)
    OBVIOUS
  <2> QED
    BY <2>1
<1>2. PICK g : g \in [0..N -> A] /\ IsRun(g, F, base, s) /\ Folded(F, base, s) = g[N]
  BY <1>1, RunOf
<1>3. g = [n \in 0..N |-> IF n = 0 THEN base ELSE F[<<g[n - 1], s[n]>>]]
  BY <1>1, <1>2 DEF IsRun
<1> DEFINE Same == {n \in 0..N : iter[1..n] = g[n]}
<1>4. 0 \in Same
  <2>1. 0 \in 0..N /\ 1..0 = {} /\ {} \in SUBSET DOMAIN s
    OBVIOUS
  <2>2. g[0] = base /\ iter[{}] = base
    BY <1>0, <1>3, <2>1
  <2> QED
    BY <2>1, <2>2
<1>5. ASSUME NEW n \in 0..(N - 1), n \in Same PROVE n + 1 \in Same
  <2>0. /\ n + 1 \in 0..N /\ (n + 1) - 1 = n /\ n + 1 # 0
        /\ n + 1 \in 1..(n + 1) /\ \A k \in 1..(n + 1) : k <= n + 1 /\ k \in 1..N
    OBVIOUS
  <2>1. /\ n + 1 \in 0..N /\ (n + 1) - 1 = n /\ n + 1 # 0
        /\ 1..(n + 1) \in SUBSET (1..N) /\ 1..(n + 1) # {} /\ (1..(n + 1)) \ {n + 1} = 1..n
        /\ n + 1 \in 1..(n + 1) /\ \A k \in 1..(n + 1) : k <= n + 1
    <3>1. (1..(n + 1)) \ {n + 1} = 1..n
      OBVIOUS
    <3> QED
      BY <2>0, <3>1
  <2>2. Max(1..(n + 1)) = n + 1
    <3> DEFINE all == 1..(n + 1)
    <3>1. all \in SUBSET (1..N) /\ all # {} /\ n + 1 \in all /\ \A k \in all : k <= n + 1
      BY <2>1
    <3> HIDE DEF all
    <3>2. n + 1 = Max(all)
      BY <3>1, Greatest
    <3> QED
      BY <3>2 DEF all
  <2>3. iter[1..n] = g[n] /\ g[n] \in A
    BY <1>2, <1>5
  <2>4. step[1..(n + 1)] = F[<<iter[1..n], s[n + 1]>>]
    <3> DEFINE all == 1..(n + 1)
    <3>1. all \in SUBSET DOMAIN s /\ all # {} /\ Max(all) = n + 1 /\ all \ {n + 1} = 1..n
      BY <1>1, <2>1, <2>2
    <3> HIDE DEF all
    <3>2. iter[all \ {Max(all)}] \in A
      BY <2>3, <3>1
    <3>3. step[all] = F[<<iter[all \ {Max(all)}], s[Max(all)]>>]
      BY <1>0, <3>1, <3>2
    <3> QED
      BY <3>1, <3>3 DEF all
  <2>5. iter[1..(n + 1)] = step[1..(n + 1)]
    BY <1>0, <1>1, <2>1
  <2>6. g[n + 1] = F[<<g[n], s[n + 1]>>]
    BY <1>3, <2>1
  <2> QED
    BY <2>1, <2>3, <2>4, <2>5, <2>6
<1>6. N \in Same
  <2> HIDE DEF Same
  <2>1. \A n \in 0..N : n \in Same
    BY <1>4, <1>5, Induct
  <2> QED
    BY <2>1
<1> QED
  BY <1>1, <1>2, <1>6

\* The last of some positions of a list holds one of its elements.
LEMMA LastOfThose ==
  ASSUME NEW S, NEW s \in Seq(S)
  PROVE  \A t \in SUBSET DOMAIN s : t # {} => s[Max(t)] \in S
<1>1. PICK n \in Nat : DOMAIN s = 1..n /\ \A k \in 1..n : s[k] \in S
  <2>1. Len(s) \in Nat /\ DOMAIN s = 1..Len(s) /\ \A k \in 1..Len(s) : s[k] \in S
    OBVIOUS
  <2> QED
    BY <2>1
<1> QED
  BY <1>1, Greatest
=============================================================================
