------------------------------ MODULE Sifting -------------------------------
(***************************************************************************)
(* What is kept of a sequence, as comprehensions of the code keep it: some *)
(* of its elements, in their order.  It is what SelectSeq does, said       *)
(* without recursion.                                                      *)
(***************************************************************************)
EXTENDS Integers, SequencesExt

\* The position that n - 1 of these precede.
Nth(positions, n) ==
  CHOOSE k \in positions : Cardinality({j \in positions : j < k}) = n - 1

\* The elements at some positions, in order.  (There is one such list; the choice
\* from a set of one has TLC evaluate the arguments once.)
Chosen(seq, kept) ==
  CHOOSE chosen \in {[n \in 1..Cardinality(positions) |-> whole[Nth(positions, n)]]
                      : whole \in {seq}, positions \in {kept}} : TRUE

\* Those that are to be kept.
Sift(seq, Keep(_)) == Chosen(seq, {k \in DOMAIN seq : Keep(seq[k])})
=============================================================================
