---------------------------- MODULE StableRanking ----------------------------
(* Python's sorted(range(n), key=..., reverse=True)[:k], the one selection the *)
(* repository makes everywhere: the policy over its candidates, the pruners    *)
(* over a frontier, the offline evaluation over the nodes of a step.  The sort *)
(* is stable, so of two equal keys the one that comes first stays first.       *)
(* Positions are counted from 1.                                               *)
EXTENDS Integers, Sequences, FiniteSets

\* j comes before i when the sequence key is ranked, best first.
Ahead(key, j, i) == key[j] > key[i] \/ (key[j] = key[i] /\ j < i)

\* How many of some positions come before i, and how many of all.
PlaceAmong(key, among, i) == Cardinality({j \in among : Ahead(key, j, i)})
Place(key, i) == PlaceAmong(key, DOMAIN key, i)

\* The positions, best first.
Ranking(key) ==
  [p \in 1..Len(key) |-> CHOOSE i \in DOMAIN key : Place(key, i) = p - 1]

\* The k best positions, best first, and the same as a set.
TopK(key, k) == SubSeq(Ranking(key), 1, IF k < Len(key) THEN k ELSE Len(key))
TopSet(key, k) == {i \in DOMAIN key : Place(key, i) < k}
=============================================================================
