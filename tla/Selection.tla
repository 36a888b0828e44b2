------------------------------ MODULE Selection ------------------------------
(***************************************************************************)
(* What SelectSeq computes, without recursion: the elements of a sequence  *)
(* that are in a set, in their order.                                      *)
(***************************************************************************)
EXTENDS Naturals, Sequences, FiniteSets

(* How many of these positions are at most i.                              *)
Rank(places, i) == Cardinality({j \in places : j <= i})

PlacesIn(s, S) == {i \in DOMAIN s : s[i] \in S}

Select(s, S) ==
  LET places == PlacesIn(s, S)
  IN  [k \in 1 .. Cardinality(places) |-> s[CHOOSE i \in places : Rank(places, i) = k]]

=============================================================================
