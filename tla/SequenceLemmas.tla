---------------------------- MODULE SequenceLemmas ----------------------------
(***************************************************************************)
(* Facts about sequences that the proofs about the document store and Home *)
(* rest on, whatever the sequences hold.                                   *)
(***************************************************************************)
EXTENDS Integers, Sequences, SequencesExt, Selection, FiniteSetTheorems, WellFoundedInduction, TLAPS

IsSeq(s) == \E S : s \in Seq(S)

(* One element more at the end.                                            *)
LEMMA Appended ==
  ASSUME NEW s, IsSeq(s), NEW e
  PROVE  /\ IsSeq(Append(s, e))
         /\ Len(s) \in Nat /\ DOMAIN s = 1 .. Len(s)
         /\ Len(Append(s, e)) = Len(s) + 1 /\ DOMAIN Append(s, e) = 1 .. Len(s) + 1
         /\ \A i \in 1 .. Len(s) : Append(s, e)[i] = s[i]
         /\ Append(s, e)[Len(s) + 1] = e
<1>1. PICK S : s \in Seq(S)
  BY DEF IsSeq
<1>2. s \in Seq(S \cup {e}) /\ e \in S \cup {e}
  BY <1>1
<1> DEFINE T == S \cup {e}
<1> HIDE DEF T
<1>3. s \in Seq(T) /\ e \in T
  BY <1>2 DEF T
<1>4. Append(s, e) \in Seq(T)
  BY <1>3
<1>5. /\ Len(s) \in Nat /\ DOMAIN s = 1 .. Len(s)
      /\ Len(Append(s, e)) = Len(s) + 1 /\ DOMAIN Append(s, e) = 1 .. Len(s) + 1
      /\ Append(s, e)[Len(s) + 1] = e
  BY <1>3
<1>6. \A i \in 1 .. Len(s) : Append(s, e)[i] = s[i]
  BY <1>3
<1> QED
  BY <1>4, <1>5, <1>6 DEF IsSeq

(* The first element gone.                                                 *)
LEMMA Shortened ==
  ASSUME NEW s, IsSeq(s), s # <<>>
  PROVE  /\ IsSeq(Tail(s))
         /\ Len(s) \in Nat \ {0} /\ DOMAIN s = 1 .. Len(s)
         /\ Head(s) = s[1] /\ 1 \in DOMAIN s
         /\ Len(Tail(s)) = Len(s) - 1 /\ DOMAIN Tail(s) = 1 .. Len(s) - 1
         /\ \A i \in 1 .. Len(s) - 1 : Tail(s)[i] = s[i + 1]
<1>1. PICK S : s \in Seq(S)
  BY DEF IsSeq
<1>2. Tail(s) \in Seq(S)
  BY <1>1
<1>3. Len(s) \in Nat \ {0} /\ DOMAIN s = 1 .. Len(s) /\ Head(s) = s[1]
  BY <1>1
<1>4. Len(Tail(s)) = Len(s) - 1 /\ DOMAIN Tail(s) = 1 .. Len(s) - 1
  BY <1>1
<1>5. \A i \in 1 .. Len(s) - 1 : Tail(s)[i] = s[i + 1]
  BY <1>1
<1> QED
  BY <1>2, <1>3, <1>4, <1>5 DEF IsSeq

-----------------------------------------------------------------------------
(* Every set of naturals that is not empty has a least element; what is    *)
(* proved by induction elsewhere rests on it here.                         *)
LEMMA LeastOf ==
  ASSUME NEW S, S \subseteq Nat, S # {}
  PROVE  \E n \in S : \A m \in S : n <= m
<1> DEFINE R == OpToRel(<, Nat)
<1>1. IsWellFoundedOn(R, Nat)
  BY NatLessThanWellFounded
<1>2. R = {ss \in Nat \X Nat : ss[1] < ss[2]}
  BY DEF OpToRel
<1>3. \A x, y \in Nat : x < y => <<x, y>> \in R
  BY <1>2
<1> HIDE DEF R
<1>4. PICK n \in S : \A m \in S : <<m, n>> \notin R
  BY <1>1, WFMin
<1>5. ASSUME NEW m \in S PROVE n <= m
  <2>1. m \in Nat /\ n \in Nat /\ ~(m < n)
    BY <1>3, <1>4
  <2> QED
    BY <2>1
<1> QED
  BY <1>4, <1>5

(* ... and if it is bounded a greatest one, which Max names.               *)
LEMMA MaxOf ==
  ASSUME NEW n \in Nat, NEW S, S \subseteq 1 .. n, S # {}
  PROVE  Max(S) \in S /\ \A m \in S : m <= Max(S)
<1> DEFINE T == {n - m : m \in S}
<1>1. T \subseteq Nat /\ T # {}
  <2>1. \A m \in S : n - m \in Nat
    OBVIOUS
  <2>2. PICK m \in S : TRUE
    OBVIOUS
  <2>3. n - m \in T
    BY <2>2
  <2> QED
    BY <2>1, <2>3
<1>2. PICK least \in T : \A t \in T : least <= t
  BY <1>1, LeastOf
<1>3. PICK top \in S : least = n - top
  BY <1>2
<1>4. ASSUME NEW m \in S PROVE top >= m
  <2>1. n - top <= n - m
    BY <1>2, <1>3
  <2>2. m \in 1 .. n /\ top \in 1 .. n
    BY <1>3
  <2> QED
    BY <2>1, <2>2
<1>5. Max(S) \in S /\ \A m \in S : Max(S) >= m
  BY <1>4 DEF Max
<1>6. ASSUME NEW m \in S PROVE m <= Max(S)
  BY <1>5
<1> QED
  BY <1>5, <1>6

-----------------------------------------------------------------------------
(* The ranks of positions count up by one at each of them.                 *)
LEMMA Ranks ==
  ASSUME NEW n \in Nat, NEW P, P \subseteq 1 .. n
  PROVE  /\ Cardinality(P) \in Nat /\ Rank(P, 0) = 0 /\ Rank(P, n) = Cardinality(P)
         /\ \A i \in 0 .. n : Rank(P, i) \in Nat
         /\ \A i, j \in 0 .. n : i <= j => Rank(P, i) <= Rank(P, j)
         /\ \A i, j \in 0 .. n : i < j /\ j \in P => Rank(P, i) < Rank(P, j)
         /\ \A i \in 0 .. n - 1 : Rank(P, i + 1) <= Rank(P, i) + 1
         /\ \A i \in 0 .. n - 1 : i + 1 \notin P => Rank(P, i + 1) = Rank(P, i)
<1> DEFINE Upto(i) == {j \in P : j <= i}
<1>1. IsFiniteSet(P) /\ Cardinality(P) \in Nat
  <2>1. IsFiniteSet(1 .. n)
    BY FS_Interval
  <2>2. P \in SUBSET (1 .. n)
    OBVIOUS
  <2> QED
    BY <2>1, <2>2, FS_Subset, FS_CardinalityType
<1>2. \A i : IsFiniteSet(Upto(i)) /\ Cardinality(Upto(i)) \in Nat /\ Rank(P, i) = Cardinality(Upto(i))
  <2> SUFFICES ASSUME NEW i
               PROVE  IsFiniteSet(Upto(i)) /\ Cardinality(Upto(i)) \in Nat /\ Rank(P, i) = Cardinality(Upto(i))
    OBVIOUS
  <2>1. Upto(i) \in SUBSET P
    OBVIOUS
  <2>2. IsFiniteSet(Upto(i)) /\ Cardinality(Upto(i)) \in Nat
    BY <1>1, <2>1, FS_Subset, FS_CardinalityType
  <2> QED
    BY <2>2 DEF Rank
<1>3. Upto(0) = {} /\ Upto(n) = P
  <2>1. \A m \in P : ~(m <= 0) /\ m <= n
    <3>1. \A m \in 1 .. n : ~(m <= 0) /\ m <= n
      OBVIOUS
    <3> QED
      BY <3>1
  <2> QED
    BY <2>1
<1>4. \A i, j \in 0 .. n : i <= j => Upto(i) \subseteq Upto(j) /\ (j \in P /\ i < j => Upto(i) # Upto(j))
  <2> SUFFICES ASSUME NEW i \in 0 .. n, NEW j \in 0 .. n, i <= j
               PROVE  Upto(i) \subseteq Upto(j) /\ (j \in P /\ i < j => Upto(i) # Upto(j))
    OBVIOUS
  <2>1. \A m \in P : m \in Nat /\ (m <= i => m <= j)
    OBVIOUS
  <2>2. i < j => ~(j <= i) /\ j <= j
    OBVIOUS
  <2> QED
    BY <2>1, <2>2
<1>5. \A i \in 0 .. n - 1 : Upto(i + 1) = IF i + 1 \in P THEN Upto(i) \cup {i + 1} ELSE Upto(i)
  <2> SUFFICES ASSUME NEW i \in 0 .. n - 1
               PROVE  Upto(i + 1) = IF i + 1 \in P THEN Upto(i) \cup {i + 1} ELSE Upto(i)
    OBVIOUS
  <2>1. \A m \in P : m <= i + 1 <=> m <= i \/ m = i + 1
    <3>1. \A m \in 1 .. n : m <= i + 1 <=> m <= i \/ m = i + 1
      OBVIOUS
    <3> QED
      BY <3>1
  <2> QED
    BY <2>1
<1>6. \A i \in 0 .. n - 1 : i + 1 \notin Upto(i)
  <2>1. \A i \in 0 .. n - 1 : ~(i + 1 <= i)
    OBVIOUS
  <2> QED
    BY <2>1
<1> HIDE DEF Upto
<1>7. \A i, j \in 0 .. n : i <= j => Rank(P, i) <= Rank(P, j)
  BY <1>2, <1>4, FS_Subset
<1>8. \A i, j \in 0 .. n : i < j /\ j \in P => Rank(P, i) < Rank(P, j)
  <2> SUFFICES ASSUME NEW i \in 0 .. n, NEW j \in 0 .. n, i < j, j \in P
               PROVE  Rank(P, i) < Rank(P, j)
    OBVIOUS
  <2>1. i <= j
    OBVIOUS
  <2>2. Upto(i) \in SUBSET Upto(j) /\ Upto(i) # Upto(j)
    BY <1>4, <2>1
  <2>3. Cardinality(Upto(i)) <= Cardinality(Upto(j)) /\ Cardinality(Upto(i)) # Cardinality(Upto(j))
    BY <1>2, <2>2, FS_Subset
  <2> QED
    BY <1>2, <2>3
<1>9. \A i \in 0 .. n - 1 : /\ Rank(P, i + 1) <= Rank(P, i) + 1
                            /\ i + 1 \notin P => Rank(P, i + 1) = Rank(P, i)
  <2> SUFFICES ASSUME NEW i \in 0 .. n - 1
               PROVE  /\ Rank(P, i + 1) <= Rank(P, i) + 1
                      /\ i + 1 \notin P => Rank(P, i + 1) = Rank(P, i)
    OBVIOUS
  <2>1. Cardinality(Upto(i) \cup {i + 1}) = Cardinality(Upto(i)) + 1
    BY <1>2, <1>6, FS_AddElement
  <2>2. Rank(P, i) = Cardinality(Upto(i)) /\ Rank(P, i) \in Nat /\ Rank(P, i + 1) = Cardinality(Upto(i + 1))
    BY <1>2
  <2>3. CASE i + 1 \in P
    <3>1. Rank(P, i + 1) = Rank(P, i) + 1
      BY <1>5, <2>1, <2>2, <2>3
    <3> QED
      BY <2>2, <2>3, <3>1
  <2>4. CASE i + 1 \notin P
    <3>1. Rank(P, i + 1) = Rank(P, i)
      BY <1>5, <2>2, <2>4
    <3> QED
      BY <2>2, <3>1
  <2> QED
    BY <2>3, <2>4
<1> QED
  BY <1>1, <1>2, <1>3, <1>7, <1>8, <1>9, FS_EmptySet

(* Every rank up to the number of positions is that of one of them.        *)
LEMMA RankIsTaken ==
  ASSUME NEW n \in Nat, NEW P, P \subseteq 1 .. n, NEW k \in 1 .. Cardinality(P)
  PROVE  \E i \in P : Rank(P, i) = k
<1> DEFINE T == {i \in 0 .. n : k <= Rank(P, i)}
<1>1. n \in T /\ T \subseteq Nat /\ T # {}
  <2>1. Rank(P, n) = Cardinality(P) /\ Cardinality(P) \in Nat
    BY Ranks
  <2>2. k <= Cardinality(P) /\ n \in 0 .. n
    BY <2>1
  <2> QED
    BY <2>1, <2>2
<1>2. PICK i \in T : \A m \in T : i <= m
  BY <1>1, LeastOf
<1>3. i \in 0 .. n /\ i # 0
  <2>1. Rank(P, 0) = 0 /\ ~(k <= 0)
    <3>1. Cardinality(P) \in Nat /\ Rank(P, 0) = 0
      BY Ranks
    <3>2. ~(k <= 0)
      BY <3>1
    <3> QED
      BY <3>1, <3>2
  <2> QED
    BY <2>1
<1>4. i - 1 \in 0 .. n - 1 /\ (i - 1) + 1 = i /\ i - 1 \notin T
  BY <1>2, <1>3
<1> DEFINE h == i - 1
<1>5. h \in 0 .. n - 1 /\ h + 1 = i /\ h \in 0 .. n /\ ~(k <= Rank(P, h))
  BY <1>3, <1>4
<1> HIDE DEF h
<1>6. /\ Rank(P, i) <= Rank(P, h) + 1
      /\ i \notin P => Rank(P, i) = Rank(P, h)
      /\ Rank(P, h) \in Nat /\ Rank(P, i) \in Nat /\ k <= Rank(P, i)
  <2>1. Rank(P, h + 1) <= Rank(P, h) + 1
    BY <1>5, Ranks
  <2>2. h + 1 \notin P => Rank(P, h + 1) = Rank(P, h)
    BY <1>5, Ranks
  <2>3. Rank(P, h) \in Nat /\ Rank(P, i) \in Nat
    BY <1>5, Ranks
  <2> QED
    BY <1>5, <2>1, <2>2, <2>3
<1>7. k \in Nat /\ Rank(P, h) < k
  BY <1>5, <1>6, Ranks
<1> QED
  BY <1>6, <1>7

(* Select keeps the order and takes every element of the set.              *)
LEMMA Selected ==
  ASSUME NEW s, IsSeq(s), NEW S
  PROVE  LET n == Len(Select(s, S)) IN
         /\ IsSeq(Select(s, S)) /\ n \in Nat /\ DOMAIN Select(s, S) = 1 .. n
         /\ \E f \in [1 .. n -> PlacesIn(s, S)] :
              /\ \A k \in 1 .. n : Select(s, S)[k] = s[f[k]]
              /\ \A i \in PlacesIn(s, S) : \E k \in 1 .. n : f[k] = i
              /\ \A k, l \in 1 .. n : k < l => f[k] < f[l]
<1> DEFINE P == PlacesIn(s, S)
           c == Cardinality(P)
           f == [k \in 1 .. c |-> CHOOSE i \in P : Rank(P, i) = k]
           r == Select(s, S)
<1>1. PICK n \in Nat : n = Len(s) /\ DOMAIN s = 1 .. n
  BY Appended
<1>2. P \subseteq 1 .. n
  BY <1>1 DEF PlacesIn
<1>3. c \in Nat /\ \A i \in P : Rank(P, i) \in 1 .. c
  <2>1. \A i \in P : i \in 0 .. n /\ 0 < i
    BY <1>2
  <2>2. c \in Nat /\ \A i \in P : Rank(P, i) \in Nat /\ 0 < Rank(P, i) /\ Rank(P, i) <= c
    BY <1>2, <2>1, Ranks
  <2> QED
    BY <2>2
<1>4. r = [k \in 1 .. c |-> s[f[k]]]
  BY DEF Select
<1>5. \A k \in 1 .. c : f[k] \in P /\ Rank(P, f[k]) = k
  <2> SUFFICES ASSUME NEW k \in 1 .. c PROVE f[k] \in P /\ Rank(P, f[k]) = k
    OBVIOUS
  <2>1. \E i \in P : Rank(P, i) = k
    BY <1>2, RankIsTaken
  <2> QED
    BY <2>1
<1>6. f \in [1 .. c -> P]
  BY <1>5
<1> HIDE DEF f, r, c
<1>7. /\ IsSeq(r) /\ Len(r) = c /\ DOMAIN r = 1 .. c
  <2> DEFINE T == {s[i] : i \in P}
  <2>1. r \in [1 .. c -> T]
    BY <1>4, <1>5
  <2>2. r \in Seq(T)
    BY <1>3, <2>1
  <2>3. Len(r) = c
    BY <1>3, <1>4
  <2> QED
    BY <1>4, <2>2, <2>3 DEF IsSeq
<1>8. \A i, j \in P : Rank(P, i) = Rank(P, j) => i = j
  <2> SUFFICES ASSUME NEW i \in P, NEW j \in P, Rank(P, i) = Rank(P, j) PROVE i = j
    OBVIOUS
  <2>1. i \in 0 .. n /\ j \in 0 .. n
    BY <1>2
  <2>2. /\ i < j => Rank(P, i) < Rank(P, j)
        /\ j < i => Rank(P, j) < Rank(P, i)
    BY <1>2, <2>1, Ranks
  <2>3. Rank(P, i) \in Nat
    BY <1>2, <2>1, Ranks
  <2> QED
    BY <2>1, <2>2, <2>3
<1>9. \A i \in P : \E k \in 1 .. c : f[k] = i
  BY <1>3, <1>5, <1>8
<1>10. \A k, l \in 1 .. c : k < l => f[k] < f[l]
  <2> SUFFICES ASSUME NEW k \in 1 .. c, NEW l \in 1 .. c, k < l PROVE f[k] < f[l]
    OBVIOUS
  <2>1. f[k] \in 0 .. n /\ f[l] \in 0 .. n
    BY <1>2, <1>5
  <2>2. ~(f[l] <= f[k])
    <3>1. ~(l <= k)
      BY <1>3
    <3>2. Rank(P, f[l]) = l /\ Rank(P, f[k]) = k
      BY <1>5
    <3>3. f[l] <= f[k] => Rank(P, f[l]) <= Rank(P, f[k])
      BY <1>2, <2>1, Ranks
    <3> QED
      BY <3>1, <3>2, <3>3
  <2> QED
    BY <2>1, <2>2
<1>11. \A k \in 1 .. c : r[k] = s[f[k]]
  BY <1>4
<1> QED
  BY <1>3, <1>6, <1>7, <1>9, <1>10, <1>11 DEF r

(* In terms of the elements.                                               *)
LEMMA SelectedElements ==
  ASSUME NEW s, IsSeq(s), NEW S
  PROVE  ToSet(Select(s, S)) = ToSet(s) \cap S
<1> DEFINE n == Len(Select(s, S))
<1>1. PICK f \in [1 .. n -> PlacesIn(s, S)] :
        /\ \A k \in 1 .. n : Select(s, S)[k] = s[f[k]]
        /\ \A i \in PlacesIn(s, S) : \E k \in 1 .. n : f[k] = i
  BY Selected
<1>2. DOMAIN Select(s, S) = 1 .. n
  BY Selected
<1> HIDE DEF n
<1>3. ASSUME NEW e \in ToSet(Select(s, S)) PROVE e \in ToSet(s) \cap S
  BY <1>1, <1>2 DEF ToSet, PlacesIn
<1>4. ASSUME NEW e \in ToSet(s) \cap S PROVE e \in ToSet(Select(s, S))
  <2>1. PICK i \in PlacesIn(s, S) : s[i] = e
    BY DEF ToSet, PlacesIn
  <2>2. PICK k \in 1 .. n : f[k] = i
    BY <1>1
  <2> QED
    BY <1>1, <1>2, <2>1, <2>2 DEF ToSet
<1> QED
  BY <1>3, <1>4

=============================================================================
