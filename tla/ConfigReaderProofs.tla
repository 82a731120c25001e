-------------------------- MODULE ConfigReaderProofs --------------------------
(***************************************************************************)
(* The command line, the environment and the configuration file, for any   *)
(* text, any file system and any default directories: what IniParser and   *)
(* SplitMutableString hand out of a buffer that they cut up, and what      *)
(* main() makes of it.                                                     *)
(***************************************************************************)
EXTENDS ConfigReader, SequenceTheorems, FiniteSetTheorems, WellFoundedInduction, TLAPS

-----------------------------------------------------------------------------
(* Sets of numbers, and such sets in order.                                *)

LEMMA LeastElement ==
  ASSUME NEW S \in SUBSET Nat, S # {}
  PROVE  \E i \in S : \A j \in S : i <= j
<1>1. PICK i \in S : \A j \in S : ~ (<<j, i>> \in OpToRel(<, Nat))
  BY NatLessThanWellFounded, WFMin, Zenon
<1>2. ASSUME NEW j \in S
      PROVE  i <= j
  <2>1. i \in Nat /\ j \in Nat
    OBVIOUS
  <2>2. <<j, i>> \in Nat \X Nat
    BY <2>1
  <2>3. ~ (j < i)
    BY <1>1, <2>2, Zenon DEF OpToRel
  <2>. QED
    BY <2>1, <2>3
<1>. QED
  BY <1>2

\* What CHOOSE finds is what is there.
LEMMA LeastIs ==
  ASSUME NEW S \in SUBSET Nat, S # {}
  PROVE  Least(S) \in S /\ Least(S) \in Nat /\ \A j \in S : Least(S) <= j
<1>1. \E i \in S : \A j \in S : i <= j
  BY LeastElement
<1>. QED
  BY <1>1 DEF Least

LEMMA LeastBy ==
  ASSUME NEW S \in SUBSET Nat, NEW i \in S, \A j \in S : i <= j
  PROVE  Least(S) = i
<1>1. Least(S) \in S /\ Least(S) <= i
  BY LeastIs
<1>2. i <= Least(S) /\ i \in Nat /\ Least(S) \in Nat
  BY <1>1
<1>. QED
  BY <1>1, <1>2

LEMMA GreatestIs ==
  ASSUME NEW m \in Nat, NEW S \in SUBSET (0 .. m), S # {}
  PROVE  Greatest(S) \in S /\ Greatest(S) \in Nat /\ \A j \in S : j <= Greatest(S)
<1>. DEFINE above == {n \in Nat : \A j \in S : j <= n}
<1>1. PICK i \in above : \A n \in above : i <= n
  <2>1. m \in above
    OBVIOUS
  <2>2. above \in SUBSET Nat /\ above # {}
    BY <2>1
  <2>. HIDE DEF above
  <2>. QED
    BY <2>2, LeastElement
<1>2. i \in S
  <2>. SUFFICES ASSUME i \notin S PROVE FALSE
    OBVIOUS
  <2>1. PICK j \in S : TRUE
    OBVIOUS
  <2>2. i \in Nat /\ \A k \in S : k \in Nat /\ k <= i /\ k # i
    OBVIOUS
  <2>3. i - 1 \in above
    BY <2>1, <2>2
  <2>. QED
    BY <1>1, <2>2, <2>3
<1>3. \E n \in S : \A j \in S : j <= n
  BY <1>2
<1>4. Greatest(S) \in S /\ \A j \in S : j <= Greatest(S)
  BY <1>3, Zenon DEF Greatest
<1>5. \A j \in S : j \in Nat
  OBVIOUS
<1>. QED
  BY <1>4, <1>5

LEMMA GreatestBy ==
  ASSUME NEW m \in Nat, NEW S \in SUBSET (0 .. m), NEW i \in S, \A j \in S : j <= i
  PROVE  Greatest(S) = i
<1>1. S # {}
  OBVIOUS
<1>2. Greatest(S) \in S /\ Greatest(S) \in Nat /\ i <= Greatest(S)
  BY <1>1, GreatestIs
<1>3. Greatest(S) <= i /\ i \in Nat
  BY <1>2
<1>. QED
  BY <1>2, <1>3

\* The place of i in S.
Rank(S, i) == Cardinality({j \in S : j <= i})

LEMMA RankType ==
  ASSUME NEW m \in Nat, NEW S \in SUBSET (0 .. m)
  PROVE  /\ IsFiniteSet(S) /\ Cardinality(S) \in Nat
         /\ \A i \in Int : Rank(S, i) \in 0 .. Cardinality(S)
         /\ \A i \in S : Rank(S, i) \in 1 .. Cardinality(S)
<1>0. IsFiniteSet(0 .. m)
  BY FS_Interval
<1>1. IsFiniteSet(S) /\ Cardinality(S) \in Nat
  BY <1>0, FS_Subset, FS_CardinalityType
<1>2. ASSUME NEW i \in Int
      PROVE  Rank(S, i) \in 0 .. Cardinality(S) /\ (i \in S => Rank(S, i) # 0)
  <2>. DEFINE to == {j \in S : j <= i}
  <2>1. to \in SUBSET S
    OBVIOUS
  <2>2. i \in S => to # {}
    OBVIOUS
  <2>3. Rank(S, i) = Cardinality(to)
    BY DEF Rank
  <2>. HIDE DEF to
  <2>4. IsFiniteSet(to) /\ Cardinality(to) <= Cardinality(S)
    BY <1>1, <2>1, FS_Subset
  <2>5. Cardinality(to) \in Nat /\ (to # {} => Cardinality(to) # 0)
    BY <2>4, FS_CardinalityType, FS_EmptySet
  <2>. QED
    BY <1>1, <2>2, <2>3, <2>4, <2>5
<1>. QED
  BY <1>1, <1>2

LEMMA RankOrder ==
  ASSUME NEW m \in Nat, NEW S \in SUBSET (0 .. m), NEW i \in Int, NEW j \in S, i < j
  PROVE  Rank(S, i) < Rank(S, j)
<1>. DEFINE low == {k \in S : k <= i}
            high == {k \in S : k <= j}
<1>0. j \in Int /\ S \subseteq Int
  OBVIOUS
<1>1. low \in SUBSET high /\ j \in high /\ j \notin low /\ high \in SUBSET S
  <2>1. \A k \in S : k \in Int /\ (k <= i => k <= j)
    BY <1>0
  <2>2. j <= j /\ ~(j <= i)
    BY <1>0
  <2>. QED
    BY <2>1, <2>2
<1>2. Rank(S, i) = Cardinality(low) /\ Rank(S, j) = Cardinality(high)
  BY DEF Rank
<1>. HIDE DEF low, high
<1>3. IsFiniteSet(high)
  BY <1>1, RankType, FS_Subset
<1>4. Cardinality(low) <= Cardinality(high) /\ Cardinality(low) # Cardinality(high) /\ IsFiniteSet(low)
  BY <1>1, <1>3, FS_Subset
<1>5. Cardinality(low) \in Nat /\ Cardinality(high) \in Nat
  BY <1>3, <1>4, FS_CardinalityType
<1>. QED
  BY <1>2, <1>4, <1>5

LEMMA RankNew ==
  ASSUME NEW m \in Nat, NEW S \in SUBSET (0 .. m), NEW n \in Nat, \A j \in S : j < n
  PROVE  /\ Cardinality(S \cup {n}) = Cardinality(S) + 1
         /\ Rank(S \cup {n}, n) = Cardinality(S) + 1
         /\ \A i \in S : Rank(S \cup {n}, i) = Rank(S, i)
<1>1. n \notin S
  OBVIOUS
<1>2. Cardinality(S \cup {n}) = Cardinality(S) + 1
  BY <1>1, RankType, FS_AddElement
<1>0. S \subseteq Int
  OBVIOUS
<1>3. {j \in S \cup {n} : j <= n} = S \cup {n}
  <2>1. \A j \in S \cup {n} : j <= n
    BY <1>0
  <2>. QED
    BY <2>1
<1>4. ASSUME NEW i \in S
      PROVE  {j \in S \cup {n} : j <= i} = {j \in S : j <= i}
  OBVIOUS
<1>. QED
  BY <1>2, <1>3, <1>4 DEF Rank

\* Every place is taken.
LEMMA RankOnto ==
  ASSUME NEW m \in Nat, NEW S \in SUBSET (0 .. m), NEW k \in 1 .. Cardinality(S)
  PROVE  \E i \in S : Rank(S, i) = k
<1>. DEFINE Onto(T) == \A p \in 1 .. Cardinality(T) : \E i \in T : Rank(T, i) = p
            Bad == {n \in Nat : \E T \in SUBSET (0 .. n) : ~Onto(T)}
<1>. SUFFICES ASSUME ~Onto(S) PROVE FALSE
  OBVIOUS
<1>1. m \in Bad
  OBVIOUS
<1>2. PICK n \in Bad : \A j \in Bad : n <= j
  <2>1. Bad \in SUBSET Nat /\ Bad # {}
    BY <1>1
  <2>. HIDE DEF Bad
  <2>. QED
    BY <2>1, LeastElement
<1>3. PICK T \in SUBSET (0 .. n) : ~Onto(T)
  OBVIOUS
<1>4. n \in Nat
  OBVIOUS
<1>. DEFINE U == T \ {n}
<1>5. Onto(U)
  <2>1. CASE n = 0
    <3>1. U = {}
      BY <2>1
    <3>2. Cardinality(U) = 0
      BY <3>1, FS_EmptySet
    <3>. QED
      BY <3>2
  <2>2. CASE n # 0
    <3>1. n - 1 \in Nat /\ ~(n <= n - 1) /\ U \in SUBSET (0 .. n - 1)
      BY <1>4, <2>2
    <3>2. n - 1 \notin Bad
      BY <1>2, <3>1, Zenon
    <3>. QED
      BY <3>1, <3>2
  <2>. QED
    BY <2>1, <2>2
<1>6. CASE n \notin T
  <2>1. U = T
    BY <1>6
  <2>. QED
    BY <1>3, <1>5, <2>1
<1>7. CASE n \in T
  <2>1. T = U \cup {n} /\ U \in SUBSET (0 .. n) /\ \A j \in U : j < n
    BY <1>4, <1>7
  <2>. HIDE DEF U, Bad
  <2>2. /\ Cardinality(T) = Cardinality(U) + 1 /\ Rank(T, n) = Cardinality(U) + 1
        /\ \A i \in U : Rank(T, i) = Rank(U, i)
    BY <1>4, <2>1, RankNew
  <2>3. Cardinality(U) \in Nat
    BY <1>4, <2>1, RankType
  <2>4. ASSUME NEW p \in 1 .. Cardinality(T)
        PROVE  \E i \in T : Rank(T, i) = p
    <3>1. CASE p = Cardinality(T)
      BY <1>7, <2>2, <3>1
    <3>2. CASE p # Cardinality(T)
      <4>1. p \in 1 .. Cardinality(U)
        BY <2>2, <2>3, <3>2
      <4>2. PICK i \in U : Rank(U, i) = p
        BY <1>5, <4>1
      <4>. QED
        BY <2>1, <2>2, <4>2
    <3>. QED
      BY <3>1, <3>2
  <2>. QED
    BY <1>3, <2>4
<1>. QED
  BY <1>6, <1>7

LEMMA SortedIs ==
  ASSUME NEW m \in Nat, NEW S \in SUBSET (0 .. m)
  PROVE  /\ Sorted(S) \in Seq(S) /\ Len(Sorted(S)) = Cardinality(S)
         /\ \A i \in S : Sorted(S)[Rank(S, i)] = i
         /\ \A k \in 1 .. Cardinality(S) : Sorted(S)[k] \in S /\ Rank(S, Sorted(S)[k]) = k
<1>1. Cardinality(S) \in Nat /\ \A i \in S : Rank(S, i) \in 1 .. Cardinality(S)
  BY RankType
<1>2. ASSUME NEW k \in 1 .. Cardinality(S)
      PROVE  Sorted(S)[k] \in S /\ Rank(S, Sorted(S)[k]) = k
  <2>1. \E i \in S : Cardinality({j \in S : j <= i}) = k
    BY RankOnto DEF Rank
  <2>2. Sorted(S)[k] = CHOOSE i \in S : Cardinality({j \in S : j <= i}) = k
    BY DEF Sorted
  <2>. QED
    BY <2>1, <2>2 DEF Rank
<1>3. Sorted(S) \in [1 .. Cardinality(S) -> S]
  BY <1>2 DEF Sorted
<1>4. Sorted(S) \in Seq(S) /\ Len(Sorted(S)) = Cardinality(S)
  BY <1>1, <1>3
<1>5. ASSUME NEW i \in S
      PROVE  Sorted(S)[Rank(S, i)] = i
  <2>. DEFINE j == Sorted(S)[Rank(S, i)]
  <2>1. j \in S /\ Rank(S, j) = Rank(S, i)
    BY <1>1, <1>2
  <2>2. i \in Int /\ j \in Int
    <3>. HIDE DEF j
    <3>1. S \subseteq Int
      OBVIOUS
    <3>. QED
      BY <2>1, <3>1
  <2>3. ~(i < j) /\ ~(j < i)
    <3>. HIDE DEF j
    <3>1. Rank(S, i) \in Int /\ Rank(S, j) \in Int
      BY <1>1, <2>1
    <3>2. i < j => Rank(S, i) < Rank(S, j)
      BY <2>1, <2>2, RankOrder
    <3>3. j < i => Rank(S, j) < Rank(S, i)
      BY <2>1, <2>2, RankOrder
    <3>. QED
      BY <2>1, <3>1, <3>2, <3>3
  <2>. QED
    BY <2>2, <2>3
<1>. QED
  BY <1>2, <1>4, <1>5

\* What lists the members of S in order is Sorted(S).
LEMMA SortedBy ==
  ASSUME NEW m \in Nat, NEW S \in SUBSET (0 .. m), NEW i \in S, NEW k, Rank(S, i) = k
  PROVE  k \in 1 .. Cardinality(S) /\ k \in DOMAIN Sorted(S) /\ Sorted(S)[k] = i
<1>1. k \in 1 .. Cardinality(S)
  BY RankType
<1>2. Sorted(S)[k] = i
  BY SortedIs
<1>3. DOMAIN Sorted(S) = 1 .. Cardinality(S)
  BY DEF Sorted
<1>. QED
  BY <1>1, <1>2, <1>3

LEMMA SortedNone == Sorted({}) = << >>
<1>1. Cardinality({}) = 0
  BY FS_EmptySet
<1>2. {} \in SUBSET (0 .. 0) /\ 0 \in Nat
  OBVIOUS
<1>3. Sorted({}) \in Seq({}) /\ Len(Sorted({})) = 0
  BY <1>1, <1>2, SortedIs
<1>. QED
  BY <1>3, EmptySeq

LEMMA SortedNew ==
  ASSUME NEW m \in Nat, NEW S \in SUBSET (0 .. m), NEW n \in Nat, \A j \in S : j < n
  PROVE  Sorted(S \cup {n}) = Append(Sorted(S), n)
<1>. DEFINE T == S \cup {n}
<1>1. /\ Cardinality(T) = Cardinality(S) + 1 /\ Rank(T, n) = Cardinality(S) + 1
      /\ \A i \in S : Rank(T, i) = Rank(S, i)
  BY RankNew
<1>2. T \in SUBSET (0 .. m + n) /\ m + n \in Nat /\ n \in T /\ S \subseteq T
  OBVIOUS
<1>. HIDE DEF T
<1>3. /\ Sorted(S) \in Seq(S) /\ Len(Sorted(S)) = Cardinality(S)
      /\ \A k \in 1 .. Cardinality(S) : Sorted(S)[k] \in S /\ Rank(S, Sorted(S)[k]) = k
  BY SortedIs
<1>4. Sorted(T) \in Seq(T) /\ Len(Sorted(T)) = Cardinality(T) /\ \A i \in T : Sorted(T)[Rank(T, i)] = i
  BY <1>2, SortedIs
<1>5. Sorted(S) \in Seq(T) /\ Cardinality(S) \in Nat
  BY <1>2, <1>3, RankType, SeqMonotonic
<1>6. ASSUME NEW k \in 1 .. Cardinality(S)
      PROVE  Sorted(T)[k] = Sorted(S)[k]
  <2>1. Sorted(S)[k] \in S /\ Rank(T, Sorted(S)[k]) = k
    BY <1>1, <1>3
  <2>. QED
    BY <1>2, <1>4, <2>1
<1>7. Sorted(T)[Cardinality(S) + 1] = n
  BY <1>1, <1>2, <1>4
<1>. DEFINE long == Append(Sorted(S), n)
<1>8. /\ long \in Seq(T) /\ Len(long) = Cardinality(S) + 1 /\ long[Cardinality(S) + 1] = n
      /\ \A k \in 1 .. Cardinality(S) : long[k] = Sorted(S)[k]
  BY <1>2, <1>3, <1>5
<1>. HIDE DEF long
<1>9. Sorted(T) = long
  <2>1. \A k \in 1 .. Cardinality(S) + 1 : k = Cardinality(S) + 1 \/ k \in 1 .. Cardinality(S)
    BY <1>5
  <2>2. \A k \in 1 .. Len(long) : Sorted(T)[k] = long[k]
    BY <1>6, <1>7, <1>8, <2>1
  <2>. QED
    BY <1>1, <1>4, <1>8, <2>2, SeqEqual
<1>. QED
  BY <1>9 DEF long, T

-----------------------------------------------------------------------------
(* Where a search ends, and parts of sequences.                            *)

LEMMA FirstOfIs ==
  ASSUME NEW b, NEW chars, NEW from \in Nat, NEW to \in Nat
  PROVE  /\ from <= to => FirstOf(b, chars, from, to) \in from .. to
         /\ from > to => FirstOf(b, chars, from, to) = to
         /\ \A i \in from .. FirstOf(b, chars, from, to) - 1 : i < to /\ b[i] \notin chars
         /\ FirstOf(b, chars, from, to) < to => b[FirstOf(b, chars, from, to)] \in chars
<1>. DEFINE found == {i \in from .. to - 1 : b[i] \in chars} \cup {to}
<1>1. found \in SUBSET Nat /\ to \in found
  OBVIOUS
<1>2. FirstOf(b, chars, from, to) = Least(found)
  BY DEF FirstOf
<1>3. PICK e : e = Least(found)
  OBVIOUS
<1>4. e \in found /\ \A j \in found : e <= j
  <2>. HIDE DEF found
  <2>. QED
    BY <1>1, <1>3, LeastIs
<1>5. e \in Nat /\ e <= to
  BY <1>1, <1>4
<1>6. ASSUME NEW i \in from .. e - 1
      PROVE  i < to /\ b[i] \notin chars
  <2>1. i < e /\ i < to
    BY <1>5
  <2>2. i \notin found
    <3>. HIDE DEF found
    <3>. QED
      BY <1>4, <1>5, <2>1
  <2>. QED
    BY <1>5, <2>1, <2>2
<1>7. from > to => e = to
  BY <1>4
<1>8. from <= to => e \in from .. to
  BY <1>4, <1>5
<1>9. e < to => b[e] \in chars
  BY <1>4
<1>. QED
  BY <1>2, <1>3, <1>6, <1>7, <1>8, <1>9

LEMMA FirstOfBy ==
  ASSUME NEW b, NEW chars, NEW from \in Nat, NEW to \in Nat, NEW e \in from .. to,
         \A i \in from .. e - 1 : b[i] \notin chars, e < to => b[e] \in chars
  PROVE  FirstOf(b, chars, from, to) = e
<1>1. PICK f : f = FirstOf(b, chars, from, to)
  OBVIOUS
<1>2. /\ f \in from .. to /\ \A i \in from .. f - 1 : b[i] \notin chars
      /\ f < to => b[f] \in chars
  BY <1>1, FirstOfIs
<1>3. ~(e < f) /\ ~(f < e)
  BY <1>2
<1>. QED
  BY <1>1, <1>2, <1>3

\* Searches depend on what they search only.
LEMMA FirstOfSame ==
  ASSUME NEW b, NEW c, NEW chars, NEW from \in Nat, NEW to \in Nat, from <= to,
         \A i \in from .. to - 1 : b[i] = c[i]
  PROVE  FirstOf(b, chars, from, to) = FirstOf(c, chars, from, to)
BY DEF FirstOf

LEMMA FirstNotOfIs ==
  ASSUME NEW b, NEW chars, NEW from \in Nat, NEW to \in Nat
  PROVE  /\ from <= to => FirstNotOf(b, chars, from, to) \in from .. to
         /\ from > to => FirstNotOf(b, chars, from, to) = to
         /\ \A i \in from .. FirstNotOf(b, chars, from, to) - 1 : i < to /\ b[i] \in chars
         /\ FirstNotOf(b, chars, from, to) < to => b[FirstNotOf(b, chars, from, to)] \notin chars
<1>. DEFINE found == {i \in from .. to - 1 : b[i] \notin chars} \cup {to}
<1>1. found \in SUBSET Nat /\ to \in found
  OBVIOUS
<1>2. FirstNotOf(b, chars, from, to) = Least(found)
  BY DEF FirstNotOf
<1>3. PICK e : e = Least(found)
  OBVIOUS
<1>4. e \in found /\ \A j \in found : e <= j
  <2>. HIDE DEF found
  <2>. QED
    BY <1>1, <1>3, LeastIs
<1>5. e \in Nat /\ e <= to
  BY <1>1, <1>4
<1>6. ASSUME NEW i \in from .. e - 1
      PROVE  i < to /\ b[i] \in chars
  <2>1. i < e /\ i < to
    BY <1>5
  <2>2. i \notin found
    <3>. HIDE DEF found
    <3>. QED
      BY <1>4, <1>5, <2>1
  <2>. QED
    BY <1>5, <2>1, <2>2
<1>7. from > to => e = to
  BY <1>4
<1>8. from <= to => e \in from .. to
  BY <1>4, <1>5
<1>9. e < to => b[e] \notin chars
  BY <1>4
<1>. QED
  BY <1>2, <1>3, <1>6, <1>7, <1>8, <1>9

\* The characters at b to e - 1.
LEMMA CutOut ==
  ASSUME NEW S, NEW s \in Seq(S), NEW b \in 1 .. Len(s) + 1, NEW e \in b .. Len(s) + 1
  PROVE  /\ SubSeq(s, b, e - 1) \in Seq(S) /\ Len(SubSeq(s, b, e - 1)) = e - b
         /\ \A i \in 1 .. e - b : SubSeq(s, b, e - 1)[i] = s[b + i - 1]
         /\ DOMAIN SubSeq(s, b, e - 1) = 1 .. e - b
<1>1. PICK n \in Nat : n = Len(s)
  OBVIOUS
<1>2. \A i \in b .. e - 1 : s[i] \in S
  BY <1>1
<1>3. /\ Len(SubSeq(s, b, e - 1)) = IF b <= e - 1 THEN e - 1 - b + 1 ELSE 0
      /\ \A i \in 1 .. e - 1 - b + 1 : SubSeq(s, b, e - 1)[i] = s[b + i - 1]
  BY <1>1, SubSeqProperties
<1>4. SubSeq(s, b, e - 1) \in Seq(S)
  BY <1>1, <1>2, SubSeqProperties
<1>. QED
  BY <1>1, <1>3, <1>4

LEMMA SameText ==
  ASSUME NEW S, NEW s \in Seq(S), NEW R, NEW t \in Seq(R), NEW b \in 1 .. Len(s) + 1, NEW e \in b .. Len(s) + 1,
         e <= Len(t) + 1, \A i \in b .. e - 1 : s[i] = t[i]
  PROVE  SubSeq(s, b, e - 1) = SubSeq(t, b, e - 1)
<1>1. PICK n \in Nat : n = Len(s)
  OBVIOUS
<1>2. PICK m \in Nat : m = Len(t)
  OBVIOUS
<1>3. b \in 1 .. Len(t) + 1 /\ e \in b .. Len(t) + 1
  BY <1>1, <1>2
<1>4. /\ SubSeq(s, b, e - 1) \in Seq(S) /\ Len(SubSeq(s, b, e - 1)) = e - b
      /\ \A i \in 1 .. e - b : SubSeq(s, b, e - 1)[i] = s[b + i - 1]
  BY CutOut
<1>5. /\ SubSeq(t, b, e - 1) \in Seq(R) /\ Len(SubSeq(t, b, e - 1)) = e - b
      /\ \A i \in 1 .. e - b : SubSeq(t, b, e - 1)[i] = t[b + i - 1]
  BY <1>3, CutOut
<1>6. \A i \in 1 .. e - b : b + i - 1 \in b .. e - 1
  BY <1>1
<1>7. \A i \in 1 .. e - b : SubSeq(s, b, e - 1)[i] = SubSeq(t, b, e - 1)[i]
  BY <1>4, <1>5, <1>6
<1>. QED
  BY <1>4, <1>5, <1>7, SeqEqual

LEMMA CutTwice ==
  ASSUME NEW S, NEW s \in Seq(S), NEW b \in 1 .. Len(s) + 1, NEW e \in b .. Len(s) + 1,
         NEW x \in b .. e, NEW y \in x .. e
  PROVE  SubSeq(SubSeq(s, b, e - 1), x - b + 1, y - b) = SubSeq(s, x, y - 1)
<1>1. PICK n \in Nat : n = Len(s)
  OBVIOUS
<1>2. PICK t \in Seq(S) : t = SubSeq(s, b, e - 1)
  BY CutOut
<1>3. Len(t) = e - b /\ \A i \in 1 .. e - b : t[i] = s[b + i - 1]
  BY <1>2, CutOut
<1>4. x - b + 1 \in 1 .. Len(t) + 1 /\ y - b + 1 \in (x - b + 1) .. Len(t) + 1 /\ (y - b + 1) - 1 = y - b
  BY <1>1, <1>3
<1>5. PICK p : p = x - b + 1
  OBVIOUS
<1>6. PICK q : q = y - b + 1
  OBVIOUS
<1>7. /\ SubSeq(t, p, q - 1) \in Seq(S) /\ Len(SubSeq(t, p, q - 1)) = q - p
      /\ \A i \in 1 .. q - p : SubSeq(t, p, q - 1)[i] = t[p + i - 1]
  BY <1>4, <1>5, <1>6, CutOut
<1>8. x \in 1 .. Len(s) + 1 /\ y \in x .. Len(s) + 1
  BY <1>1
<1>9. /\ SubSeq(s, x, y - 1) \in Seq(S) /\ Len(SubSeq(s, x, y - 1)) = y - x
      /\ \A i \in 1 .. y - x : SubSeq(s, x, y - 1)[i] = s[x + i - 1]
  BY <1>8, CutOut
<1>10. q - p = y - x /\ q - 1 = y - b
  BY <1>1, <1>5, <1>6
<1>11. ASSUME NEW i \in 1 .. y - x
       PROVE  SubSeq(t, p, q - 1)[i] = SubSeq(s, x, y - 1)[i]
  <2>1. p + i - 1 \in 1 .. e - b /\ b + (p + i - 1) - 1 = x + i - 1
    BY <1>1, <1>5
  <2>2. t[p + i - 1] = s[x + i - 1]
    BY <1>3, <2>1
  <2>. QED
    BY <1>7, <1>9, <1>10, <2>2
<1>12. SubSeq(t, p, q - 1) = SubSeq(s, x, y - 1)
  BY <1>7, <1>9, <1>10, <1>11, SeqEqual
<1>. QED
  BY <1>2, <1>5, <1>10, <1>12

-----------------------------------------------------------------------------
(* trimInplace() and what it leaves; a line's key and value.               *)

Solid(s, b, e) == {i \in b .. e - 1 : s[i] \notin Spaces}

LEMMA TrimmedIs ==
  ASSUME NEW s, NEW r, NEW b \in Nat, NEW e \in Nat, r.begin = b, r.end = e, b <= e,
         NEW t, t = Trimmed(s, r)
  PROVE  /\ t = [begin |-> t.begin, end |-> t.end]
         /\ t.begin \in b .. e /\ t.end \in t.begin .. e
         /\ t.begin < t.end => s[t.begin] \notin Spaces /\ s[t.end - 1] \notin Spaces
         /\ t.begin = t.end => t.begin = e
         /\ \A i \in b .. e - 1 : s[i] \notin Spaces => i \in t.begin .. t.end - 1
<1>. DEFINE solid == Solid(s, b, e)
<1>1. t = IF solid = {} THEN [begin |-> e, end |-> e] ELSE [begin |-> Least(solid), end |-> Greatest(solid) + 1]
  BY DEF Trimmed, Solid
<1>2. \A i \in solid : i \in Nat /\ i \in b .. e - 1 /\ s[i] \notin Spaces
  BY DEF Solid
<1>3. \A i \in b .. e - 1 : s[i] \notin Spaces => i \in solid
  BY DEF Solid
<1>4. CASE solid = {}
  <2>1. t.begin = e /\ t.end = e /\ t = [begin |-> e, end |-> e]
    BY <1>1, <1>4
  <2>. HIDE DEF solid
  <2>. QED
    BY <1>3, <1>4, <2>1
<1>5. CASE solid # {}
  <2>1. PICK x : x = Least(solid)
    OBVIOUS
  <2>2. PICK y : y = Greatest(solid)
    OBVIOUS
  <2>3. solid \in SUBSET Nat /\ solid \in SUBSET (0 .. e)
    BY <1>2
  <2>4. x \in solid /\ x \in Nat /\ \A j \in solid : x <= j
    <3>. HIDE DEF solid
    <3>. QED
      BY <1>5, <2>1, <2>3, LeastIs
  <2>5. y \in solid /\ y \in Nat /\ \A j \in solid : j <= y
    <3>. HIDE DEF solid
    <3>. QED
      BY <1>5, <2>2, <2>3, GreatestIs
  <2>6. t = [begin |-> x, end |-> y + 1]
    BY <1>1, <1>5, <2>1, <2>2
  <2>7. t.begin = x /\ t.end = y + 1
    BY <2>6
  <2>. HIDE DEF solid
  <2>8. x \in b .. e - 1 /\ y \in b .. e - 1 /\ x <= y /\ s[x] \notin Spaces /\ s[y] \notin Spaces /\ (y + 1) - 1 = y
    BY <1>2, <2>4, <2>5
  <2>9. x \in b .. e /\ y + 1 \in x .. e /\ x # y + 1
    BY <2>8
  <2>10. \A i \in b .. e - 1 : s[i] \notin Spaces => i \in x .. y
    BY <1>3, <2>4, <2>5
  <2>. QED
    BY <2>6, <2>7, <2>8, <2>9, <2>10
<1>. QED
  BY <1>4, <1>5

\* What is left of s from b up to e.
IsTrim(s, b, e, t) ==
  /\ t.begin \in b .. e /\ t.end \in t.begin .. e
  /\ t.begin = t.end => t.begin = e
  /\ \A i \in b .. e - 1 : s[i] \notin Spaces => i \in t.begin .. t.end - 1

LEMMA TrimmedFits ==
  ASSUME NEW s, NEW r, NEW b \in Nat, NEW e \in Nat, r.begin = b, r.end = e, b <= e,
         NEW t, t = Trimmed(s, r)
  PROVE  IsTrim(s, b, e, t)
BY TrimmedIs DEF IsTrim

LEMMA TrimmedSame ==
  ASSUME NEW s, NEW u, NEW r, \A i \in r.begin .. r.end - 1 : s[i] = u[i]
  PROVE  Trimmed(s, r) = Trimmed(u, r)
<1>1. {i \in r.begin .. r.end - 1 : s[i] \notin Spaces} = {i \in r.begin .. r.end - 1 : u[i] \notin Spaces}
  OBVIOUS
<1>. QED
  BY <1>1, Zenon DEF Trimmed

LEMMA StrippedIs ==
  ASSUME NEW S, NEW s \in Seq(S), NEW r, NEW b \in 1 .. Len(s) + 1, NEW e \in b .. Len(s) + 1,
         r.begin = b, r.end = e
  PROVE  Stripped(SubSeq(s, b, e - 1)) = SubSeq(s, Trimmed(s, r).begin, Trimmed(s, r).end - 1)
<1>0. PICK n \in Nat : n = Len(s)
  OBVIOUS
<1>1. PICK t \in Seq(S) : t = SubSeq(s, b, e - 1)
  BY CutOut
<1>2. Len(t) = e - b /\ DOMAIN t = 1 .. e - b /\ \A i \in 1 .. e - b : t[i] = s[b + i - 1]
  BY <1>1, CutOut
<1>. DEFINE here == {i \in DOMAIN t : t[i] \notin Spaces}
            there == Solid(s, b, e)
<1>3. Stripped(t) = IF here = {} THEN << >> ELSE SubSeq(t, Least(here), Greatest(here))
  BY DEF Stripped
<1>4. Trimmed(s, r) = IF there = {} THEN [begin |-> e, end |-> e] ELSE [begin |-> Least(there), end |-> Greatest(there) + 1]
  BY DEF Trimmed, Solid
<1>5. \A i \in here : b + i - 1 \in there
  BY <1>0, <1>2 DEF Solid
<1>6. \A i \in there : i - b + 1 \in here
  <2>1. ASSUME NEW i \in there
        PROVE  i - b + 1 \in here
    <3>1. i \in b .. e - 1 /\ s[i] \notin Spaces
      BY DEF Solid
    <3>2. i - b + 1 \in 1 .. e - b /\ b + (i - b + 1) - 1 = i
      BY <1>0, <3>1
    <3>. QED
      BY <1>2, <3>1, <3>2
  <2>. QED
    BY <2>1
<1>7. here \in SUBSET Nat /\ here \in SUBSET (0 .. n) /\ there \in SUBSET Nat /\ there \in SUBSET (0 .. n)
  BY <1>0, <1>2 DEF Solid
<1>8. there \subseteq b .. e - 1
  BY DEF Solid
<1>. HIDE DEF here, there
<1>9. CASE there = {}
  <2>1. here = {}
    BY <1>5, <1>9
  <2>2. SubSeq(s, e, e - 1) = << >>
    BY <1>0, SubSeqEmpty
  <2>3. Trimmed(s, r).begin = e /\ Trimmed(s, r).end = e
    BY <1>4, <1>9
  <2>4. Stripped(t) = << >>
    BY <1>3, <2>1
  <2>. QED
    BY <1>1, <2>2, <2>3, <2>4
<1>10. CASE there # {}
  <2>1. PICK x : x = Least(there)
    OBVIOUS
  <2>2. PICK y : y = Greatest(there)
    OBVIOUS
  <2>3. x \in there /\ x \in Nat /\ \A j \in there : x <= j
    BY <1>7, <1>10, <2>1, LeastIs
  <2>4. y \in there /\ y \in Nat /\ \A j \in there : j <= y
    BY <1>0, <1>7, <1>10, <2>2, GreatestIs
  <2>5. x - b + 1 \in here /\ y - b + 1 \in here /\ here # {}
    BY <1>6, <2>3, <2>4
  <2>6. x \in b .. e - 1 /\ y \in x .. e - 1
    BY <1>0, <1>8, <2>3, <2>4
  <2>7. \A i \in here : i \in Nat /\ x - b + 1 <= i /\ i <= y - b + 1
    <3>1. ASSUME NEW i \in here
          PROVE  i \in Nat /\ x - b + 1 <= i /\ i <= y - b + 1
      <4>1. i \in Nat /\ x <= b + i - 1 /\ b + i - 1 <= y
        BY <1>5, <1>7, <2>3, <2>4
      <4>. QED
        BY <1>0, <2>6, <4>1
    <3>. QED
      BY <3>1
  <2>8. PICK p : p = x - b + 1
    OBVIOUS
  <2>9. PICK q : q = y - b + 1
    OBVIOUS
  <2>10. Least(here) = p
    BY <1>7, <2>5, <2>7, <2>8, LeastBy
  <2>11. Greatest(here) = q
    BY <1>0, <1>7, <2>5, <2>7, <2>9, GreatestBy
  <2>12. Stripped(t) = SubSeq(t, p, q)
    BY <1>3, <2>5, <2>10, <2>11
  <2>13. x \in b .. e /\ y + 1 \in x .. e /\ (y + 1) - b = q /\ (y + 1) - 1 = y
    BY <1>0, <2>6, <2>9
  <2>14. PICK z : z = y + 1
    OBVIOUS
  <2>15. SubSeq(SubSeq(s, b, e - 1), x - b + 1, z - b) = SubSeq(s, x, z - 1)
    BY <2>13, <2>14, CutTwice
  <2>16. SubSeq(t, p, q) = SubSeq(s, x, z - 1)
    BY <1>1, <2>8, <2>13, <2>14, <2>15
  <2>17. Trimmed(s, r).begin = x /\ Trimmed(s, r).end = z
    BY <1>4, <1>10, <2>1, <2>2, <2>14
  <2>. QED
    BY <1>1, <2>12, <2>16, <2>17
<1>. QED
  BY <1>9, <1>10

\* A line's text s[b .. e - 1]: whether it has a key, and what its key and value
\* are.  q is the first '='.
LEMMA SettingIs ==
  ASSUME NEW S, NEW s \in Seq(S), NEW b \in 1 .. Len(s) + 1, NEW e \in b .. Len(s) + 1, b < e,
         NEW q, q = FirstOf(s, {"="}, b, e),
         NEW k, k = Trimmed(s, [begin |-> b, end |-> q]),
         NEW v, v = Trimmed(s, [begin |-> q + 1, end |-> e])
  PROVE  /\ q \in b .. e
         /\ HasKey(SubSeq(s, b, e - 1)) <=> b < q /\ q < e
         /\ q < e => /\ Setting(SubSeq(s, b, e - 1)).key = SubSeq(s, k.begin, k.end - 1)
                     /\ Setting(SubSeq(s, b, e - 1)).value = SubSeq(s, v.begin, v.end - 1)
<1>0. PICK n \in Nat : n = Len(s)
  OBVIOUS
<1>1. PICK t \in Seq(S) : t = SubSeq(s, b, e - 1)
  BY CutOut
<1>2. Len(t) = e - b /\ DOMAIN t = 1 .. e - b /\ \A i \in 1 .. e - b : t[i] = s[b + i - 1]
  BY <1>1, CutOut
<1>3. b \in Nat /\ e \in Nat
  BY <1>0
<1>4. q \in b .. e /\ (\A i \in b .. q - 1 : s[i] \notin {"="}) /\ (q < e => s[q] \in {"="})
  BY <1>3, FirstOfIs
<1>5. PICK eq : eq = q - b + 1
  OBVIOUS
<1>6. q < e => /\ eq \in 1 .. e - b /\ t[eq] = "=" /\ \A i \in 1 .. eq - 1 : t[i] # "="
  <2>. SUFFICES ASSUME q < e PROVE eq \in 1 .. e - b /\ t[eq] = "=" /\ \A i \in 1 .. eq - 1 : t[i] # "="
    OBVIOUS
  <2>1. eq \in 1 .. e - b /\ b + eq - 1 = q
    BY <1>0, <1>4, <1>5
  <2>2. ASSUME NEW i \in 1 .. eq - 1
        PROVE  t[i] # "="
    <3>1. i \in 1 .. e - b /\ b + i - 1 \in b .. q - 1
      BY <1>0, <1>4, <1>5
    <3>. QED
      BY <1>2, <1>4, <3>1
  <2>. QED
    BY <1>2, <1>4, <2>1, <2>2
<1>7. "=" \in Range(t) <=> q < e
  <2>1. q < e => "=" \in Range(t)
    BY <1>2, <1>6 DEF Range
  <2>2. ASSUME "=" \in Range(t)
        PROVE  q < e
    <3>1. PICK i \in 1 .. e - b : t[i] = "="
      BY <1>2, <2>2 DEF Range
    <3>2. s[b + i - 1] = "=" /\ b + i - 1 \in b .. e - 1
      BY <1>0, <1>2, <3>1
    <3>. QED
      BY <1>0, <1>4, <3>2
  <2>. QED
    BY <2>1, <2>2
<1>8. Head(t) = s[b]
  <2>1. 1 \in 1 .. e - b /\ b + 1 - 1 = b
    BY <1>0
  <2>2. t[1] = s[b]
    BY <1>2, <2>1
  <2>. QED
    BY <2>2
<1>9. q < e => (Head(t) # "=" <=> b < q)
  <2>1. b < q => s[b] # "="
    BY <1>3, <1>4
  <2>. QED
    BY <1>3, <1>4, <1>8, <2>1
<1>10. HasKey(t) <=> b < q /\ q < e
  BY <1>7, <1>9 DEF HasKey
<1>11. ASSUME q < e
       PROVE  /\ Setting(t).key = SubSeq(s, k.begin, k.end - 1)
              /\ Setting(t).value = SubSeq(s, v.begin, v.end - 1)
  <2>. DEFINE eqs == {i \in DOMAIN t : t[i] = "="}
  <2>1. eqs \in SUBSET Nat /\ eq \in eqs
    BY <1>2, <1>6, <1>11
  <2>2. \A j \in eqs : eq <= j
    <3>1. ASSUME NEW j \in eqs
          PROVE  eq <= j
      <4>1. j \in Nat /\ eq \in Nat /\ j >= 1 /\ t[j] = "="
        BY <1>2, <2>1
      <4>. QED
        BY <1>6, <1>11, <4>1
    <3>. QED
      BY <3>1
  <2>. HIDE DEF eqs
  <2>3. Least(eqs) = eq
    BY <2>1, <2>2, LeastBy
  <2>4. /\ Setting(t).key = Stripped(SubSeq(t, 1, eq - 1))
        /\ Setting(t).value = Stripped(SubSeq(t, eq + 1, Len(t)))
    BY <2>3 DEF Setting, eqs
  <2>5. SubSeq(t, 1, eq - 1) = SubSeq(s, b, q - 1)
    <3>1. b \in b .. e /\ q \in b .. e /\ b - b + 1 = 1 /\ q - b = eq - 1
      BY <1>0, <1>4, <1>5
    <3>2. SubSeq(SubSeq(s, b, e - 1), b - b + 1, q - b) = SubSeq(s, b, q - 1)
      BY <3>1, CutTwice
    <3>. QED
      BY <1>1, <3>1, <3>2
  <2>6. SubSeq(t, eq + 1, Len(t)) = SubSeq(s, q + 1, e - 1)
    <3>1. PICK x : x = q + 1
      OBVIOUS
    <3>2. x \in b .. e /\ e \in x .. e /\ x - b + 1 = eq + 1 /\ e - b = Len(t)
      BY <1>0, <1>2, <1>4, <1>5, <1>11, <3>1
    <3>3. SubSeq(SubSeq(s, b, e - 1), x - b + 1, e - b) = SubSeq(s, x, e - 1)
      BY <3>2, CutTwice
    <3>. QED
      BY <1>1, <3>1, <3>2, <3>3
  <2>7. Stripped(SubSeq(s, b, q - 1)) = SubSeq(s, k.begin, k.end - 1)
    <3>1. q \in b .. Len(s) + 1
      BY <1>0, <1>4
    <3>2. PICK r : r = [begin |-> b, end |-> q]
      OBVIOUS
    <3>3. r.begin = b /\ r.end = q
      BY <3>2
    <3>4. Stripped(SubSeq(s, b, q - 1)) = SubSeq(s, Trimmed(s, r).begin, Trimmed(s, r).end - 1)
      BY <3>1, <3>3, StrippedIs
    <3>. QED
      BY <3>2, <3>4
  <2>8. Stripped(SubSeq(s, q + 1, e - 1)) = SubSeq(s, v.begin, v.end - 1)
    <3>1. PICK x : x = q + 1
      OBVIOUS
    <3>2. x \in 1 .. Len(s) + 1 /\ e \in x .. Len(s) + 1
      BY <1>0, <1>4, <1>11, <3>1
    <3>3. PICK r : r = [begin |-> x, end |-> e]
      OBVIOUS
    <3>4. r.begin = x /\ r.end = e
      BY <3>3
    <3>5. Stripped(SubSeq(s, x, e - 1)) = SubSeq(s, Trimmed(s, r).begin, Trimmed(s, r).end - 1)
      BY <3>2, <3>4, StrippedIs
    <3>. QED
      BY <3>1, <3>3, <3>5
  <2>. QED
    BY <2>4, <2>5, <2>6, <2>7, <2>8
<1>. QED
  BY <1>1, <1>4, <1>10, <1>11

-----------------------------------------------------------------------------
(* Pieces and words, one after the other.                                  *)

\* No member between i and j.
LEMMA RankSame ==
  ASSUME NEW m \in Nat, NEW S \in SUBSET (0 .. m), NEW i \in Int, NEW j \in Int, i <= j,
         \A k \in i + 1 .. j : k \notin S
  PROVE  Rank(S, j) = Rank(S, i)
<1>0. S \subseteq Int
  OBVIOUS
<1>1. \A k \in S : k <= j <=> k <= i
  BY <1>0
<1>2. {k \in S : k <= j} = {k \in S : k <= i}
  BY <1>1
<1>. QED
  BY <1>2 DEF Rank

LEMMA RankNext ==
  ASSUME NEW m \in Nat, NEW S \in SUBSET (0 .. m), NEW i \in Int, NEW j \in S, i < j,
         \A k \in i + 1 .. j - 1 : k \notin S
  PROVE  Rank(S, j) = Rank(S, i) + 1
<1>. DEFINE low == {k \in S : k <= i}
<1>0. S \subseteq Int
  OBVIOUS
<1>1. \A k \in S : k <= j <=> k <= i \/ k = j
  <2>. SUFFICES ASSUME NEW k \in S PROVE k <= j <=> k <= i \/ k = j
    OBVIOUS
  <2>1. k \in Int /\ j \in Int
    BY <1>0
  <2>. QED
    BY <2>1
<1>2. {k \in S : k <= j} = low \cup {j}
  BY <1>1
<1>3. j \notin low
  BY <1>0
<1>4. Rank(S, j) = Cardinality(low \cup {j}) /\ Rank(S, i) = Cardinality(low)
  BY <1>2 DEF Rank
<1>5. low \subseteq S
  OBVIOUS
<1>. HIDE DEF low
<1>6. IsFiniteSet(low)
  BY <1>5, RankType, FS_Subset
<1>. QED
  BY <1>3, <1>4, <1>6, FS_AddElement

LEMMA RankLast ==
  ASSUME NEW m \in Nat, NEW S \in SUBSET (0 .. m), NEW j \in Int, \A k \in S : k <= j
  PROVE  Rank(S, j) = Cardinality(S)
<1>1. {k \in S : k <= j} = S
  OBVIOUS
<1>. QED
  BY <1>1 DEF Rank

\* Where lines end.
Cuts(t) == {0, Len(t) + 1} \cup {i \in DOMAIN t : t[i] \in {"\n"}}

LEMMA CutsType ==
  ASSUME NEW S, NEW t \in Seq(S)
  PROVE  /\ Cuts(t) \in SUBSET (0 .. Len(t) + 1) /\ Len(t) + 1 \in Nat
         /\ Rank(Cuts(t), 0) = 1
         /\ Rank(Cuts(t), Len(t) + 1) = Cardinality(Cuts(t))
         /\ Cardinality(Cuts(t)) \in Nat
         /\ Len(Pieces(t, {"\n"})) = Cardinality(Cuts(t)) - 1
<1>0. PICK n \in Nat : n = Len(t)
  OBVIOUS
<1>1. Cuts(t) \in SUBSET (0 .. n + 1) /\ n + 1 \in Nat
  BY <1>0 DEF Cuts
<1>2. {j \in Cuts(t) : j <= 0} = {0}
  <2>1. 0 \in Cuts(t) /\ \A j \in Cuts(t) : j >= 0 /\ j \in Int
    BY <1>1 DEF Cuts
  <2>. QED
    BY <2>1
<1>3. Rank(Cuts(t), 0) = 1
  BY <1>2, FS_Singleton DEF Rank
<1>4. PICK l \in Int : l = n + 1
  BY <1>0
<1>5. Rank(Cuts(t), l) = Cardinality(Cuts(t))
  <2>1. \A k \in Cuts(t) : k <= l
    BY <1>1, <1>4
  <2>. QED
    BY <1>1, <2>1, RankLast
<1>6. Cardinality(Cuts(t)) \in Nat /\ Cardinality(Cuts(t)) >= 1
  <2>1. Cardinality(Cuts(t)) \in Nat /\ Rank(Cuts(t), 0) \in 0 .. Cardinality(Cuts(t))
    <3>1. 0 \in Int
      OBVIOUS
    <3>. QED
      BY <1>1, <3>1, RankType
  <2>. QED
    BY <1>3, <2>1
<1>7. Len(Pieces(t, {"\n"})) = Cardinality(Cuts(t)) - 1
  <2>1. Pieces(t, {"\n"}) = [k \in 1 .. Len(Sorted(Cuts(t))) - 1 |-> SubSeq(t, Sorted(Cuts(t))[k] + 1, Sorted(Cuts(t))[k + 1] - 1)]
    BY DEF Pieces, Cuts
  <2>2. Len(Sorted(Cuts(t))) = Cardinality(Cuts(t))
    BY <1>1, SortedIs
  <2>. QED
    BY <1>6, <2>1, <2>2
<1>. QED
  BY <1>0, <1>1, <1>3, <1>4, <1>5, <1>6, <1>7

\* Two cuts with none between are the ends of a piece.
LEMMA PieceIs ==
  ASSUME NEW S, NEW t \in Seq(S), NEW b \in 1 .. Len(t) + 1, NEW e \in b .. Len(t) + 1,
         b - 1 \in Cuts(t), e \in Cuts(t), \A i \in b .. e - 1 : i \notin Cuts(t),
         NEW k, k = Rank(Cuts(t), b - 1)
  PROVE  /\ Rank(Cuts(t), e) = k + 1
         /\ k \in 1 .. Len(Pieces(t, {"\n"}))
         /\ Pieces(t, {"\n"})[k] = SubSeq(t, b, e - 1)
<1>0. PICK n \in Nat : n = Len(t)
  OBVIOUS
<1>1. Cuts(t) \in SUBSET (0 .. n + 1) /\ n + 1 \in Nat
  BY <1>0, CutsType
<1>2. PICK a \in Int : a = b - 1
  BY <1>0
<1>3. a < e /\ (\A i \in a + 1 .. e - 1 : i \notin Cuts(t)) /\ a + 1 = b
  BY <1>0, <1>2
<1>4. Rank(Cuts(t), e) = k + 1
  BY <1>1, <1>2, <1>3, RankNext
<1>5. k \in 1 .. Cardinality(Cuts(t)) /\ Sorted(Cuts(t))[k] = a
  <2>1. a \in Cuts(t) /\ Rank(Cuts(t), a) = k
    BY <1>2
  <2>. QED
    BY <1>1, <2>1, SortedBy
<1>6. k + 1 \in 1 .. Cardinality(Cuts(t)) /\ Sorted(Cuts(t))[k + 1] = e
  <2>1. PICK l : l = k + 1
    OBVIOUS
  <2>2. l \in 1 .. Cardinality(Cuts(t)) /\ Sorted(Cuts(t))[l] = e
    BY <1>1, <1>4, <2>1, SortedBy
  <2>. QED
    BY <2>1, <2>2
<1>7. Cardinality(Cuts(t)) \in Nat /\ Len(Pieces(t, {"\n"})) = Cardinality(Cuts(t)) - 1
  BY CutsType
<1>8. k \in 1 .. Len(Pieces(t, {"\n"})) /\ k \in 1 .. Cardinality(Cuts(t)) - 1
  BY <1>5, <1>6, <1>7
<1>9. Pieces(t, {"\n"})[k] = SubSeq(t, Sorted(Cuts(t))[k] + 1, Sorted(Cuts(t))[k + 1] - 1)
  <2>1. Pieces(t, {"\n"}) = [j \in 1 .. Len(Sorted(Cuts(t))) - 1 |-> SubSeq(t, Sorted(Cuts(t))[j] + 1, Sorted(Cuts(t))[j + 1] - 1)]
    BY DEF Pieces, Cuts
  <2>2. Len(Sorted(Cuts(t))) = Cardinality(Cuts(t))
    BY <1>1, SortedIs
  <2>. QED
    BY <1>8, <2>1, <2>2
<1>. QED
  BY <1>3, <1>4, <1>5, <1>6, <1>8, <1>9

LEMMA WordStartsType ==
  ASSUME NEW S, NEW t \in Seq(S), NEW seps
  PROVE  /\ WordStarts(t, seps) \in SUBSET (0 .. Len(t)) /\ Len(t) \in Nat
         /\ \A i \in WordStarts(t, seps) : i \in 1 .. Len(t)
         /\ Cardinality(WordStarts(t, seps)) \in Nat
         /\ Len(Words(t, seps)) = Cardinality(WordStarts(t, seps))
         /\ DOMAIN Words(t, seps) = 1 .. Cardinality(WordStarts(t, seps))
<1>0. PICK n \in Nat : n = Len(t)
  OBVIOUS
<1>1. /\ WordStarts(t, seps) \in SUBSET (0 .. n) /\ \A i \in WordStarts(t, seps) : i \in 1 .. n
  BY <1>0 DEF WordStarts
<1>2. Cardinality(WordStarts(t, seps)) \in Nat
  BY <1>1, RankType
<1>3. DOMAIN Sorted(WordStarts(t, seps)) = 1 .. Cardinality(WordStarts(t, seps))
  BY DEF Sorted
<1>4. DOMAIN Words(t, seps) = 1 .. Cardinality(WordStarts(t, seps))
  BY <1>3 DEF Words
<1>5. Len(Words(t, seps)) = Cardinality(WordStarts(t, seps))
  <2>1. Words(t, seps) = [k \in 1 .. Cardinality(WordStarts(t, seps)) |-> WordAt(t, seps, Sorted(WordStarts(t, seps))[k])]
    BY <1>3 DEF Words
  <2>. QED
    BY <1>2, <2>1
<1>. QED
  BY <1>0, <1>1, <1>2, <1>4, <1>5

\* A word is a part of the text, and not an empty one.
LEMMA WordIs ==
  ASSUME NEW S, NEW t \in Seq(S), NEW seps, NEW i \in WordStarts(t, seps), NEW k, k = Rank(WordStarts(t, seps), i),
         NEW e, e = FirstOf(t, seps, i, Len(t) + 1)
  PROVE  /\ k \in DOMAIN Words(t, seps) /\ Words(t, seps)[k] = SubSeq(t, i, e - 1)
         /\ i \in 1 .. Len(t) /\ e \in i + 1 .. Len(t) + 1
<1>1. WordStarts(t, seps) \in SUBSET (0 .. Len(t)) /\ Len(t) \in Nat /\ i \in 1 .. Len(t) /\ t[i] \notin seps
  BY WordStartsType DEF WordStarts
<1>2. k \in DOMAIN Sorted(WordStarts(t, seps)) /\ Sorted(WordStarts(t, seps))[k] = i
  BY <1>1, SortedBy
<1>3. k \in DOMAIN Words(t, seps) /\ Words(t, seps)[k] = WordAt(t, seps, i)
  BY <1>2 DEF Words
<1>4. i \in Nat /\ Len(t) + 1 \in Nat /\ i <= Len(t) + 1
  BY <1>1
<1>5. e \in i .. Len(t) + 1 /\ (e < Len(t) + 1 => t[e] \in seps)
  BY <1>4, FirstOfIs
<1>6. e # i
  BY <1>1, <1>5
<1>. QED
  BY <1>1, <1>3, <1>5, <1>6 DEF WordAt

LEMMA WordsType ==
  ASSUME NEW S, NEW t \in Seq(S), NEW seps
  PROVE  /\ Words(t, seps) \in Seq(Seq(S))
         /\ \A k \in DOMAIN Words(t, seps) : Words(t, seps)[k] \in Seq(S) /\ Len(Words(t, seps)[k]) >= 1
<1>. DEFINE starts == WordStarts(t, seps)
<1>1. starts \in SUBSET (0 .. Len(t)) /\ Len(t) \in Nat /\ Cardinality(starts) \in Nat /\ DOMAIN Words(t, seps) = 1 .. Cardinality(starts)
  BY WordStartsType
<1>. HIDE DEF starts
<1>2. ASSUME NEW k \in DOMAIN Words(t, seps)
      PROVE  Words(t, seps)[k] \in Seq(S) /\ Len(Words(t, seps)[k]) >= 1
  <2>1. PICK i \in starts : i = Sorted(starts)[k] /\ Rank(starts, i) = k
    BY <1>1, SortedIs
  <2>2. PICK e : e = FirstOf(t, seps, i, Len(t) + 1)
    OBVIOUS
  <2>3. Words(t, seps)[k] = SubSeq(t, i, e - 1) /\ i \in 1 .. Len(t) /\ e \in i + 1 .. Len(t) + 1
    BY <2>1, <2>2, WordIs DEF starts
  <2>4. i \in 1 .. Len(t) + 1 /\ e \in i .. Len(t) + 1
    BY <1>1, <2>3
  <2>5. SubSeq(t, i, e - 1) \in Seq(S) /\ Len(SubSeq(t, i, e - 1)) = e - i
    BY <2>4, CutOut
  <2>6. e - i >= 1
    BY <1>1, <2>3
  <2>. QED
    BY <2>3, <2>5, <2>6
<1>3. Words(t, seps) = [k \in 1 .. Cardinality(starts) |-> Words(t, seps)[k]]
  BY <1>1 DEF Words
<1>4. \A k \in 1 .. Cardinality(starts) : Words(t, seps)[k] \in Seq(S)
  BY <1>1, <1>2
<1>5. Words(t, seps) \in Seq(Seq(S))
  BY <1>1, <1>3, <1>4, SeqDef
<1>. QED
  BY <1>2, <1>5
-----------------------------------------------------------------------------
(* The iterators over lines and over parts.                                *)

\* A line, or the end of the text.
LineIs(t, l) ==
  /\ l.begin \in 1 .. Len(t) + 1 /\ l.end \in l.begin .. Len(t) + 1 /\ l.no \in Nat
  /\ l.begin > Len(t) => \A n \in 1 .. Len(Pieces(t, {"\n"})) : n < l.no \/ Pieces(t, {"\n"})[n] = << >>
  /\ l.begin <= Len(t) =>
       /\ l.begin - 1 \in Cuts(t) /\ l.end \in Cuts(t)
       /\ \A i \in l.begin .. l.end - 1 : i \notin Cuts(t)
       /\ l.no = Rank(Cuts(t), l.begin - 1)

LEMMA NextCut ==
  ASSUME NEW S, NEW t \in Seq(S), NEW from \in 1 .. Len(t) + 2, from - 1 \in Cuts(t),
         NEW b, \A i \in from .. Len(t) : b[i] = t[i],
         NEW s, s.to = Len(t) + 1, s.delims = {"\n"}, s.merge = FALSE,
         NEW p, p = Part(b, s, from)
  PROVE  /\ p.begin \in 1 .. Len(t) + 1 /\ p.end \in p.begin .. Len(t) + 1 /\ p.end >= from - 1
         /\ from = Len(t) + 2 => p.begin = Len(t) + 1
         /\ from <= Len(t) + 1 =>
              /\ p.begin = from /\ p.end \in Cuts(t)
              /\ \A i \in p.begin .. p.end - 1 : i \notin Cuts(t)
<1>0. PICK n \in Nat : n = Len(t)
  OBVIOUS
<1>1. PICK x : x = Least({from, n + 1})
  OBVIOUS
<1>2. PICK e : e = FirstOf(b, {"\n"}, x, n + 1)
  OBVIOUS
<1>3. p.begin = x /\ p.end = e
  BY <1>0, <1>1, <1>2, Zenon DEF Part
<1>4. x \in {from, n + 1} /\ x <= from /\ x <= n + 1 /\ x \in Nat
  <2>1. {from, n + 1} \in SUBSET Nat /\ {from, n + 1} # {}
    BY <1>0
  <2>. QED
    BY <1>1, <2>1, LeastIs
<1>5. n + 1 \in Nat
  BY <1>0
<1>6. /\ e \in x .. n + 1 /\ (\A i \in x .. e - 1 : i < n + 1 /\ b[i] \notin {"\n"})
      /\ e < n + 1 => b[e] \in {"\n"}
  BY <1>2, <1>4, <1>5, FirstOfIs
<1>7. from = n + 2 => x = n + 1
  BY <1>0, <1>4
<1>8. ASSUME from <= n + 1
      PROVE  x = from /\ e \in Cuts(t) /\ \A i \in x .. e - 1 : i \notin Cuts(t)
  <2>1. x = from
    BY <1>0, <1>4, <1>8
  <2>2. e \in Cuts(t)
    <3>1. e = n + 1 \/ e \in from .. n
      BY <1>0, <1>6, <2>1
    <3>2. e \in from .. n => e \in DOMAIN t /\ t[e] \in {"\n"}
      BY <1>0, <1>6, <2>1
    <3>. QED
      BY <1>0, <3>1, <3>2 DEF Cuts
  <2>3. ASSUME NEW i \in x .. e - 1
        PROVE  i \notin Cuts(t)
    <3>1. i \in from .. n /\ i # 0 /\ i # n + 1 /\ b[i] \notin {"\n"}
      BY <1>0, <1>6, <2>1
    <3>2. t[i] \notin {"\n"}
      BY <1>0, <3>1
    <3>. QED
      BY <1>0, <3>1, <3>2 DEF Cuts
  <2>. QED
    BY <2>1, <2>2, <2>3
<1>9. x \in 1 .. n + 1 /\ e >= from - 1
  <2>1. from = n + 2 \/ from <= n + 1
    BY <1>0
  <2>2. CASE from = n + 2
    BY <1>0, <1>6, <1>7, <2>2
  <2>3. CASE from <= n + 1
    BY <1>0, <1>6, <1>8, <2>3
  <2>. QED
    BY <2>1, <2>2, <2>3
<1>. QED
  BY <1>0, <1>3, <1>6, <1>7, <1>8, <1>9

LEMMA LineAt ==
  ASSUME NEW S, NEW t \in Seq(S), NEW from \in 1 .. Len(t) + 2, from - 1 \in Cuts(t),
         NEW b, \A i \in from .. Len(t) : b[i] = t[i],
         NEW s, s.to = Len(t) + 1, s.delims = {"\n"}, s.merge = FALSE,
         NEW p, p = Part(b, s, from),
         NEW l, l.begin = p.begin, l.end = p.end, l.no = Rank(Cuts(t), from - 1)
  PROVE  LineIs(t, l) /\ l.end >= from - 1 /\ (l.begin >= from \/ l.begin > Len(t))
<1>0. PICK n \in Nat : n = Len(t)
  OBVIOUS
<1>1. /\ l.begin \in 1 .. n + 1 /\ l.end \in l.begin .. n + 1 /\ l.end >= from - 1
      /\ from = n + 2 => l.begin = n + 1
      /\ from <= n + 1 =>
           /\ l.begin = from /\ l.end \in Cuts(t)
           /\ \A i \in l.begin .. l.end - 1 : i \notin Cuts(t)
  <2>1. /\ p.begin \in 1 .. Len(t) + 1 /\ p.end \in p.begin .. Len(t) + 1 /\ p.end >= from - 1
        /\ from = Len(t) + 2 => p.begin = Len(t) + 1
        /\ from <= Len(t) + 1 =>
             /\ p.begin = from /\ p.end \in Cuts(t)
             /\ \A i \in p.begin .. p.end - 1 : i \notin Cuts(t)
    BY NextCut
  <2>. QED
    BY <1>0, <2>1
<1>2. PICK a \in Int : a = from - 1
  BY <1>0
<1>3. Cuts(t) \in SUBSET (0 .. n + 1) /\ n + 1 \in Nat /\ Len(Pieces(t, {"\n"})) = Cardinality(Cuts(t)) - 1
      /\ Cardinality(Cuts(t)) \in Nat /\ Rank(Cuts(t), n + 1) = Cardinality(Cuts(t))
  BY <1>0, CutsType
<1>4. l.no \in 1 .. Cardinality(Cuts(t))
  BY <1>2, <1>3, RankType
<1>5. CASE from = n + 2
  <2>1. a = n + 1 /\ l.no = Cardinality(Cuts(t))
    BY <1>0, <1>2, <1>3, <1>5
  <2>2. \A i \in 1 .. Len(Pieces(t, {"\n"})) : i < l.no
    BY <1>3, <2>1
  <2>. QED
    BY <1>0, <1>1, <1>4, <1>5, <2>2 DEF LineIs
<1>6. CASE from = n + 1
  <2>1. l.begin = n + 1 /\ l.end = n + 1 /\ l.begin = from
    BY <1>0, <1>1, <1>6
  <2>2. PICK k : k = Rank(Cuts(t), from - 1)
    OBVIOUS
  <2>3. /\ Rank(Cuts(t), l.end) = k + 1 /\ k \in 1 .. Len(Pieces(t, {"\n"}))
        /\ Pieces(t, {"\n"})[k] = SubSeq(t, from, l.end - 1)
    <3>1. from \in 1 .. Len(t) + 1 /\ l.end \in from .. Len(t) + 1
      BY <1>0, <2>1
    <3>2. PICK e : e = l.end
      OBVIOUS
    <3>3. e \in Cuts(t) /\ \A i \in from .. e - 1 : i \notin Cuts(t)
      BY <1>1, <1>6, <2>1, <3>2
    <3>. QED
      BY <2>2, <3>1, <3>2, <3>3, PieceIs
  <2>4. Pieces(t, {"\n"})[k] = << >>
    <3>1. SubSeq(t, n + 1, n) = << >>
      BY <1>0, SubSeqEmpty
    <3>2. l.end - 1 = n
      BY <1>0, <2>1
    <3>. QED
      BY <1>0, <2>1, <2>3, <3>1, <3>2
  <2>5. \A i \in 1 .. Len(Pieces(t, {"\n"})) : i < l.no \/ i = k
    <3>1. k = Cardinality(Cuts(t)) - 1 /\ k = l.no
      BY <1>3, <1>4, <2>1, <2>2, <2>3
    <3>. QED
      BY <1>3, <3>1
  <2>. QED
    BY <1>0, <1>1, <1>4, <1>6, <2>1, <2>4, <2>5 DEF LineIs
<1>7. CASE from <= n
  <2>1. l.begin = from /\ ~(l.begin > n) /\ l.begin - 1 = from - 1
    BY <1>0, <1>1, <1>7
  <2>. QED
    BY <1>0, <1>1, <1>4, <1>7, <2>1 DEF LineIs
<1>. QED
  BY <1>0, <1>5, <1>6, <1>7

\* Behind a line.
LEMMA LineDone ==
  ASSUME NEW S, NEW t \in Seq(S), NEW l, LineIs(t, l), l.begin <= Len(t)
  PROVE  /\ l.end + 1 \in 1 .. Len(t) + 2 /\ (l.end + 1) - 1 \in Cuts(t)
         /\ l.no + 1 = Rank(Cuts(t), (l.end + 1) - 1)
         /\ l.no \in 1 .. Len(Pieces(t, {"\n"}))
         /\ Pieces(t, {"\n"})[l.no] = SubSeq(t, l.begin, l.end - 1)
<1>0. PICK n \in Nat : n = Len(t)
  OBVIOUS
<1>1. PICK b \in 1 .. Len(t) + 1 : b = l.begin
  BY DEF LineIs
<1>2. PICK e \in b .. Len(t) + 1 : e = l.end
  BY <1>1 DEF LineIs
<1>3. PICK k : k = l.no
  OBVIOUS
<1>4. b - 1 \in Cuts(t) /\ e \in Cuts(t) /\ (\A i \in b .. e - 1 : i \notin Cuts(t)) /\ k = Rank(Cuts(t), b - 1)
  BY <1>1, <1>2, <1>3 DEF LineIs
<1>5. /\ Rank(Cuts(t), e) = k + 1 /\ k \in 1 .. Len(Pieces(t, {"\n"}))
      /\ Pieces(t, {"\n"})[k] = SubSeq(t, b, e - 1)
  BY <1>4, PieceIs
<1>6. e + 1 \in 1 .. Len(t) + 2 /\ (e + 1) - 1 = e
  BY <1>0, <1>1, <1>2
<1>. QED
  BY <1>1, <1>2, <1>3, <1>4, <1>5, <1>6

\* What a char* shows: the text up to the NUL.
LEMMA CStringIs ==
  ASSUME NEW S, NEW t \in Seq(S), NUL \notin S, NEW x \in 1 .. Len(t) + 1, NEW y \in x .. Len(t) + 1, NEW o \in Nat,
         NEW R, NEW b \in Seq(R), o + y <= Len(b), b[o + y] = NUL, \A i \in x .. y - 1 : b[o + i] = t[i]
  PROVE  CString(b, o + x) = SubSeq(t, x, y - 1)
<1>0. PICK n \in Nat : n = Len(t)
  OBVIOUS
<1>1. PICK m \in Nat : m = Len(b)
  OBVIOUS
<1>2. PICK p \in Nat : p = o + x
  BY <1>0
<1>3. PICK q \in p .. m : q = o + y
  BY <1>0, <1>1, <1>2
<1>4. \A i \in p .. q - 1 : b[i] = t[i - o] /\ i - o \in x .. y - 1
  <2>1. ASSUME NEW i \in p .. q - 1
        PROVE  b[i] = t[i - o] /\ i - o \in x .. y - 1
    <3>1. i - o \in x .. y - 1 /\ o + (i - o) = i
      BY <1>0, <1>2, <1>3
    <3>. QED
      BY <3>1
  <2>. QED
    BY <2>1
<1>5. \A i \in p .. q - 1 : b[i] \notin {NUL}
  <2>1. \A i \in x .. y - 1 : t[i] \in S
    BY <1>0
  <2>. QED
    BY <1>4, <2>1
<1>6. FirstOf(b, {NUL}, p, m) = q
  <2>1. b[q] \in {NUL}
    BY <1>3
  <2>. QED
    BY <1>5, <2>1, FirstOfBy
<1>7. CString(b, p) = SubSeq(b, p, q - 1)
  BY <1>1, <1>6 DEF CString
<1>8. p \in 1 .. Len(b) + 1 /\ q \in p .. Len(b) + 1 /\ q - p = y - x
  BY <1>0, <1>1, <1>2, <1>3
<1>9. /\ SubSeq(b, p, q - 1) \in Seq(R) /\ Len(SubSeq(b, p, q - 1)) = q - p
      /\ \A i \in 1 .. q - p : SubSeq(b, p, q - 1)[i] = b[p + i - 1]
  BY <1>8, CutOut
<1>10. /\ SubSeq(t, x, y - 1) \in Seq(S) /\ Len(SubSeq(t, x, y - 1)) = y - x
       /\ \A i \in 1 .. y - x : SubSeq(t, x, y - 1)[i] = t[x + i - 1]
  BY CutOut
<1>11. ASSUME NEW i \in 1 .. y - x
       PROVE  SubSeq(b, p, q - 1)[i] = SubSeq(t, x, y - 1)[i]
  <2>1. p + i - 1 \in p .. q - 1 /\ p + i - 1 - o = x + i - 1
    BY <1>0, <1>2, <1>3, <1>8
  <2>2. b[p + i - 1] = t[x + i - 1]
    BY <1>4, <2>1
  <2>. QED
    BY <1>8, <1>9, <1>10, <2>2
<1>12. SubSeq(b, p, q - 1) = SubSeq(t, x, y - 1)
  <2>1. SubSeq(b, p, q - 1) \in Seq(R \cup S) /\ SubSeq(t, x, y - 1) \in Seq(R \cup S)
    BY <1>9, <1>10, SeqMonotonic
  <2>2. PICK u \in Seq(R \cup S) : u = SubSeq(b, p, q - 1)
    BY <2>1
  <2>3. PICK v \in Seq(R \cup S) : v = SubSeq(t, x, y - 1)
    BY <2>1
  <2>4. Len(u) = Len(v) /\ Len(u) = y - x
    BY <1>8, <1>9, <1>10, <2>2, <2>3
  <2>5. \A i \in 1 .. Len(u) : u[i] = v[i]
    BY <1>11, <2>2, <2>3, <2>4
  <2>. QED
    BY <2>2, <2>3, <2>4, <2>5, SeqEqual
<1>. QED
  BY <1>2, <1>7, <1>12
\* What a buffer is made of.
Byte == Char \cup {NUL}

LEMMA CharIs == NUL \notin Char /\ NUL \in Byte /\ Char \subseteq Byte
BY DEF Char, Byte

\* A NUL over a character.
LEMMA NulAt ==
  ASSUME NEW b \in Seq(Byte), NEW e \in 1 .. Len(b)
  PROVE  /\ [b EXCEPT ![e] = NUL] \in Seq(Byte) /\ Len([b EXCEPT ![e] = NUL]) = Len(b)
         /\ \A j \in 1 .. Len(b) : [b EXCEPT ![e] = NUL][j] = IF j = e THEN NUL ELSE b[j]
<1>1. PICK x \in Byte : x = NUL
  BY CharIs
<1>2. /\ [b EXCEPT ![e] = x] \in Seq(Byte) /\ Len([b EXCEPT ![e] = x]) = Len(b)
      /\ \A j \in 1 .. Len(b) : [b EXCEPT ![e] = x][j] = IF j = e THEN x ELSE b[j]
  BY ExceptSeq
<1>. QED
  BY <1>1, <1>2

\* A part, or the end of the text.  Position i of text t is position o + i of
\* buffer b.
PartIs(b, t, delims, o, p) ==
  LET starts == WordStarts(t, delims)
  IN  /\ p.begin - o \in 1 .. Len(t) + 1 /\ p.end - o \in p.begin - o .. Len(t) + 1
      /\ p.begin = o + (p.begin - o) /\ p.end = o + (p.end - o)
      /\ b[p.end] = NUL
      /\ \A i \in p.begin - o .. Len(t) : i # p.end - o => b[o + i] = t[i]
      /\ p.begin - o > Len(t) => p.no = Cardinality(starts) + 1
      /\ p.begin - o <= Len(t) =>
           /\ p.begin - o \in starts /\ p.no = Rank(starts, p.begin - o)
           /\ p.end - o = FirstOf(t, delims, p.begin - o, Len(t) + 1)

\* Where the search for the next word begins, words end before.
LEMMA NextWord ==
  ASSUME NEW S, NEW t \in Seq(S), NEW delims, NEW from \in 1 .. Len(t) + 2,
         from # 1 /\ from <= Len(t) + 1 => t[from - 1] \in delims,
         NEW no, no = Rank(WordStarts(t, delims), from - 1) + 1,
         NEW x \in 1 .. Len(t) + 1, x >= from \/ x = Len(t) + 1,
         \A i \in from .. x - 1 : t[i] \in delims, x <= Len(t) => t[x] \notin delims
  PROVE  /\ x > Len(t) => no = Cardinality(WordStarts(t, delims)) + 1
         /\ x <= Len(t) => x \in WordStarts(t, delims) /\ no = Rank(WordStarts(t, delims), x)
<1>0. PICK n \in Nat : n = Len(t)
  OBVIOUS
<1>. DEFINE starts == WordStarts(t, delims)
<1>1. starts \in SUBSET (0 .. n) /\ \A i \in starts : i \in 1 .. n /\ t[i] \notin delims
  BY <1>0, WordStartsType DEF WordStarts
<1>2. \A i \in from .. x - 1 : i \notin starts
  BY <1>1
<1>3. PICK a \in Int : a = from - 1
  BY <1>0
<1>4. no = Rank(starts, a) + 1
  BY <1>3
<1>5. CASE x > n
  <2>1. \A i \in starts : i <= a
    BY <1>0, <1>1, <1>2, <1>3, <1>5
  <2>. HIDE DEF starts
  <2>2. Rank(starts, a) = Cardinality(starts)
    BY <1>1, <2>1, RankLast
  <2>3. ~(x <= n)
    BY <1>0, <1>5
  <2>. QED
    BY <1>0, <1>4, <1>5, <2>2, <2>3 DEF starts
<1>6. CASE x <= n
  <2>1. x \in starts
    <3>1. x \in DOMAIN t /\ t[x] \notin delims
      BY <1>0, <1>6
    <3>2. x = 1 \/ t[x - 1] \in delims
      <4>1. x >= from /\ x \in Int /\ from \in Int
        BY <1>0, <1>6
      <4>2. CASE x = from
        BY <1>0, <1>6, <4>2
      <4>3. CASE x > from
        <5>1. x - 1 \in from .. x - 1
          BY <4>1, <4>3
        <5>. QED
          BY <5>1
      <4>. QED
        BY <4>1, <4>2, <4>3
    <3>. QED
      BY <3>1, <3>2 DEF WordStarts
  <2>2. a < x /\ \A i \in a + 1 .. x - 1 : i \notin starts
    BY <1>0, <1>2, <1>3, <1>6
  <2>. HIDE DEF starts
  <2>3. Rank(starts, x) = Rank(starts, a) + 1
    BY <1>1, <2>1, <2>2, RankNext
  <2>4. ~(x > n)
    BY <1>0, <1>6
  <2>. QED
    BY <1>0, <1>4, <2>1, <2>3, <2>4 DEF starts
<1>. QED
  BY <1>0, <1>5, <1>6

\* The search for a word begins at a position that nothing was written to yet,
\* nor to those behind it.
SearchIs(b, t, delims, o, from, no) ==
  /\ from # 1 /\ from <= Len(t) + 1 => t[from - 1] \in delims
  /\ no = Rank(WordStarts(t, delims), from - 1) + 1
  /\ \A i \in from .. Len(t) : b[o + i] = t[i]

\* The iterator over the parts of the text goes to part r, which makes the
\* buffer c.
Goes(b, t, delims, o, from, no, c, r) ==
  \E s, p :
    /\ s.to = o + Len(t) + 1 /\ s.delims = delims /\ s.merge = TRUE
    /\ p = Part(b, s, o + from) /\ c = Cut(b, s, p)
    /\ r.begin = p.begin /\ r.end = p.end /\ r.no = no

\* The iterator finds the next word, wherever the text is in the buffer.
LEMMA PartAt ==
  ASSUME NEW t \in Seq(Char), NEW delims, NEW o \in Nat, NEW b \in Seq(Byte),
         o + Len(t) + 1 <= Len(b), b[o + Len(t) + 1] = NUL,
         NEW from \in 1 .. Len(t) + 2, NEW no, SearchIs(b, t, delims, o, from, no),
         NEW c, NEW r, Goes(b, t, delims, o, from, no, c, r)
  PROVE  /\ PartIs(c, t, delims, o, r) /\ c \in Seq(Byte) /\ Len(c) = Len(b)
         /\ \A i \in DOMAIN b : c[i] = b[i] \/ (c[i] = NUL /\ i \in o + 1 .. o + Len(t))
<1>a. /\ from # 1 /\ from <= Len(t) + 1 => t[from - 1] \in delims
      /\ no = Rank(WordStarts(t, delims), from - 1) + 1
      /\ \A i \in from .. Len(t) : b[o + i] = t[i]
  BY DEF SearchIs
<1>d. PICK s, p :
        /\ s.to = o + Len(t) + 1 /\ s.delims = delims /\ s.merge = TRUE
        /\ p = Part(b, s, o + from) /\ c = Cut(b, s, p)
        /\ r.begin = p.begin /\ r.end = p.end /\ r.no = no
  BY DEF Goes
<1>b. s.to = o + Len(t) + 1 /\ s.delims = delims /\ s.merge = TRUE
  BY <1>d
<1>c. r.begin = p.begin /\ r.end = p.end /\ r.no = no
  BY <1>d
<1>0. PICK n \in Nat : n = Len(t)
  OBVIOUS
<1>1. PICK m \in Nat : m = Len(b)
  OBVIOUS
<1>2. PICK f \in Nat : f = o + from
  BY <1>0
<1>3. PICK to \in Nat : to = o + n + 1
  BY <1>0
<1>4. PICK X : X = FirstNotOf(b, delims, f, to)
  OBVIOUS
<1>5. PICK E : E = FirstOf(b, delims, X, to)
  OBVIOUS
<1>6. p.begin = X /\ p.end = E
  BY <1>0, <1>2, <1>3, <1>4, <1>5, <1>b, <1>d, Zenon DEF Part
<1>7. /\ f <= to => X \in f .. to
      /\ f > to => X = to
      /\ \A i \in f .. X - 1 : i < to /\ b[i] \in delims
      /\ X < to => b[X] \notin delims
  BY <1>4, FirstNotOfIs
<1>8. X \in Nat /\ X <= to
  BY <1>2, <1>3, <1>7
<1>9. /\ E \in X .. to
      /\ \A i \in X .. E - 1 : i < to /\ b[i] \notin delims
      /\ E < to => b[E] \in delims
  BY <1>5, <1>8, FirstOfIs
<1>10. PICK x : x = X - o
  OBVIOUS
<1>11. PICK e : e = E - o
  OBVIOUS
<1>12. x \in 1 .. n + 1 /\ e \in x .. n + 1 /\ o + x = X /\ o + e = E /\ (x >= from \/ x = n + 1)
  <2>0. E \in Nat /\ X <= E /\ E <= to
    BY <1>3, <1>8, <1>9
  <2>1. f <= to \/ f > to
    BY <1>2, <1>3
  <2>2. CASE f <= to
    <3>1. f <= X
      BY <1>7, <2>2
    <3>2. from <= x /\ x <= n + 1 /\ x <= e /\ e <= n + 1 /\ x \in Int /\ e \in Int
      BY <1>0, <1>2, <1>3, <1>8, <1>10, <1>11, <2>0, <3>1
    <3>. QED
      BY <1>0, <1>2, <1>3, <1>8, <1>10, <1>11, <2>0, <3>2
  <2>3. CASE f > to
    BY <1>0, <1>2, <1>3, <1>7, <1>9, <1>10, <1>11, <2>3
  <2>. QED
    BY <2>1, <2>2, <2>3
<1>13. ASSUME NEW i \in from .. x - 1
       PROVE  t[i] \in delims
  <2>1. i \in from .. n /\ o + i \in f .. X - 1
    BY <1>0, <1>2, <1>12
  <2>. QED
    BY <1>0, <1>7, <1>a, <2>1
<1>14. x <= n => t[x] \notin delims
  <2>. SUFFICES ASSUME x <= n PROVE t[x] \notin delims
    OBVIOUS
  <2>1. x \in from .. n /\ X < to
    BY <1>0, <1>3, <1>12
  <2>. QED
    BY <1>0, <1>7, <1>12, <1>a, <2>1
<1>15. \A i \in x .. n : b[o + i] = t[i]
  BY <1>0, <1>12, <1>a
<1>16. e = FirstOf(t, delims, x, n + 1)
  <2>1. ASSUME NEW i \in x .. e - 1
        PROVE  t[i] \notin delims
    <3>1. i \in x .. n /\ o + i \in X .. E - 1
      BY <1>12
    <3>. QED
      BY <1>9, <1>15, <3>1
  <2>2. e < n + 1 => t[e] \in delims
    <3>. SUFFICES ASSUME e < n + 1 PROVE t[e] \in delims
      OBVIOUS
    <3>1. e \in x .. n /\ E < to
      BY <1>3, <1>12
    <3>. QED
      BY <1>9, <1>12, <1>15, <3>1
  <2>3. PICK z \in Nat : z = n + 1
    OBVIOUS
  <2>4. x \in Nat /\ e \in x .. z /\ (e < z => t[e] \in delims)
    BY <1>12, <2>2, <2>3
  <2>5. FirstOf(t, delims, x, z) = e
    BY <2>1, <2>4, FirstOfBy
  <2>. QED
    BY <2>3, <2>5
<1>17. /\ x > Len(t) => no = Cardinality(WordStarts(t, delims)) + 1
       /\ x <= Len(t) => x \in WordStarts(t, delims) /\ no = Rank(WordStarts(t, delims), x)
  <2>1. x \in 1 .. Len(t) + 1 /\ (x >= from \/ x = Len(t) + 1) /\ (x <= Len(t) => t[x] \notin delims)
    BY <1>0, <1>12, <1>14
  <2>. QED
    BY <1>13, <1>a, <2>1, NextWord
<1>18. c = IF E < to THEN [b EXCEPT ![E] = NUL] ELSE b
  BY <1>0, <1>3, <1>6, <1>b, <1>d DEF Cut
<1>19. E \in 1 .. m
  BY <1>0, <1>1, <1>3, <1>12
<1>20. c \in Seq(Byte) /\ Len(c) = m /\ c[E] = NUL /\ \A i \in 1 .. m : i # E => c[i] = b[i]
  <2>1. CASE E < to
    <3>1. c = [b EXCEPT ![E] = NUL]
      BY <1>18, <2>1
    <3>2. E \in 1 .. Len(b)
      BY <1>1, <1>19
    <3>3. /\ [b EXCEPT ![E] = NUL] \in Seq(Byte) /\ Len([b EXCEPT ![E] = NUL]) = Len(b)
          /\ \A i \in 1 .. Len(b) : [b EXCEPT ![E] = NUL][i] = IF i = E THEN NUL ELSE b[i]
      BY <3>2, NulAt
    <3>4. c \in Seq(Byte) /\ Len(c) = Len(b) /\ \A i \in 1 .. Len(b) : c[i] = IF i = E THEN NUL ELSE b[i]
      BY <3>1, <3>3, Zenon
    <3>. QED
      BY <1>1, <3>2, <3>4
  <2>2. CASE ~(E < to)
    <3>1. E = to
      BY <1>3, <1>9, <2>2
    <3>2. b[E] = NUL
      BY <1>0, <1>3, <3>1
    <3>. QED
      BY <1>1, <1>18, <2>2, <3>2
  <2>. QED
    BY <2>1, <2>2
<1>21. \A i \in x .. n : i # e => c[o + i] = t[i]
  <2>. SUFFICES ASSUME NEW i \in x .. n, i # e PROVE c[o + i] = t[i]
    OBVIOUS
  <2>1. o + i \in 1 .. m /\ o + i # E
    BY <1>0, <1>1, <1>12
  <2>. QED
    BY <1>15, <1>20, <2>1
<1>22. \A i \in DOMAIN b : c[i] = b[i] \/ (c[i] = NUL /\ i \in o + 1 .. o + n)
  <2>0. DOMAIN b = 1 .. m
    BY <1>1
  <2>. SUFFICES ASSUME NEW i \in 1 .. m PROVE c[i] = b[i] \/ (c[i] = NUL /\ i \in o + 1 .. o + n)
    BY <2>0
  <2>1. CASE i # E
    <3>1. c[i] = b[i]
      BY <1>20, <2>1
    <3>. QED
      BY <3>1
  <2>2. CASE i = E /\ E = to
    <3>1. c = b
      BY <1>3, <1>18, <2>2
    <3>. QED
      BY <3>1
  <2>3. CASE i = E /\ E # to
    <3>1. E < to
      BY <1>3, <1>9, <2>3
    <3>2. E \in o + 1 .. o + n
      BY <1>0, <1>2, <1>3, <1>7, <1>12, <3>1
    <3>. QED
      BY <1>20, <2>3, <3>2
  <2>. QED
    BY <2>1, <2>2, <2>3
<1>23. r.begin - o = x /\ r.end - o = e /\ r.end = E /\ r.begin = X
  BY <1>6, <1>10, <1>11, <1>c
<1>. QED
  BY <1>0, <1>1, <1>12, <1>16, <1>17, <1>20, <1>21, <1>22, <1>23, <1>c DEF PartIs

\* What is handed out is a word, and the search goes on behind it.
LEMMA PartDone ==
  ASSUME NEW t \in Seq(Char), NEW delims, NEW o \in Nat, NEW b \in Seq(Byte), o + Len(t) + 1 <= Len(b),
         NEW p, PartIs(b, t, delims, o, p), p.begin # o + Len(t) + 1
  PROVE  /\ p.no \in DOMAIN Words(t, delims)
         /\ CString(b, p.begin) = Words(t, delims)[p.no]
         /\ p.end + 1 = o + (p.end + 1 - o) /\ p.end + 1 - o \in 1 .. Len(t) + 2
         /\ SearchIs(b, t, delims, o, p.end + 1 - o, p.no + 1)
<1>. DEFINE from == p.end + 1 - o
<1>0. PICK n \in Nat : n = Len(t)
  OBVIOUS
<1>1. PICK x \in 1 .. n + 1 : x = p.begin - o
  BY <1>0 DEF PartIs
<1>2. PICK e \in x .. n + 1 : e = p.end - o
  BY <1>0, <1>1 DEF PartIs
<1>3. p.begin = o + x /\ p.end = o + e
  BY <1>1, <1>2 DEF PartIs
<1>. DEFINE starts == WordStarts(t, delims)
<1>4. x # n + 1
  BY <1>0, <1>3
<1>5. /\ b[o + e] = NUL /\ (\A i \in x .. n : i # e => b[o + i] = t[i])
      /\ x \in starts /\ p.no = Rank(starts, x) /\ e = FirstOf(t, delims, x, n + 1)
  <2>1. /\ b[p.end] = NUL /\ \A i \in x .. n : i # e => b[o + i] = t[i]
        /\ x <= n => x \in starts /\ p.no = Rank(starts, x) /\ e = FirstOf(t, delims, x, n + 1)
    BY <1>0, <1>1, <1>2, Zenon DEF PartIs
  <2>2. x <= n
    BY <1>4
  <2>. QED
    BY <1>3, <2>1, <2>2
<1>6. /\ p.no \in DOMAIN Words(t, delims) /\ Words(t, delims)[p.no] = SubSeq(t, x, e - 1)
      /\ e \in x + 1 .. n + 1
  <2>1. PICK k : k = p.no
    OBVIOUS
  <2>. QED
    BY <1>0, <1>5, <2>1, WordIs
<1>7. CString(b, o + x) = SubSeq(t, x, e - 1)
  <2>1. x \in 1 .. Len(t) + 1 /\ e \in x .. Len(t) + 1 /\ o + e <= Len(b)
    BY <1>0
  <2>2. \A i \in x .. e - 1 : i \in x .. n /\ i # e
    BY <1>0
  <2>3. \A i \in x .. e - 1 : b[o + i] = t[i]
    BY <1>5, <2>2
  <2>. QED
    BY <1>5, <2>1, <2>3, CharIs, CStringIs
<1>8. from = e + 1
  BY <1>0, <1>3
<1>9. (\A i \in x .. e - 1 : t[i] \notin delims) /\ (e < n + 1 => t[e] \in delims)
  <2>1. PICK z \in Nat : z = n + 1
    OBVIOUS
  <2>2. x \in Nat /\ x <= z /\ e = FirstOf(t, delims, x, z)
    BY <1>5, <2>1
  <2>. QED
    BY <2>1, <2>2, FirstOfIs
<1>10. starts \in SUBSET (0 .. n) /\ \A i \in starts : i \in 1 .. n /\ t[i] \notin delims /\ (i = 1 \/ t[i - 1] \in delims)
  BY <1>0, WordStartsType DEF WordStarts
<1>11. Rank(starts, e) = Rank(starts, x)
  <2>1. ASSUME NEW i \in x + 1 .. e, i \in starts
        PROVE  FALSE
    <3>1. i \in 1 .. n /\ t[i] \notin delims /\ t[i - 1] \in delims
      BY <1>10, <2>1
    <3>2. i - 1 \in x .. e - 1
      BY <2>1
    <3>. QED
      BY <1>9, <3>1, <3>2
  <2>2. x \in Int /\ e \in Int /\ x <= e
    OBVIOUS
  <2>. HIDE DEF starts
  <2>. QED
    BY <1>10, <2>1, <2>2, RankSame
<1>12. from - 1 = e
  BY <1>8
<1>13. \A i \in from .. n : b[o + i] = t[i]
  <2>1. \A i \in from .. n : i \in x .. n /\ i # e
    BY <1>8
  <2>. QED
    BY <1>5, <2>1
<1>14. p.no + 1 = Rank(starts, from - 1) + 1
  BY <1>5, <1>11, <1>12
<1>15. from \in 1 .. Len(t) + 2 /\ (from # 1 /\ from <= Len(t) + 1 => t[from - 1] \in delims) /\ p.end + 1 = o + from
  BY <1>0, <1>3, <1>8, <1>9, <1>12
<1>16. SearchIs(b, t, delims, o, from, p.no + 1)
  <2>. HIDE DEF from
  <2>. QED
    BY <1>0, <1>13, <1>14, <1>15 DEF SearchIs
<1>. QED
  BY <1>3, <1>6, <1>7, <1>15, <1>16
\* What the parser makes of a line that nothing has been written to yet: r is its
\* text, q the first '=', k and v are the ranges of key and value.
LEMMA ParsedIs ==
  ASSUME NEW S, NEW t \in Seq(S), NEW l, LineIs(t, l), l.begin <= Len(t),
         NEW b, \A i \in l.begin .. l.end - 1 : b[i] = t[i],
         NEW x, x = Stripped(Pieces(t, {"\n"})[l.no]),
         NEW r, r = Trimmed(b, l), NEW q, q = FirstOf(b, {"="}, r.begin, r.end),
         NEW k, k = IF q = r.end THEN Nothing ELSE Trimmed(b, [begin |-> r.begin, end |-> q]),
         NEW v, v = Trimmed(b, [begin |-> q + 1, end |-> r.end])
  PROVE  /\ r.begin = r.end <=> x = << >>
         /\ r.begin # r.end => b[r.begin] = Head(x)
         /\ r.begin # r.end => (HasKey(x) <=> k.begin # k.end)
         /\ r.begin # r.end /\ HasKey(x) =>
              /\ k.begin \in l.begin .. l.end /\ k.end \in k.begin + 1 .. l.end
              /\ v.begin \in k.end + 1 .. l.end /\ v.end \in v.begin .. l.end
              /\ SubSeq(t, k.begin, k.end - 1) = Setting(x).key
              /\ SubSeq(t, v.begin, v.end - 1) = Setting(x).value
<1>0. PICK n \in Nat : n = Len(t)
  OBVIOUS
<1>1. PICK c \in 1 .. n + 1 : c = l.begin
  BY <1>0 DEF LineIs
<1>2. PICK d \in c .. n + 1 : d = l.end
  BY <1>0, <1>1 DEF LineIs
<1>3. \A i \in c .. d - 1 : b[i] = t[i]
  BY <1>1, <1>2
<1>4. r = Trimmed(t, l)
  BY TrimmedSame
<1>5. /\ r.begin \in c .. d /\ r.end \in r.begin .. d
      /\ r.begin < r.end => t[r.begin] \notin Spaces
  BY <1>1, <1>2, <1>4, TrimmedIs
<1>6. PICK f \in c .. d : f = r.begin
  BY <1>5
<1>7. PICK g \in f .. d : g = r.end
  BY <1>5, <1>6
<1>8. x = SubSeq(t, f, g - 1)
  <2>1. Pieces(t, {"\n"})[l.no] = SubSeq(t, c, d - 1)
    BY <1>1, <1>2, LineDone
  <2>2. c \in 1 .. Len(t) + 1 /\ d \in c .. Len(t) + 1
    BY <1>0
  <2>3. Stripped(SubSeq(t, c, d - 1)) = SubSeq(t, r.begin, r.end - 1)
    BY <1>1, <1>2, <1>4, <2>2, StrippedIs
  <2>. QED
    BY <1>6, <1>7, <2>1, <2>3
<1>9. f \in 1 .. Len(t) + 1 /\ g \in f .. Len(t) + 1
  BY <1>0
<1>10. /\ x \in Seq(S) /\ Len(x) = g - f /\ \A i \in 1 .. g - f : x[i] = t[f + i - 1]
  <2>1. /\ SubSeq(t, f, g - 1) \in Seq(S) /\ Len(SubSeq(t, f, g - 1)) = g - f
        /\ \A i \in 1 .. g - f : SubSeq(t, f, g - 1)[i] = t[f + i - 1]
    BY <1>9, CutOut
  <2>. QED
    BY <1>8, <2>1
<1>11. f = g <=> x = << >>
  BY <1>10
<1>12. f # g => b[f] = Head(x)
  <2>. SUFFICES ASSUME f # g PROVE b[f] = Head(x)
    OBVIOUS
  <2>1. 1 \in 1 .. g - f /\ f + 1 - 1 = f /\ f \in c .. d - 1
    OBVIOUS
  <2>2. x[1] = t[f] /\ b[f] = t[f]
    BY <1>3, <1>10, <2>1
  <2>. QED
    BY <1>10, <1>11, <2>2
<1>13. ASSUME f # g
       PROVE  /\ HasKey(x) <=> k.begin # k.end
              /\ HasKey(x) =>
                   /\ k.begin \in c .. d /\ k.end \in k.begin + 1 .. d
                   /\ v.begin \in k.end + 1 .. d /\ v.end \in v.begin .. d
                   /\ SubSeq(t, k.begin, k.end - 1) = Setting(x).key
                   /\ SubSeq(t, v.begin, v.end - 1) = Setting(x).value
  <2>1. f < g /\ t[f] \notin Spaces
    BY <1>5, <1>6, <1>7, <1>13
  <2>2. q = FirstOf(t, {"="}, f, g)
    <3>1. \A i \in f .. g - 1 : b[i] = t[i]
      BY <1>3
    <3>2. f \in Nat /\ g \in Nat /\ f <= g
      OBVIOUS
    <3>. QED
      BY <1>6, <1>7, <3>1, <3>2, FirstOfSame
  <2>3. PICK kt : kt = Trimmed(t, [begin |-> f, end |-> q])
    OBVIOUS
  <2>4. PICK vt : vt = Trimmed(t, [begin |-> q + 1, end |-> g])
    OBVIOUS
  <2>5. /\ q \in f .. g
        /\ HasKey(x) <=> f < q /\ q < g
        /\ q < g => /\ Setting(x).key = SubSeq(t, kt.begin, kt.end - 1)
                    /\ Setting(x).value = SubSeq(t, vt.begin, vt.end - 1)
    <3>1. /\ q \in f .. g
          /\ HasKey(SubSeq(t, f, g - 1)) <=> f < q /\ q < g
          /\ q < g => /\ Setting(SubSeq(t, f, g - 1)).key = SubSeq(t, kt.begin, kt.end - 1)
                      /\ Setting(SubSeq(t, f, g - 1)).value = SubSeq(t, vt.begin, vt.end - 1)
      BY <1>9, <2>1, <2>2, <2>3, <2>4, SettingIs
    <3>. QED
      BY <1>8, <3>1
  <2>6. CASE q = g
    <3>1. ~HasKey(x) /\ k = Nothing
      BY <1>7, <2>5, <2>6
    <3>. QED
      BY <3>1 DEF Nothing
  <2>7. CASE q # g
    <3>1. q < g /\ q \in Nat /\ f \in Nat /\ g \in Nat
      BY <2>5, <2>7
    <3>2. k = kt
      <4>1. PICK y : y = [begin |-> f, end |-> q]
        OBVIOUS
      <4>2. \A i \in y.begin .. y.end - 1 : b[i] = t[i]
        <5>1. \A i \in f .. q - 1 : i \in c .. d - 1
          BY <3>1
        <5>2. y.begin = f /\ y.end = q
          BY <4>1
        <5>. QED
          BY <1>3, <5>1, <5>2
      <4>3. Trimmed(b, y) = Trimmed(t, y)
        BY <4>2, TrimmedSame
      <4>. QED
        BY <1>6, <1>7, <2>3, <2>7, <4>1, <4>3
    <3>3. v = vt
      <4>1. PICK y : y = [begin |-> q + 1, end |-> g]
        OBVIOUS
      <4>2. \A i \in y.begin .. y.end - 1 : b[i] = t[i]
        <5>1. \A i \in q + 1 .. g - 1 : i \in c .. d - 1
          BY <2>5, <3>1
        <5>2. y.begin = q + 1 /\ y.end = g
          BY <4>1
        <5>. QED
          BY <1>3, <5>1, <5>2
      <4>3. Trimmed(b, y) = Trimmed(t, y)
        BY <4>2, TrimmedSame
      <4>. QED
        BY <1>7, <2>4, <4>1, <4>3
    <3>4. /\ k.begin \in f .. q /\ k.end \in k.begin .. q
          /\ k.begin = k.end => k.begin = q
          /\ \A i \in f .. q - 1 : t[i] \notin Spaces => i \in k.begin .. k.end - 1
      <4>1. PICK y : y = [begin |-> f, end |-> q]
        OBVIOUS
      <4>2. y.begin = f /\ y.end = q /\ f <= q /\ k = Trimmed(t, y)
        BY <2>3, <2>5, <3>1, <3>2, <4>1
      <4>3. f \in Nat /\ q \in Nat
        BY <3>1
      <4>4. IsTrim(t, f, q, k)
        BY <4>2, <4>3, TrimmedFits
      <4>. QED
        BY <4>4 DEF IsTrim
    <3>5. v.begin \in q + 1 .. g /\ v.end \in v.begin .. g
      <4>1. PICK y : y = [begin |-> q + 1, end |-> g]
        OBVIOUS
      <4>2. PICK z \in Nat : z = q + 1
        BY <3>1
      <4>3. y.begin = z /\ y.end = g /\ z <= g /\ v = Trimmed(t, y) /\ g \in Nat
        BY <2>4, <3>1, <3>3, <4>1, <4>2
      <4>4. IsTrim(t, z, g, v)
        BY <4>3, TrimmedFits
      <4>. QED
        BY <4>2, <4>4 DEF IsTrim
    <3>6. k.begin # k.end <=> f < q
      <4>1. f < q => f \in k.begin .. k.end - 1
        BY <2>1, <3>1, <3>4
      <4>2. f < q => k.begin # k.end
        BY <3>4, <4>1
      <4>3. ~(f < q) => k.begin = k.end
        BY <2>5, <3>1, <3>4
      <4>. QED
        BY <4>2, <4>3
    <3>7. HasKey(x) => /\ k.begin \in c .. d /\ k.end \in k.begin + 1 .. d
                       /\ v.begin \in k.end + 1 .. d /\ v.end \in v.begin .. d
      <4>1. PICK kb \in f .. q : kb = k.begin
        BY <3>4
      <4>2. PICK ke \in kb .. q : ke = k.end
        BY <3>4, <4>1
      <4>3. PICK vb \in q + 1 .. g : vb = v.begin
        BY <3>5
      <4>4. PICK ve \in vb .. g : ve = v.end
        BY <3>5, <4>3
      <4>5. kb \in c .. d /\ vb \in ke + 1 .. d /\ ve \in vb .. d /\ (kb # ke => ke \in kb + 1 .. d)
        BY <3>1
      <4>6. HasKey(x) => kb # ke
        BY <2>5, <3>6, <4>1, <4>2
      <4>. QED
        BY <4>1, <4>2, <4>3, <4>4, <4>5, <4>6
    <3>. QED
      BY <2>5, <3>1, <3>2, <3>3, <3>6, <3>7
  <2>. QED
    BY <2>6, <2>7
<1>. QED
  BY <1>1, <1>2, <1>6, <1>7, <1>11, <1>12, <1>13
-----------------------------------------------------------------------------
(* Where the parser is and what it has written.  What the file says is      *)
(* spelled with its text t, so that a step that leaves input alone leaves   *)
(* it alone.                                                                *)

TextAt(t, n) == Stripped(Pieces(t, {"\n"})[n])
IsLine(t, n) == n \in 1 .. Len(Pieces(t, {"\n"})) /\ TextAt(t, n) # << >> /\ Head(TextAt(t, n)) # "#"
KeyAt(t, n) == Setting(TextAt(t, n)).key
ValueAt(t, n) == Setting(TextAt(t, n)).value

\* Only NULs were written, and none behind the line.
BufferIs(t, b, l) ==
  /\ b \in Seq(Byte) /\ Len(b) = Len(t) + 1 /\ b[Len(t) + 1] = NUL
  /\ \A i \in DOMAIN t : b[i] \in {t[i], NUL} /\ (i > l.end => b[i] = t[i])

Same(t, b, from, to) == \A i \in from .. to : b[i] = t[i]

\* Key and value stand in the buffer, in this order, as they were in the line.
SettingIn(t, b, l, k, v) ==
  /\ l.begin <= Len(t) /\ IsLine(t, l.no) /\ HasKey(TextAt(t, l.no))
  /\ k.begin \in l.begin .. l.end /\ k.end \in k.begin + 1 .. l.end
  /\ v.begin \in k.end + 1 .. l.end /\ v.end \in v.begin .. l.end
  /\ SubSeq(t, k.begin, k.end - 1) = KeyAt(t, l.no)
  /\ SubSeq(t, v.begin, v.end - 1) = ValueAt(t, l.no)
  /\ b[k.end] = NUL /\ b[v.end] = NUL /\ Same(t, b, k.begin, k.end - 1)

Parsing == pc \in {"parse", "parts"}

TextInv ==
  /\ input \in Inputs
  /\ Parsing =>
       /\ HasFile /\ BufferIs(File, buf, line) /\ LineIs(File, line)
       /\ at \in {"line", "onLine"} /\ (pc = "parts" => at = "onLine")
       /\ at = "line" => Same(File, buf, line.begin, line.end - 1)
       /\ at = "onLine" => SettingIn(File, buf, line, key, value)
       /\ at = "onLine" /\ pc = "parse" => Same(File, buf, value.begin, value.end - 1)
  /\ pc = "parts" => PartIs(buf, ValueAt(File, line.no), Blanks, value.begin - 1, part)
  /\ pc = "environment" =>
       /\ input.libraryPath # Absent /\ buf \in Seq(Byte) /\ Len(buf) = Len(input.libraryPath) + 1
       /\ buf[Len(buf)] = NUL
       /\ PartIs(buf, input.libraryPath, {":"}, 0, part)

LEMMA InputIs ==
  ASSUME input \in Inputs
  PROVE  /\ HasFile => File \in Seq(Char)
         /\ input.libraryPath # Absent => input.libraryPath \in Seq(Char)
         /\ input.args \in Seq(STRING)
<1>1. /\ input.args \in Seq(STRING) /\ input.libraryPath \in {Absent} \cup Seq(Char)
      /\ {input.sample, input.etc} \subseteq {Absent, Unreadable} \cup Seq(Char)
  BY TextAssumption
<1>2. HasFile => File \in Seq(Char)
  BY <1>1 DEF HasFile, File
<1>. QED
  BY <1>1, <1>2

LEMMA SameInput == ASSUME input' = input PROVE File' = File /\ (HasFile' <=> HasFile)
BY DEF File, HasFile

\* The text whose terminator is appended.
LEMMA Terminated ==
  ASSUME NEW t \in Seq(Char)
  PROVE  /\ Append(t, NUL) \in Seq(Byte) /\ Len(Append(t, NUL)) = Len(t) + 1
         /\ Append(t, NUL)[Len(t) + 1] = NUL
         /\ \A i \in 1 .. Len(t) : Append(t, NUL)[i] = t[i]
<1>1. t \in Seq(Byte) /\ NUL \in Byte
  BY CharIs, SeqMonotonic
<1>2. PICK x \in Byte : x = NUL
  BY <1>1
<1>3. PICK n \in Nat : n = Len(t)
  OBVIOUS
<1>4. PICK u : u = Append(t, x)
  OBVIOUS
<1>5. u \in Seq(Byte) /\ Len(u) = Len(t) + 1 /\ u[Len(t) + 1] = x /\ \A i \in 1 .. Len(t) : u[i] = t[i]
  BY <1>1, <1>4, AppendProperties
<1>. QED
  BY <1>2, <1>4, <1>5

\* The value of a line as a text of its own.
LEMMA ValueIs ==
  ASSUME NEW t \in Seq(Char), NEW l, LineIs(t, l), NEW b, NEW k, NEW v, SettingIn(t, b, l, k, v)
  PROVE  /\ ValueAt(t, l.no) \in Seq(Char) /\ KeyAt(t, l.no) \in Seq(Char)
         /\ v.begin \in 1 .. Len(t) + 1 /\ v.end \in v.begin .. Len(t) + 1 /\ v.begin - 1 \in Nat
         /\ k.begin \in 1 .. Len(t) + 1 /\ k.end \in k.begin + 1 .. Len(t) + 1 /\ k.end < v.begin
         /\ v.end = v.begin - 1 + Len(ValueAt(t, l.no)) + 1
         /\ \A i \in 1 .. Len(ValueAt(t, l.no)) :
              ValueAt(t, l.no)[i] = t[v.begin - 1 + i] /\ v.begin - 1 + i \in v.begin .. v.end - 1
         /\ l.end \in 1 .. Len(t) + 1 /\ l.no \in Nat
<1>0. PICK n \in Nat : n = Len(t)
  OBVIOUS
<1>1. l.begin \in 1 .. n + 1 /\ l.end \in l.begin .. n + 1 /\ l.no \in Nat
  BY <1>0 DEF LineIs
<1>2. /\ k.begin \in l.begin .. l.end /\ k.end \in k.begin + 1 .. l.end
      /\ v.begin \in k.end + 1 .. l.end /\ v.end \in v.begin .. l.end
      /\ SubSeq(t, k.begin, k.end - 1) = KeyAt(t, l.no)
      /\ SubSeq(t, v.begin, v.end - 1) = ValueAt(t, l.no)
  BY DEF SettingIn
<1>3. PICK x \in 1 .. n + 1 : x = k.begin
  BY <1>1, <1>2
<1>4. PICK y \in x + 1 .. n + 1 : y = k.end
  BY <1>1, <1>2, <1>3
<1>5. PICK c \in y + 1 .. n + 1 : c = v.begin
  BY <1>1, <1>2, <1>3, <1>4
<1>6. PICK d \in c .. n + 1 : d = v.end
  BY <1>1, <1>2, <1>3, <1>4, <1>5
<1>7. x \in 1 .. Len(t) + 1 /\ y \in x .. Len(t) + 1 /\ c \in 1 .. Len(t) + 1 /\ d \in c .. Len(t) + 1
  BY <1>0
<1>8. SubSeq(t, x, y - 1) \in Seq(Char)
  BY <1>7, CutOut
<1>9. /\ SubSeq(t, c, d - 1) \in Seq(Char) /\ Len(SubSeq(t, c, d - 1)) = d - c
      /\ \A i \in 1 .. d - c : SubSeq(t, c, d - 1)[i] = t[c + i - 1]
  BY <1>7, CutOut
<1>10. \A i \in 1 .. d - c : c + i - 1 = c - 1 + i /\ c - 1 + i \in c .. d - 1
  OBVIOUS
<1>11. SubSeq(t, x, y - 1) = KeyAt(t, l.no) /\ SubSeq(t, c, d - 1) = ValueAt(t, l.no)
  BY <1>2, <1>3, <1>4, <1>5, <1>6
<1>12. PICK val \in Seq(Char) : val = ValueAt(t, l.no)
  BY <1>9, <1>11
<1>13. Len(val) = d - c /\ \A i \in 1 .. d - c : val[i] = t[c - 1 + i]
  BY <1>9, <1>10, <1>11, <1>12
<1>14. c - 1 \in Nat /\ y < c /\ d = c - 1 + (d - c) + 1
  OBVIOUS
<1>15. ASSUME NEW i \in 1 .. Len(val)
       PROVE  val[i] = t[c - 1 + i] /\ c - 1 + i \in c .. d - 1
  BY <1>13
<1>16. l.end \in 1 .. n + 1
  BY <1>1
<1>17. d = c - 1 + Len(val) + 1
  BY <1>13, <1>14
<1>18. KeyAt(t, l.no) \in Seq(Char)
  BY <1>8, <1>11
<1>. QED
  BY <1>0, <1>1, <1>3, <1>4, <1>5, <1>6, <1>12, <1>14, <1>15, <1>16, <1>17, <1>18

\* The iterator goes to the line behind a cut of a text that was not written to
\* from there on.
LEMMA GotoLineIs ==
  ASSUME NEW t \in Seq(Char), NEW b \in Seq(Byte), Len(b) = Len(t) + 1, b[Len(t) + 1] = NUL,
         \A i \in DOMAIN t : b[i] \in {t[i], NUL},
         NEW from \in 1 .. Len(t) + 2, from - 1 \in Cuts(t), Same(t, b, from, Len(t)),
         NEW no, no = Rank(Cuts(t), from - 1), GotoLine(b, from, no)
  PROVE  /\ BufferIs(t, buf', line') /\ LineIs(t, line') /\ Same(t, buf', line'.begin, line'.end - 1)
         /\ line'.no = no
<1>0. PICK n \in Nat : n = Len(t)
  OBVIOUS
<1>1. PICK p : p = Part(b, Lines(b), from)
  OBVIOUS
<1>2. line' = [begin |-> p.begin, end |-> p.end, no |-> no] /\ buf' = Cut(b, Lines(b), p)
  BY <1>1 DEF GotoLine
<1>3. line'.begin = p.begin /\ line'.end = p.end /\ line'.no = no
  BY <1>2
<1>4. PICK s : s = Lines(b)
  OBVIOUS
<1>5. s.to = Len(t) + 1 /\ s.delims = {"\n"} /\ s.merge = FALSE
  BY <1>4 DEF Lines
<1>6. \A i \in from .. Len(t) : b[i] = t[i]
  BY DEF Same
<1>7. LineIs(t, line') /\ line'.end >= from - 1 /\ (line'.begin >= from \/ line'.begin > Len(t))
  <2>1. PICK l : l = line'
    OBVIOUS
  <2>2. l.begin = p.begin /\ l.end = p.end /\ l.no = Rank(Cuts(t), from - 1) /\ p = Part(b, s, from)
    BY <1>1, <1>3, <1>4, <2>1
  <2>. QED
    BY <1>5, <1>6, <2>1, <2>2, LineAt
<1>8. PICK e \in 1 .. n + 1 : e = line'.end
  BY <1>0, <1>7 DEF LineIs
<1>9. PICK c \in 1 .. e : c = line'.begin
  BY <1>0, <1>7, <1>8 DEF LineIs
<1>10. buf' = IF e < n + 1 THEN [b EXCEPT ![e] = NUL] ELSE b
  BY <1>0, <1>2, <1>3, <1>4, <1>5, <1>8 DEF Cut
<1>11. buf' \in Seq(Byte) /\ Len(buf') = n + 1 /\ buf'[n + 1] = NUL
       /\ \A i \in 1 .. n : buf'[i] = b[i] \/ (i = e /\ buf'[i] = NUL)
  <2>1. CASE e < n + 1
    <3>1. e \in 1 .. Len(b) /\ NUL \in Byte
      BY <1>0, CharIs
    <3>2. /\ [b EXCEPT ![e] = NUL] \in Seq(Byte) /\ Len([b EXCEPT ![e] = NUL]) = Len(b)
          /\ \A j \in 1 .. Len(b) : [b EXCEPT ![e] = NUL][j] = IF j = e THEN NUL ELSE b[j]
      BY <3>1, NulAt
    <3>3. buf' = [b EXCEPT ![e] = NUL]
      BY <1>10, <2>1
    <3>4. buf' \in Seq(Byte) /\ Len(buf') = n + 1 /\ \A j \in 1 .. n + 1 : buf'[j] = IF j = e THEN NUL ELSE b[j]
      BY <1>0, <3>2, <3>3
    <3>5. n + 1 \in 1 .. n + 1 /\ n + 1 # e /\ \A i \in 1 .. n : i \in 1 .. n + 1
      BY <2>1
    <3>. QED
      BY <1>0, <3>4, <3>5
  <2>2. CASE ~(e < n + 1)
    <3>1. buf' = b
      BY <1>10, <2>2
    <3>. QED
      BY <1>0, <3>1
  <2>. QED
    BY <2>1, <2>2
<1>12. BufferIs(t, buf', line')
  <2>1. ASSUME NEW i \in 1 .. n
        PROVE  buf'[i] \in {t[i], NUL} /\ (i > e => buf'[i] = t[i])
    <3>1. b[i] \in {t[i], NUL}
      BY <1>0
    <3>2. i > e => b[i] = t[i]
      <4>1. i > e => i \in from .. Len(t)
        BY <1>0, <1>7, <1>8
      <4>. QED
        BY <1>6, <4>1
    <3>3. i > e => buf'[i] = b[i]
      BY <1>11
    <3>. QED
      BY <1>11, <3>1, <3>2, <3>3
  <2>. QED
    BY <1>0, <1>8, <1>11, <2>1 DEF BufferIs
<1>13. Same(t, buf', line'.begin, line'.end - 1)
  <2>1. ASSUME NEW i \in c .. e - 1
        PROVE  buf'[i] = t[i]
    <3>1. i \in 1 .. n /\ i # e
      BY <1>0
    <3>2. buf'[i] = b[i]
      BY <1>11, <3>1
    <3>3. i >= from
      BY <1>0, <1>7, <1>9, <3>1
    <3>. QED
      BY <1>0, <1>6, <3>1, <3>2, <3>3
  <2>. QED
    BY <1>8, <1>9, <2>1 DEF Same
<1>. QED
  BY <1>3, <1>7, <1>12, <1>13
LEMMA NextLineIs ==
  ASSUME NEW t \in Seq(Char), BufferIs(t, buf, line), LineIs(t, line), line.begin <= Len(t), NextLine
  PROVE  /\ BufferIs(t, buf', line') /\ LineIs(t, line') /\ Same(t, buf', line'.begin, line'.end - 1)
         /\ line'.no = line.no + 1 /\ at' = "line"
<1>0. PICK n \in Nat : n = Len(t)
  OBVIOUS
<1>1. /\ line.end + 1 \in 1 .. Len(t) + 2 /\ (line.end + 1) - 1 \in Cuts(t)
      /\ line.no + 1 = Rank(Cuts(t), (line.end + 1) - 1)
  BY LineDone
<1>2. PICK from \in 1 .. Len(t) + 2 : from = line.end + 1
  BY <1>1
<1>3. PICK no : no = line.no + 1
  OBVIOUS
<1>4. GotoLine(buf, from, no) /\ at' = "line"
  BY <1>2, <1>3 DEF NextLine
<1>5. /\ buf \in Seq(Byte) /\ Len(buf) = Len(t) + 1 /\ buf[Len(t) + 1] = NUL
      /\ \A i \in DOMAIN t : buf[i] \in {t[i], NUL}
  BY DEF BufferIs
<1>6. Same(t, buf, from, Len(t))
  <2>1. PICK e \in 1 .. n + 1 : e = line.end
    BY <1>0, <1>1 DEF LineIs
  <2>2. \A i \in 1 .. n : i > e => buf[i] = t[i]
    BY <1>0, <2>1 DEF BufferIs
  <2>3. \A i \in from .. n : i \in 1 .. n /\ i > e
    BY <1>2, <2>1
  <2>. QED
    BY <1>0, <2>2, <2>3 DEF Same
<1>7. from - 1 \in Cuts(t) /\ no = Rank(Cuts(t), from - 1)
  BY <1>1, <1>2, <1>3
<1>8. /\ BufferIs(t, buf', line') /\ LineIs(t, line') /\ Same(t, buf', line'.begin, line'.end - 1)
      /\ line'.no = no
  BY <1>4, <1>5, <1>6, <1>7, GotoLineIs
<1>. QED
  BY <1>3, <1>4, <1>8

\* Where nothing is parsed or split, nothing is said.
LEMMA TextElsewhere ==
  ASSUME TextInv, input' = input, pc' \notin {"parse", "parts", "environment"}
  PROVE  TextInv'
BY DEF TextInv, Parsing

LEMMA TextSame ==
  ASSUME TextInv, input' = input, pc' = pc, part' = part, parserVars' = parserVars
  PROVE  TextInv'
<1>1. File' = File /\ (HasFile' <=> HasFile)
  BY SameInput
<1>2. buf' = buf /\ line' = line /\ key' = key /\ value' = value /\ at' = at
  BY DEF parserVars
<1>. QED
  BY <1>1, <1>2 DEF TextInv, Parsing

LEMMA TextNextLine ==
  ASSUME TextInv, Parsing, line.begin <= Len(File), NextLine, pc' = "parse", input' = input
  PROVE  TextInv' /\ line'.no = line.no + 1 /\ at' = "line"
<1>1. HasFile /\ BufferIs(File, buf, line) /\ LineIs(File, line) /\ File \in Seq(Char)
  BY InputIs DEF TextInv
<1>2. PICK t \in Seq(Char) : t = File
  BY <1>1
<1>3. /\ BufferIs(t, buf', line') /\ LineIs(t, line') /\ Same(t, buf', line'.begin, line'.end - 1)
      /\ line'.no = line.no + 1 /\ at' = "line"
  BY <1>1, <1>2, NextLineIs
<1>4. File' = t /\ HasFile'
  BY <1>1, <1>2, SameInput
<1>. QED
  BY <1>3, <1>4 DEF TextInv, Parsing

LEMMA AtEndIs ==
  ASSUME TextInv, Parsing
  PROVE  AtEnd <=> ~(line.begin <= Len(File))
<1>1. File \in Seq(Char) /\ Len(buf) = Len(File) + 1 /\ line.begin \in 1 .. Len(File) + 1
  BY InputIs DEF TextInv, BufferIs, LineIs
<1>2. AtEnd <=> line.begin = Len(buf)
  BY Zenon DEF AtEnd, IsEnd, Lines
<1>3. PICK n \in Nat : n = Len(File)
  BY <1>1
<1>. QED
  BY <1>1, <1>2, <1>3

\* What the parser's tests of a line say of the line.
LEMMA LineRead ==
  ASSUME TextInv, pc = "parse", at = "line", ~AtEnd,
         NEW x, x = TextAt(File, line.no), NEW k, k = KeyIn(Text), NEW v, v = ValueIn(Text)
  PROVE  /\ IsComment <=> ~IsLine(File, line.no)
         /\ ~IsComment => (IsEmpty(k) <=> ~HasKey(x))
         /\ ~IsComment /\ ~IsEmpty(k) =>
              /\ k.begin \in line.begin .. line.end /\ k.end \in k.begin + 1 .. line.end
              /\ v.begin \in k.end + 1 .. line.end /\ v.end \in v.begin .. line.end
              /\ SubSeq(File, k.begin, k.end - 1) = Setting(x).key
              /\ SubSeq(File, v.begin, v.end - 1) = Setting(x).value
<1>1. /\ HasFile /\ BufferIs(File, buf, line) /\ LineIs(File, line) /\ File \in Seq(Char)
      /\ Same(File, buf, line.begin, line.end - 1)
  BY InputIs DEF TextInv, Parsing
<1>2. line.begin <= Len(File)
  BY AtEndIs DEF Parsing
<1>3. PICK t \in Seq(Char) : t = File
  BY <1>1
<1>4. PICK l : l = line
  OBVIOUS
<1>5. PICK b : b = buf
  OBVIOUS
<1>6. LineIs(t, l) /\ l.begin <= Len(t) /\ (\A i \in l.begin .. l.end - 1 : b[i] = t[i]) /\ x = Stripped(Pieces(t, {"\n"})[l.no])
  BY <1>1, <1>2, <1>3, <1>4, <1>5 DEF Same, TextAt
<1>7. PICK r : r = Trimmed(b, l)
  OBVIOUS
<1>8. PICK q : q = FirstOf(b, {"="}, r.begin, r.end)
  OBVIOUS
<1>9. Text = r /\ Equals(r) = q
  BY <1>4, <1>5, <1>7, <1>8, Zenon DEF Text, Equals
<1>10. k = IF q = r.end THEN Nothing ELSE Trimmed(b, [begin |-> r.begin, end |-> q])
  BY <1>5, <1>9, Zenon DEF KeyIn
<1>11. v = Trimmed(b, [begin |-> q + 1, end |-> r.end])
  BY <1>5, <1>9, Zenon DEF ValueIn
<1>12. /\ r.begin = r.end <=> x = << >>
       /\ r.begin # r.end => b[r.begin] = Head(x)
       /\ r.begin # r.end => (HasKey(x) <=> k.begin # k.end)
       /\ r.begin # r.end /\ HasKey(x) =>
            /\ k.begin \in l.begin .. l.end /\ k.end \in k.begin + 1 .. l.end
            /\ v.begin \in k.end + 1 .. l.end /\ v.end \in v.begin .. l.end
            /\ SubSeq(t, k.begin, k.end - 1) = Setting(x).key
            /\ SubSeq(t, v.begin, v.end - 1) = Setting(x).value
  <2>1. LineIs(t, l) /\ l.begin <= Len(t)
    BY <1>6
  <2>2. \A i \in l.begin .. l.end - 1 : b[i] = t[i]
    BY <1>6
  <2>3. x = Stripped(Pieces(t, {"\n"})[l.no])
    BY <1>6
  <2>. QED
    BY <1>7, <1>8, <1>10, <1>11, <2>1, <2>2, <2>3, ParsedIs, SMTT(60)
<1>13. IsComment <=> r.begin = r.end \/ b[r.begin] = "#"
  BY <1>5, <1>9, Zenon DEF IsComment, IsEmpty
<1>14. l.no \in 1 .. Len(Pieces(t, {"\n"}))
  BY <1>6, LineDone
<1>15. IsLine(t, l.no) <=> x # << >> /\ Head(x) # "#"
  BY <1>6, <1>14, Zenon DEF IsLine, TextAt
<1>16. IsComment <=> ~IsLine(t, l.no)
  BY <1>12, <1>13, <1>15, Zenon
<1>17. ~IsComment => (IsEmpty(k) <=> ~HasKey(x))
  BY <1>12, <1>13, Zenon DEF IsEmpty
<1>18. ~IsComment /\ ~IsEmpty(k) => r.begin # r.end /\ HasKey(x)
  BY <1>12, <1>13, Zenon DEF IsEmpty
<1>19. ASSUME ~IsComment, ~IsEmpty(k)
       PROVE  /\ k.begin \in line.begin .. line.end /\ k.end \in k.begin + 1 .. line.end
              /\ v.begin \in k.end + 1 .. line.end /\ v.end \in v.begin .. line.end
              /\ SubSeq(File, k.begin, k.end - 1) = Setting(x).key
              /\ SubSeq(File, v.begin, v.end - 1) = Setting(x).value
  BY <1>3, <1>4, <1>12, <1>18, <1>19
<1>. QED
  BY <1>3, <1>4, <1>16, <1>17, <1>19

LEMMA TextParseLine ==
  ASSUME TextInv, pc = "parse", ParseLine, input' = input, pc' = pc
  PROVE  /\ TextInv' /\ line' = line /\ at' = "onLine"
         /\ IsLine(File, line.no) /\ HasKey(TextAt(File, line.no))
<1>1. /\ HasFile /\ BufferIs(File, buf, line) /\ LineIs(File, line) /\ File \in Seq(Char)
      /\ at = "line" /\ ~AtEnd /\ Same(File, buf, line.begin, line.end - 1)
  BY InputIs DEF TextInv, Parsing, ParseLine
<1>2. line.begin <= Len(File)
  BY <1>1, AtEndIs DEF Parsing
<1>3. PICK t \in Seq(Char) : t = File
  BY <1>1
<1>4. PICK k : k = KeyIn(Text)
  OBVIOUS
<1>5. PICK v : v = ValueIn(Text)
  OBVIOUS
<1>6. ~IsComment /\ ~IsEmpty(k)
  BY <1>4 DEF ParseLine
<1>7. /\ IsLine(t, line.no) /\ HasKey(TextAt(t, line.no))
      /\ k.begin \in line.begin .. line.end /\ k.end \in k.begin + 1 .. line.end
      /\ v.begin \in k.end + 1 .. line.end /\ v.end \in v.begin .. line.end
      /\ SubSeq(t, k.begin, k.end - 1) = KeyAt(t, line.no)
      /\ SubSeq(t, v.begin, v.end - 1) = ValueAt(t, line.no)
  <2>1. PICK x : x = TextAt(t, line.no)
    OBVIOUS
  <2>2. /\ IsComment <=> ~IsLine(t, line.no)
        /\ ~IsComment => (IsEmpty(k) <=> ~HasKey(x))
        /\ ~IsComment /\ ~IsEmpty(k) =>
             /\ k.begin \in line.begin .. line.end /\ k.end \in k.begin + 1 .. line.end
             /\ v.begin \in k.end + 1 .. line.end /\ v.end \in v.begin .. line.end
             /\ SubSeq(t, k.begin, k.end - 1) = Setting(x).key
             /\ SubSeq(t, v.begin, v.end - 1) = Setting(x).value
    BY <1>1, <1>3, <1>4, <1>5, <2>1, LineRead
  <2>. QED
    BY <1>6, <2>1, <2>2 DEF KeyAt, ValueAt
<1>8. /\ key' = k /\ value' = v /\ line' = line /\ at' = "onLine"
      /\ buf' = [buf EXCEPT ![k.end] = NUL, ![v.end] = NUL]
  BY <1>4, <1>5 DEF ParseLine
<1>9. PICK n \in Nat : n = Len(t)
  OBVIOUS
<1>10. PICK c \in 1 .. n + 1 : c = line.begin
  BY <1>1, <1>3, <1>9 DEF LineIs
<1>11. PICK d \in c .. n + 1 : d = line.end
  BY <1>1, <1>3, <1>9, <1>10 DEF LineIs
<1>12. PICK x \in c .. d : x = k.begin
  BY <1>7, <1>10, <1>11
<1>13. PICK y \in x + 1 .. d : y = k.end
  BY <1>7, <1>11, <1>12
<1>14. PICK f \in y + 1 .. d : f = v.begin
  BY <1>7, <1>11, <1>13
<1>15. PICK g \in f .. d : g = v.end
  BY <1>7, <1>11, <1>14
<1>16. /\ buf \in Seq(Byte) /\ Len(buf) = n + 1 /\ buf[n + 1] = NUL
       /\ \A i \in 1 .. n : buf[i] \in {t[i], NUL} /\ (i > d => buf[i] = t[i])
  BY <1>1, <1>3, <1>9, <1>11 DEF BufferIs
<1>17. buf' \in Seq(Byte) /\ Len(buf') = n + 1 /\ \A i \in 1 .. n + 1 : buf'[i] = IF i \in {y, g} THEN NUL ELSE buf[i]
  <2>1. y \in 1 .. Len(buf) /\ NUL \in Byte
    BY <1>16, CharIs
  <2>2. PICK w : w = [buf EXCEPT ![y] = NUL]
    OBVIOUS
  <2>3. w \in Seq(Byte) /\ Len(w) = n + 1 /\ \A j \in 1 .. n + 1 : w[j] = IF j = y THEN NUL ELSE buf[j]
    <3>1. /\ [buf EXCEPT ![y] = NUL] \in Seq(Byte) /\ Len([buf EXCEPT ![y] = NUL]) = Len(buf)
          /\ \A j \in 1 .. Len(buf) : [buf EXCEPT ![y] = NUL][j] = IF j = y THEN NUL ELSE buf[j]
      BY <1>16, <2>1, NulAt
    <3>. QED
      BY <1>16, <2>2, <3>1
  <2>4. g \in 1 .. Len(w)
    BY <2>3
  <2>5. /\ [w EXCEPT ![g] = NUL] \in Seq(Byte) /\ Len([w EXCEPT ![g] = NUL]) = Len(w)
        /\ \A j \in 1 .. Len(w) : [w EXCEPT ![g] = NUL][j] = IF j = g THEN NUL ELSE w[j]
    BY <2>1, <2>3, <2>4, NulAt
  <2>6. buf' = [w EXCEPT ![g] = NUL]
    BY <1>8, <1>13, <1>15, <2>2
  <2>. QED
    BY <2>3, <2>5, <2>6
<1>18. BufferIs(t, buf', line)
  <2>1. buf'[n + 1] = NUL
    <3>1. n + 1 \in 1 .. n + 1
      OBVIOUS
    <3>. QED
      BY <1>16, <1>17, <3>1
  <2>2. ASSUME NEW i \in 1 .. n
        PROVE  buf'[i] \in {t[i], NUL} /\ (i > d => buf'[i] = t[i])
    <3>1. i \in 1 .. n + 1 /\ (i > d => i \notin {y, g})
      OBVIOUS
    <3>2. buf'[i] = IF i \in {y, g} THEN NUL ELSE buf[i]
      BY <1>17, <3>1
    <3>. QED
      BY <1>16, <3>1, <3>2
  <2>. QED
    BY <1>9, <1>11, <1>17, <2>1, <2>2 DEF BufferIs
<1>19. \A i \in c .. d - 1 : buf[i] = t[i]
  BY <1>1, <1>3, <1>10, <1>11 DEF Same
<1>20. Same(t, buf', x, y - 1)
  <2>1. ASSUME NEW i \in x .. y - 1
        PROVE  buf'[i] = t[i]
    <3>1. i \in 1 .. n + 1 /\ i \in c .. d - 1 /\ i \notin {y, g}
      OBVIOUS
    <3>. QED
      BY <1>17, <1>19, <3>1
  <2>. QED
    BY <2>1 DEF Same
<1>21. Same(t, buf', f, g - 1)
  <2>1. ASSUME NEW i \in f .. g - 1
        PROVE  buf'[i] = t[i]
    <3>1. i \in 1 .. n + 1 /\ i \in c .. d - 1 /\ i \notin {y, g}
      OBVIOUS
    <3>. QED
      BY <1>17, <1>19, <3>1
  <2>. QED
    BY <2>1 DEF Same
<1>22. buf'[k.end] = NUL /\ buf'[v.end] = NUL
  <2>1. y \in 1 .. n + 1 /\ g \in 1 .. n + 1
    OBVIOUS
  <2>. QED
    BY <1>13, <1>15, <1>17, <2>1
<1>23. SettingIn(t, buf', line, k, v)
  BY <1>2, <1>3, <1>7, <1>12, <1>13, <1>20, <1>22 DEF SettingIn
<1>24. Same(t, buf', v.begin, v.end - 1)
  BY <1>14, <1>15, <1>21
<1>25. File' = t /\ HasFile'
  BY <1>1, <1>3, SameInput
<1>26. LineIs(t, line)
  BY <1>1, <1>3
<1>. QED
  BY <1>3, <1>7, <1>8, <1>18, <1>23, <1>24, <1>25, <1>26 DEF TextInv, Parsing
\* Writing NULs into the value of a line.
LEMMA SplitKeeps ==
  ASSUME NEW t \in Seq(Char), NEW b, NEW l, NEW k, NEW v, BufferIs(t, b, l), LineIs(t, l), SettingIn(t, b, l, k, v),
         NEW c \in Seq(Byte), Len(c) = Len(b),
         \A i \in DOMAIN b : c[i] = b[i] \/ (c[i] = NUL /\ i \in v.begin .. v.end - 1)
  PROVE  BufferIs(t, c, l) /\ SettingIn(t, c, l, k, v)
<1>0. PICK n \in Nat : n = Len(t)
  OBVIOUS
<1>1. /\ v.begin \in 1 .. n + 1 /\ v.end \in v.begin .. n + 1
      /\ k.begin \in 1 .. n + 1 /\ k.end \in k.begin + 1 .. n + 1 /\ k.end < v.begin
      /\ l.end \in 1 .. n + 1
  BY <1>0, ValueIs
<1>2. /\ b \in Seq(Byte) /\ Len(b) = n + 1 /\ b[n + 1] = NUL
      /\ \A i \in 1 .. n : b[i] \in {t[i], NUL} /\ (i > l.end => b[i] = t[i])
  BY <1>0 DEF BufferIs
<1>3. v.end <= l.end
  BY <1>1 DEF SettingIn
<1>4. \A i \in 1 .. n + 1 : c[i] = b[i] \/ (c[i] = NUL /\ i \in v.begin .. v.end - 1)
  BY <1>2
<1>5. BufferIs(t, c, l)
  <2>1. ASSUME NEW i \in 1 .. n
        PROVE  c[i] \in {t[i], NUL} /\ (i > l.end => c[i] = t[i])
    <3>1. i \in 1 .. n + 1 /\ (i > l.end => i \notin v.begin .. v.end - 1)
      BY <1>1, <1>3
    <3>. QED
      BY <1>2, <1>4, <3>1
  <2>2. c[n + 1] = NUL
    <3>1. n + 1 \in 1 .. n + 1
      OBVIOUS
    <3>. QED
      BY <1>2, <1>4, <3>1
  <2>. QED
    BY <1>0, <1>2, <2>1, <2>2 DEF BufferIs
<1>6. c[k.end] = b[k.end] /\ c[v.end] = b[v.end]
  <2>1. k.end \in 1 .. n + 1 /\ k.end \notin v.begin .. v.end - 1 /\ v.end \in 1 .. n + 1 /\ v.end \notin v.begin .. v.end - 1
    BY <1>1
  <2>. QED
    BY <1>4, <2>1
<1>7. Same(t, b, k.begin, k.end - 1) => Same(t, c, k.begin, k.end - 1)
  <2>1. ASSUME NEW i \in k.begin .. k.end - 1
        PROVE  c[i] = b[i]
    <3>1. i \in 1 .. n + 1 /\ i \notin v.begin .. v.end - 1
      BY <1>1
    <3>. QED
      BY <1>4, <3>1
  <2>. QED
    BY <2>1, Zenon DEF Same
<1>8. SettingIn(t, c, l, k, v)
  BY <1>6, <1>7, Zenon DEF SettingIn
<1>. QED
  BY <1>5, <1>8

LEMMA RankNone ==
  ASSUME NEW S, NEW t \in Seq(S), NEW delims
  PROVE  Rank(WordStarts(t, delims), 0) = 0 /\ Rank(WordStarts(t, delims), 1 - 1) + 1 = 1
<1>1. \A i \in WordStarts(t, delims) : ~(i <= 0)
  BY WordStartsType
<1>2. {i \in WordStarts(t, delims) : i <= 0} = {}
  BY <1>1
<1>3. Rank(WordStarts(t, delims), 0) = 0
  BY <1>2, FS_EmptySet DEF Rank
<1>. QED
  BY <1>3

LineValue(t) == t = ValueAt(File, line.no)

\* The iterator goes to a part of the value: the first, or one behind a part.
LEMMA TextGotoPart ==
  ASSUME TextInv, Parsing, at = "onLine", NEW t \in Seq(Char), LineValue(t),
         NEW from \in 1 .. Len(t) + 2, NEW no, SearchIs(buf, t, Blanks, value.begin - 1, from, no),
         GotoPart(buf, ValueParts, value.begin - 1 + from, no),
         pc' = "parts", input' = input, line' = line, key' = key, value' = value, at' = at
  PROVE  TextInv' /\ part'.no = no
<1>1. /\ HasFile /\ BufferIs(File, buf, line) /\ LineIs(File, line) /\ SettingIn(File, buf, line, key, value)
      /\ File \in Seq(Char)
  BY InputIs DEF TextInv
<1>2. PICK file \in Seq(Char) : file = File
  BY <1>1
<1>3. /\ value.begin \in 1 .. Len(file) + 1 /\ value.end \in value.begin .. Len(file) + 1 /\ value.begin - 1 \in Nat
      /\ value.end = value.begin - 1 + Len(t) + 1
  <2>1. LineIs(file, line) /\ SettingIn(file, buf, line, key, value) /\ t = ValueAt(file, line.no)
    BY <1>1, <1>2 DEF LineValue
  <2>2. /\ value.begin \in 1 .. Len(file) + 1 /\ value.end \in value.begin .. Len(file) + 1 /\ value.begin - 1 \in Nat
        /\ value.end = value.begin - 1 + Len(ValueAt(file, line.no)) + 1
    BY <2>1, ValueIs, SMTT(90)
  <2>. QED
    BY <2>1, <2>2
<1>4. PICK o \in Nat : o = value.begin - 1
  BY <1>3
<1>5. /\ buf \in Seq(Byte) /\ Len(buf) = Len(file) + 1 /\ buf[value.end] = NUL
  BY <1>1, <1>2 DEF BufferIs, SettingIn
<1>6. o + Len(t) + 1 <= Len(buf) /\ buf[o + Len(t) + 1] = NUL /\ o + Len(t) + 1 = value.end
  BY <1>3, <1>4, <1>5
<1>7. PICK s : s = ValueParts
  OBVIOUS
<1>8. s.to = o + Len(t) + 1 /\ s.delims = Blanks /\ s.merge = TRUE
  <2>1. s = [to |-> value.end, delims |-> Blanks, merge |-> TRUE]
    BY <1>7, Zenon DEF ValueParts, Blanks
  <2>2. s.to = value.end /\ s.delims = Blanks /\ s.merge = TRUE
    BY <2>1
  <2>. QED
    BY <1>6, <2>2
<1>9. PICK p : p = Part(buf, s, o + from)
  OBVIOUS
<1>10. part' = [begin |-> p.begin, end |-> p.end, no |-> no] /\ buf' = Cut(buf, s, p)
  BY <1>4, <1>7, <1>9 DEF GotoPart
<1>11. PICK r : r = part'
  OBVIOUS
<1>12. r.begin = p.begin /\ r.end = p.end /\ r.no = no
  BY <1>10, <1>11
<1>13. SearchIs(buf, t, Blanks, o, from, no)
  BY <1>4
<1>14. PICK c : c = buf'
  OBVIOUS
<1>15. c = Cut(buf, s, p)
  BY <1>10, <1>14
<1>21. PICK b \in Seq(Byte) : b = buf /\ o + Len(t) + 1 <= Len(b) /\ b[o + Len(t) + 1] = NUL
  BY <1>5, <1>6
<1>22. SearchIs(b, t, Blanks, o, from, no)
  BY <1>13, <1>21
<1>24. Goes(b, t, Blanks, o, from, no, c, r)
  BY <1>8, <1>9, <1>12, <1>15, <1>21, Zenon DEF Goes
<1>23. /\ PartIs(c, t, Blanks, o, r) /\ c \in Seq(Byte) /\ Len(c) = Len(b)
       /\ \A i \in DOMAIN b : c[i] = b[i] \/ (c[i] = NUL /\ i \in o + 1 .. o + Len(t))
  BY <1>21, <1>22, <1>24, PartAt, SMTT(90)
<1>16. /\ PartIs(c, t, Blanks, o, r) /\ c \in Seq(Byte) /\ Len(c) = Len(buf)
       /\ \A i \in DOMAIN buf : c[i] = buf[i] \/ (c[i] = NUL /\ i \in o + 1 .. o + Len(t))
  BY <1>21, <1>23
<1>17. \A i \in o + 1 .. o + Len(t) : i \in value.begin .. value.end - 1
  <2>1. PICK n \in Nat : n = Len(t)
    OBVIOUS
  <2>2. value.begin = o + 1 /\ value.end - 1 = o + n
    <3>1. PICK m \in Nat : m = Len(file)
      BY <1>2
    <3>2. PICK x \in 1 .. m + 1 : x = value.begin
      BY <1>3, <3>1
    <3>3. PICK y \in x .. m + 1 : y = value.end
      BY <1>3, <3>1, <3>2
    <3>4. o = x - 1 /\ y = x - 1 + n + 1
      BY <1>3, <1>4, <2>1, <3>2, <3>3
    <3>5. x = o + 1 /\ y - 1 = o + n
      BY <3>4
    <3>. QED
      BY <3>2, <3>3, <3>5
  <2>3. ASSUME NEW i \in o + 1 .. o + n
        PROVE  i \in value.begin .. value.end - 1
    BY <2>2
  <2>. QED
    BY <2>1, <2>3
<1>18. BufferIs(file, c, line) /\ SettingIn(file, c, line, key, value)
  <2>1. \A i \in DOMAIN buf : c[i] = buf[i] \/ (c[i] = NUL /\ i \in value.begin .. value.end - 1)
    BY <1>16, <1>17
  <2>. QED
    BY <1>1, <1>2, <1>16, <2>1, SplitKeeps
<1>19. File' = file /\ HasFile'
  BY <1>1, <1>2, SameInput
<1>20. ValueAt(file, line.no) = t
  BY <1>2 DEF LineValue
<1>. QED
  BY <1>1, <1>2, <1>4, <1>11, <1>12, <1>14, <1>16, <1>18, <1>19, <1>20 DEF TextInv, Parsing

LEMMA TextScanMore ==
  ASSUME TextInv, ScanMore
  PROVE  TextInv' /\ part'.no = 1 /\ at = "onLine" /\ line' = line
<1>1. /\ pc = "parse" /\ at = "onLine" /\ pc' = "parts" /\ GotoPart(buf, ValueParts, value.begin, 1)
      /\ input' = input /\ line' = line /\ key' = key /\ value' = value /\ at' = at
  BY DEF ScanMore, OnLine
<1>2. /\ SettingIn(File, buf, line, key, value) /\ LineIs(File, line) /\ File \in Seq(Char)
      /\ Same(File, buf, value.begin, value.end - 1)
  BY <1>1, InputIs DEF TextInv, Parsing
<1>3. PICK file \in Seq(Char) : file = File
  BY <1>2
<1>4. /\ ValueAt(file, line.no) \in Seq(Char) /\ value.begin - 1 \in Nat
      /\ \A i \in 1 .. Len(ValueAt(file, line.no)) :
           ValueAt(file, line.no)[i] = file[value.begin - 1 + i] /\ value.begin - 1 + i \in value.begin .. value.end - 1
      /\ value.begin \in 1 .. Len(file) + 1
  BY <1>2, <1>3, ValueIs
<1>5. PICK t \in Seq(Char) : t = ValueAt(File, line.no)
  BY <1>3, <1>4
<1>6. \A i \in 1 .. Len(t) : buf[value.begin - 1 + i] = t[i]
  BY <1>2, <1>3, <1>4, <1>5 DEF Same
<1>7. PICK from \in 1 .. Len(t) + 2 : from = 1
  OBVIOUS
<1>8. from = 1 /\ value.begin - 1 + from = value.begin
  BY <1>4, <1>7
<1>9. SearchIs(buf, t, Blanks, value.begin - 1, from, 1)
  BY <1>6, <1>7, RankNone DEF SearchIs
<1>10. GotoPart(buf, ValueParts, value.begin - 1 + from, 1)
  BY <1>1, <1>8
<1>11. LineValue(t)
  BY <1>5 DEF LineValue
<1>12. TextInv' /\ part'.no = 1
  BY <1>1, <1>11, <1>7, <1>9, <1>10, TextGotoPart DEF Parsing
<1>. QED
  BY <1>1, <1>12

\* The part at hand is a word of the value.
LEMMA TextPart ==
  ASSUME TextInv, pc = "parts", ~IsEnd(ValueParts, part),
         NEW t, LineValue(t)
  PROVE  /\ t \in Seq(Char) /\ part.no \in DOMAIN Words(t, Blanks)
         /\ CString(buf, part.begin) = Words(t, Blanks)[part.no]
         /\ \E from \in 1 .. Len(t) + 2 :
              /\ part.end + 1 = value.begin - 1 + from
              /\ SearchIs(buf, t, Blanks, value.begin - 1, from, part.no + 1)
<1>1. /\ SettingIn(File, buf, line, key, value) /\ LineIs(File, line) /\ File \in Seq(Char) /\ BufferIs(File, buf, line)
      /\ PartIs(buf, t, Blanks, value.begin - 1, part)
  BY InputIs DEF TextInv, Parsing, LineValue
<1>2. PICK file \in Seq(Char) : file = File
  BY <1>1
<1>3. /\ t \in Seq(Char) /\ value.begin - 1 \in Nat /\ value.begin \in 1 .. Len(file) + 1
      /\ value.end \in value.begin .. Len(file) + 1
      /\ value.end = value.begin - 1 + Len(t) + 1
  <2>1. LineIs(file, line) /\ SettingIn(file, buf, line, key, value) /\ t = ValueAt(file, line.no)
    BY <1>1, <1>2 DEF LineValue
  <2>2. /\ value.begin \in 1 .. Len(file) + 1 /\ value.end \in value.begin .. Len(file) + 1 /\ value.begin - 1 \in Nat
        /\ value.end = value.begin - 1 + Len(ValueAt(file, line.no)) + 1
    BY <2>1, ValueIs, SMTT(90)
  <2>3. ValueAt(file, line.no) \in Seq(Char)
    BY <2>1, ValueIs, SMTT(90)
  <2>. QED
    BY <2>1, <2>2, <2>3
<1>4. PICK o \in Nat : o = value.begin - 1
  BY <1>3
<1>5. buf \in Seq(Byte) /\ Len(buf) = Len(file) + 1
  BY <1>1, <1>2 DEF BufferIs
<1>6. o + Len(t) + 1 <= Len(buf) /\ o + Len(t) + 1 = value.end
  BY <1>3, <1>4, <1>5
<1>7. part.begin # o + Len(t) + 1
  BY <1>6 DEF IsEnd, ValueParts
<1>8. PartIs(buf, t, Blanks, o, part)
  BY <1>1, <1>4
<1>9. t \in Seq(Char) /\ buf \in Seq(Byte) /\ o + Len(t) + 1 <= Len(buf)
  BY <1>3, <1>5, <1>6
<1>11. PICK p : p = part
  OBVIOUS
<1>12. p.begin # o + Len(t) + 1 /\ PartIs(buf, t, Blanks, o, p)
  BY <1>7, <1>8, <1>11
<1>13. /\ p.no \in DOMAIN Words(t, Blanks)
       /\ CString(buf, p.begin) = Words(t, Blanks)[p.no]
       /\ p.end + 1 = o + (p.end + 1 - o) /\ p.end + 1 - o \in 1 .. Len(t) + 2
       /\ SearchIs(buf, t, Blanks, o, p.end + 1 - o, p.no + 1)
  BY <1>9, <1>12, PartDone, SMTT(90)
<1>10. /\ part.no \in DOMAIN Words(t, Blanks)
       /\ CString(buf, part.begin) = Words(t, Blanks)[part.no]
       /\ part.end + 1 = o + (part.end + 1 - o) /\ part.end + 1 - o \in 1 .. Len(t) + 2
       /\ SearchIs(buf, t, Blanks, o, part.end + 1 - o, part.no + 1)
  BY <1>11, <1>13
<1>. QED
  BY <1>3, <1>4, <1>10

LEMMA TextScanPart ==
  ASSUME TextInv, ScanPart
  PROVE  TextInv' /\ (pc' = "parts" => part'.no = part.no + 1)
<1>1. pc = "parts" /\ ~IsEnd(ValueParts, part) /\ at = "onLine"
  BY DEF ScanPart, PartsOf, TextInv, Parsing
<1>2. CASE BadEntry(CString(buf, part.begin))
  <2>1. pc' = "exit2" /\ input' = input
    BY <1>2 DEF ScanPart, PartsOf, Exit2
  <2>. QED
    BY <2>1, TextElsewhere
<1>3. CASE ~BadEntry(CString(buf, part.begin))
  <2>1. /\ GotoPart(buf, ValueParts, part.end + 1, part.no + 1)
        /\ pc' = "parts" /\ input' = input /\ line' = line /\ key' = key /\ value' = value /\ at' = at
    BY <1>1, <1>3 DEF ScanPart, PartsOf
  <2>2. PICK t : LineValue(t)
    BY DEF LineValue
  <2>3. t \in Seq(Char)
    BY <1>1, <2>2, TextPart
  <2>4. PICK from \in 1 .. Len(t) + 2 :
          /\ part.end + 1 = value.begin - 1 + from
          /\ SearchIs(buf, t, Blanks, value.begin - 1, from, part.no + 1)
    BY <1>1, <2>2, TextPart
  <2>5. PICK no : no = part.no + 1
    OBVIOUS
  <2>6. GotoPart(buf, ValueParts, value.begin - 1 + from, no) /\ SearchIs(buf, t, Blanks, value.begin - 1, from, no)
    BY <2>1, <2>4, <2>5
  <2>. QED
    BY <1>1, <2>1, <2>2, <2>3, <2>5, <2>6, TextGotoPart DEF Parsing
<1>. QED
  BY <1>2, <1>3
EnvironmentText(t) == t = input.libraryPath

\* The iterator goes to a part of the environment's value.
LEMMA TextGotoDir ==
  ASSUME input \in Inputs, input.libraryPath # Absent, NEW t \in Seq(Char), EnvironmentText(t),
         NEW b \in Seq(Byte), Len(b) = Len(t) + 1, b[Len(b)] = NUL,
         NEW from \in 1 .. Len(t) + 2, NEW no, SearchIs(b, t, {":"}, 0, from, no),
         GotoPart(b, EnvironmentParts(b), from, no), pc' = "environment", input' = input
  PROVE  TextInv' /\ part'.no = no
<1>1. PICK s : s = EnvironmentParts(b)
  OBVIOUS
<1>2. PICK o \in Nat : o = 0
  OBVIOUS
<1>3. PICK n \in Nat : n = Len(t)
  OBVIOUS
<1>4. s.to = o + Len(t) + 1 /\ s.delims = {":"} /\ s.merge = TRUE
  <2>1. o + n + 1 = n + 1 /\ Len(b) = n + 1
    BY <1>2, <1>3
  <2>. QED
    BY <1>1, <1>3, <2>1 DEF EnvironmentParts
<1>5. PICK p : p = Part(b, s, o + from)
  OBVIOUS
<1>6. o + from = from
  BY <1>2
<1>7. part' = [begin |-> p.begin, end |-> p.end, no |-> no] /\ buf' = Cut(b, s, p)
  BY <1>1, <1>5, <1>6 DEF GotoPart
<1>8. PICK r : r = part'
  OBVIOUS
<1>9. r.begin = p.begin /\ r.end = p.end /\ r.no = no
  BY <1>7, <1>8
<1>10. PICK c : c = buf'
  OBVIOUS
<1>11. Goes(b, t, {":"}, o, from, no, c, r)
  BY <1>4, <1>5, <1>7, <1>9, <1>10, Zenon DEF Goes
<1>12. o + Len(t) + 1 <= Len(b) /\ b[o + Len(t) + 1] = NUL
  BY <1>2, <1>3
<1>13. SearchIs(b, t, {":"}, o, from, no)
  BY <1>2
<1>19. PICK d : d = {":"}
  OBVIOUS
<1>20. Goes(b, t, d, o, from, no, c, r) /\ SearchIs(b, t, d, o, from, no)
  BY <1>11, <1>13, <1>19
<1>21. /\ PartIs(c, t, d, o, r) /\ c \in Seq(Byte) /\ Len(c) = Len(b)
       /\ \A i \in DOMAIN b : c[i] = b[i] \/ (c[i] = NUL /\ i \in o + 1 .. o + Len(t))
  BY <1>12, <1>20, PartAt, SMTT(90)
<1>14. /\ PartIs(c, t, {":"}, o, r) /\ c \in Seq(Byte) /\ Len(c) = Len(b)
       /\ \A i \in DOMAIN b : c[i] = b[i] \/ (c[i] = NUL /\ i \in o + 1 .. o + Len(t))
  BY <1>19, <1>21
<1>15. c[Len(c)] = NUL
  <2>1. Len(b) \in DOMAIN b
    BY <1>3
  <2>. QED
    BY <1>14, <2>1
<1>16. input.libraryPath' = t /\ input.libraryPath # Absent /\ pc' \notin {"parse", "parts"}
  BY DEF EnvironmentText
<1>17. /\ (input \in Inputs)' /\ (input.libraryPath # Absent)' /\ (buf \in Seq(Byte))' /\ (Len(buf) = Len(input.libraryPath) + 1)'
       /\ (buf[Len(buf)] = NUL)'
  BY <1>10, <1>14, <1>15, <1>16
<1>18. PartIs(buf', input.libraryPath', {":"}, 0, part')
  BY <1>2, <1>8, <1>10, <1>14, <1>16
<1>. QED
  BY <1>8, <1>9, <1>16, <1>17, <1>18 DEF TextInv, Parsing

LEMMA TextReadEnvironment ==
  ASSUME TextInv, ReadEnvironment
  PROVE  TextInv' /\ (pc' = "environment" => part'.no = 1)
<1>1. CASE input.libraryPath = Absent
  <2>1. pc' = "open" /\ input' = input
    BY <1>1 DEF ReadEnvironment
  <2>. QED
    BY <2>1, TextElsewhere
<1>2. CASE input.libraryPath # Absent
  <2>1. input \in Inputs
    BY DEF TextInv
  <2>2. PICK t \in Seq(Char) : t = input.libraryPath /\ EnvironmentText(t)
    BY <1>2, <2>1, InputIs DEF EnvironmentText
  <2>3. PICK b : b = Append(t, NUL)
    OBVIOUS
  <2>4. pc' = "environment" /\ GotoPart(b, EnvironmentParts(b), 1, 1) /\ input' = input
    BY <1>2, <2>2, <2>3 DEF ReadEnvironment
  <2>5. b \in Seq(Byte) /\ Len(b) = Len(t) + 1 /\ b[Len(t) + 1] = NUL /\ \A i \in 1 .. Len(t) : b[i] = t[i]
    BY <2>3, Terminated
  <2>6. PICK from \in 1 .. Len(t) + 2 : from = 1
    OBVIOUS
  <2>7. SearchIs(b, t, {":"}, 0, from, 1)
    BY <2>5, <2>6, RankNone DEF SearchIs
  <2>8. b[Len(b)] = NUL
    BY <2>5
  <2>9. GotoPart(b, EnvironmentParts(b), from, 1)
    BY <2>4, <2>6
  <2>. QED
    BY <1>2, <2>1, <2>2, <2>4, <2>5, <2>7, <2>8, <2>9, TextGotoDir
<1>. QED
  BY <1>1, <1>2

\* The part at hand is a word of the environment's value.
LEMMA TextDir ==
  ASSUME TextInv, pc = "environment", ~IsEnd(EnvironmentParts(buf), part),
         NEW t, EnvironmentText(t)
  PROVE  /\ t \in Seq(Char) /\ part.no \in DOMAIN Words(t, {":"})
         /\ CString(buf, part.begin) = Words(t, {":"})[part.no]
         /\ \E from \in 1 .. Len(t) + 2 :
              /\ part.end + 1 = from
              /\ SearchIs(buf, t, {":"}, 0, from, part.no + 1)
<1>1. /\ input \in Inputs /\ t # Absent /\ buf \in Seq(Byte) /\ Len(buf) = Len(t) + 1
      /\ PartIs(buf, t, {":"}, 0, part)
  BY DEF TextInv, Parsing, EnvironmentText
<1>2. t \in Seq(Char)
  BY <1>1, InputIs DEF EnvironmentText
<1>3. PICK n \in Nat : n = Len(t)
  BY <1>2
<1>4. PICK o \in Nat : o = 0
  OBVIOUS
<1>5. PICK p : p = part
  OBVIOUS
<1>6. p.begin # Len(buf)
  BY <1>5 DEF IsEnd, EnvironmentParts
<1>7. p.begin # o + Len(t) + 1 /\ PartIs(buf, t, {":"}, o, p)
  <2>1. o + n + 1 = Len(buf)
    BY <1>1, <1>3, <1>4
  <2>. QED
    BY <1>1, <1>3, <1>4, <1>5, <1>6, <2>1
<1>8. o + Len(t) + 1 <= Len(buf)
  BY <1>1, <1>3, <1>4
<1>12. PICK d : d = {":"}
  OBVIOUS
<1>13. PartIs(buf, t, d, o, p) /\ p.begin # o + Len(t) + 1
  BY <1>7, <1>12
<1>14. buf \in Seq(Byte) /\ t \in Seq(Char)
  BY <1>1, <1>2
<1>15. /\ p.no \in DOMAIN Words(t, d)
       /\ CString(buf, p.begin) = Words(t, d)[p.no]
       /\ p.end + 1 = o + (p.end + 1 - o) /\ p.end + 1 - o \in 1 .. Len(t) + 2
       /\ SearchIs(buf, t, d, o, p.end + 1 - o, p.no + 1)
  BY <1>8, <1>13, <1>14, PartDone, SMTT(90)
<1>9. /\ p.no \in DOMAIN Words(t, {":"})
      /\ CString(buf, p.begin) = Words(t, {":"})[p.no]
      /\ p.end + 1 = o + (p.end + 1 - o) /\ p.end + 1 - o \in 1 .. Len(t) + 2
      /\ SearchIs(buf, t, {":"}, o, p.end + 1 - o, p.no + 1)
  BY <1>12, <1>15
<1>10. PICK from \in 1 .. Len(t) + 2 : from = p.end + 1 - o
  BY <1>9
<1>11. p.end + 1 = from
  BY <1>4, <1>9, <1>10
<1>. QED
  BY <1>2, <1>4, <1>5, <1>9, <1>10, <1>11

LEMMA TextEnvironmentPart ==
  ASSUME TextInv, EnvironmentPart
  PROVE  /\ TextInv'
         /\ pc' = "environment" =>
              /\ ~BadEntry(CString(buf, part.begin))
              /\ part'.no = part.no + 1 /\ part.no \in DOMAIN Words(input.libraryPath, {":"})
              /\ CString(buf, part.begin) = Words(input.libraryPath, {":"})[part.no]
<1>1. pc = "environment" /\ ~IsEnd(EnvironmentParts(buf), part)
  BY DEF EnvironmentPart, PartsOf
<1>2. CASE BadEntry(CString(buf, part.begin))
  <2>1. pc' = "exit2" /\ input' = input
    BY <1>2 DEF EnvironmentPart, PartsOf, Exit2
  <2>. QED
    BY <2>1, TextElsewhere
<1>3. CASE ~BadEntry(CString(buf, part.begin))
  <2>1. /\ GotoPart(buf, EnvironmentParts(buf), part.end + 1, part.no + 1)
        /\ pc' = "environment" /\ input' = input
    BY <1>1, <1>3 DEF EnvironmentPart, PartsOf
  <2>2. PICK t : t = input.libraryPath /\ EnvironmentText(t)
    BY DEF EnvironmentText
  <2>3. t \in Seq(Char) /\ part.no \in DOMAIN Words(t, {":"}) /\ CString(buf, part.begin) = Words(t, {":"})[part.no]
    BY <1>1, <2>2, TextDir
  <2>4. PICK from \in 1 .. Len(t) + 2 :
          /\ part.end + 1 = from
          /\ SearchIs(buf, t, {":"}, 0, from, part.no + 1)
    BY <1>1, <2>2, TextDir
  <2>5. PICK no : no = part.no + 1
    OBVIOUS
  <2>6. GotoPart(buf, EnvironmentParts(buf), from, no) /\ SearchIs(buf, t, {":"}, 0, from, no)
    BY <2>1, <2>4, <2>5
  <2>7. /\ input \in Inputs /\ input.libraryPath # Absent /\ buf \in Seq(Byte) /\ Len(buf) = Len(t) + 1
        /\ buf[Len(buf)] = NUL
    BY <1>1, <2>2 DEF TextInv
  <2>8. TextInv' /\ part'.no = no
    BY <2>1, <2>2, <2>3, <2>6, <2>7, TextGotoDir
  <2>. QED
    BY <1>3, <2>2, <2>3, <2>5, <2>8
<1>. QED
  BY <1>2, <1>3

LEMMA TextOpenConfig ==
  ASSUME TextInv, OpenConfig
  PROVE  TextInv' /\ (pc' = "parse" => line'.no = 1 /\ at' = "line" /\ HasFile)
<1>1. CASE File = Unreadable
  <2>1. pc' = "exit2" /\ input' = input
    BY <1>1, TextAssumption DEF OpenConfig, File, Exit2
  <2>. QED
    BY <2>1, TextElsewhere
<1>2. CASE File = Absent
  <2>1. pc' = "configured" /\ input' = input
    BY <1>2, TextAssumption DEF OpenConfig, File
  <2>. QED
    BY <2>1, TextElsewhere
<1>3. CASE File # Unreadable /\ File # Absent
  <2>1. StartParsing(File) /\ pc' = "parse" /\ input' = input
    BY <1>3 DEF OpenConfig, File
  <2>2. HasFile /\ input \in Inputs
    BY <1>3 DEF HasFile, TextInv
  <2>3. PICK t \in Seq(Char) : t = File
    BY <2>2, InputIs
  <2>4. PICK b : b = Append(t, NUL)
    OBVIOUS
  <2>5. b \in Seq(Byte) /\ Len(b) = Len(t) + 1 /\ b[Len(t) + 1] = NUL /\ \A i \in 1 .. Len(t) : b[i] = t[i]
    BY <2>4, Terminated
  <2>6. PICK n \in Nat : n = Len(t)
    OBVIOUS
  <2>7. PICK from \in 1 .. Len(t) + 2 : from = 1
    OBVIOUS
  <2>8. PICK no : no = 1
    OBVIOUS
  <2>9. GotoLine(b, from, no) /\ at' = "line"
    BY <2>1, <2>3, <2>4, <2>7, <2>8 DEF StartParsing
  <2>10. from - 1 = 0
    BY <2>7
  <2>11. from - 1 \in Cuts(t) /\ no = Rank(Cuts(t), from - 1)
    BY <2>8, <2>10, CutsType DEF Cuts
  <2>12. \A i \in DOMAIN t : b[i] \in {t[i], NUL}
    BY <2>5
  <2>13. Same(t, b, from, Len(t))
    BY <2>5, <2>7 DEF Same
  <2>14. /\ BufferIs(t, buf', line') /\ LineIs(t, line') /\ Same(t, buf', line'.begin, line'.end - 1)
         /\ line'.no = no
    BY <2>5, <2>9, <2>11, <2>12, <2>13, GotoLineIs
  <2>15. File' = t /\ HasFile'
    BY <2>1, <2>2, <2>3, SameInput
  <2>. QED
    BY <2>1, <2>2, <2>3, <2>8, <2>9, <2>14, <2>15 DEF TextInv, Parsing
<1>. QED
  BY <1>1, <1>2, <1>3
-----------------------------------------------------------------------------
(* Every step.                                                              *)

\* What a handler sees is the line's key and value as the file has them.
LEMMA OnLineIs ==
  ASSUME TextInv, Parsing, at = "onLine"
  PROVE  /\ HasFile /\ line.no \in SettingNos /\ line.begin <= Len(File)
         /\ CString(buf, key.begin) = KeyOf(line.no)
         /\ SubSeq(buf, key.begin, key.end - 1) = KeyOf(line.no)
         /\ pc = "parse" => CString(buf, value.begin) = ValueOf(line.no) /\ Value = ValueOf(line.no)
<1>1. /\ HasFile /\ BufferIs(File, buf, line) /\ LineIs(File, line) /\ File \in Seq(Char)
      /\ SettingIn(File, buf, line, key, value)
      /\ pc = "parse" => Same(File, buf, value.begin, value.end - 1)
  BY InputIs DEF TextInv
<1>2. PICK t \in Seq(Char) : t = File
  BY <1>1
<1>3. PICK n \in Nat : n = Len(t)
  OBVIOUS
<1>4. SettingIn(t, buf, line, key, value) /\ LineIs(t, line) /\ BufferIs(t, buf, line)
  BY <1>1, <1>2
<1>5. /\ key.begin \in 1 .. Len(t) + 1 /\ key.end \in key.begin + 1 .. Len(t) + 1
      /\ value.begin \in 1 .. Len(t) + 1 /\ value.end \in value.begin .. Len(t) + 1
  BY <1>4, ValueIs, SMTT(90)
<1>6. /\ SubSeq(t, key.begin, key.end - 1) = KeyAt(t, line.no)
      /\ SubSeq(t, value.begin, value.end - 1) = ValueAt(t, line.no)
      /\ buf[key.end] = NUL /\ buf[value.end] = NUL /\ Same(t, buf, key.begin, key.end - 1)
      /\ line.begin <= Len(t) /\ IsLine(t, line.no) /\ HasKey(TextAt(t, line.no))
  BY <1>4 DEF SettingIn
<1>7. PICK b \in Seq(Byte) : b = buf /\ Len(b) = n + 1
  BY <1>3, <1>4 DEF BufferIs
<1>8. PICK x \in 1 .. n + 1 : x = key.begin
  BY <1>3, <1>5
<1>9. PICK y \in x .. n + 1 : y = key.end
  BY <1>3, <1>5, <1>8
<1>10. PICK f \in 1 .. n + 1 : f = value.begin
  BY <1>3, <1>5
<1>11. PICK g \in f .. n + 1 : g = value.end
  BY <1>3, <1>5, <1>10
<1>12. ASSUME NEW c \in 1 .. n + 1, NEW d \in c .. n + 1, b[d] = NUL, \A i \in c .. d - 1 : b[i] = t[i]
       PROVE  CString(b, c) = SubSeq(t, c, d - 1) /\ SubSeq(b, c, d - 1) = SubSeq(t, c, d - 1)
  <2>1. PICK o \in Nat : o = 0
    OBVIOUS
  <2>2. o + d = d /\ o + c = c /\ \A i \in c .. d - 1 : o + i = i
    BY <2>1
  <2>3. o + d <= Len(b) /\ b[o + d] = NUL /\ \A i \in c .. d - 1 : b[o + i] = t[i]
    BY <1>7, <1>12, <2>2
  <2>4. c \in 1 .. Len(t) + 1 /\ d \in c .. Len(t) + 1
    BY <1>3
  <2>5. CString(b, o + c) = SubSeq(t, c, d - 1)
    BY <2>3, <2>4, CharIs, CStringIs
  <2>6. c \in 1 .. Len(b) + 1 /\ d \in c .. Len(b) + 1 /\ d <= Len(t) + 1
    BY <1>3, <1>7
  <2>7. SubSeq(b, c, d - 1) = SubSeq(t, c, d - 1)
    BY <1>12, <2>6, SameText
  <2>. QED
    BY <2>2, <2>5, <2>7
<1>13. \A i \in x .. y - 1 : b[i] = t[i]
  BY <1>6, <1>7, <1>8, <1>9 DEF Same
<1>14. b[y] = NUL /\ b[g] = NUL
  BY <1>6, <1>7, <1>9, <1>11
<1>15. CString(b, x) = SubSeq(t, x, y - 1) /\ SubSeq(b, x, y - 1) = SubSeq(t, x, y - 1)
  BY <1>12, <1>13, <1>14
<1>16. pc = "parse" => CString(b, f) = SubSeq(t, f, g - 1) /\ SubSeq(b, f, g - 1) = SubSeq(t, f, g - 1)
  <2>. SUFFICES ASSUME pc = "parse"
                PROVE  CString(b, f) = SubSeq(t, f, g - 1) /\ SubSeq(b, f, g - 1) = SubSeq(t, f, g - 1)
    OBVIOUS
  <2>1. \A i \in f .. g - 1 : b[i] = t[i]
    BY <1>1, <1>2, <1>7, <1>10, <1>11 DEF Same
  <2>. QED
    BY <1>12, <1>14, <2>1
<1>17. line.no \in SettingNos
  BY <1>2, <1>6 DEF SettingNos, LineNos, LineText, IsLine, TextAt
<1>18. KeyOf(line.no) = KeyAt(t, line.no) /\ ValueOf(line.no) = ValueAt(t, line.no)
  BY <1>2 DEF KeyOf, ValueOf, KeyAt, ValueAt, LineText, TextAt
<1>19. Value = SubSeq(b, f, g - 1)
  BY <1>7, <1>10, <1>11 DEF Value
<1>. QED
  BY <1>1, <1>2, <1>6, <1>7, <1>8, <1>9, <1>10, <1>11, <1>15, <1>16, <1>17, <1>18, <1>19

LEMMA TextAccept ==
  ASSUME TextInv, pc = "parse", at = "onLine", Accept
  PROVE  TextInv' /\ line'.no = line.no + 1 /\ at' = "line" /\ pc' = "parse"
<1>1. NextLine /\ pc' = pc /\ input' = input
  BY DEF Accept
<1>2. line.begin <= Len(File)
  BY OnLineIs DEF Parsing
<1>. QED
  BY <1>1, <1>2, TextNextLine DEF Parsing

LEMMA TextSkip ==
  ASSUME TextInv, pc = "parse", SkipLine, pc' = pc, input' = input
  PROVE  /\ TextInv' /\ line'.no = line.no + 1 /\ at' = "line" /\ line.no \notin LineNos
<1>1. NextLine /\ at = "line" /\ ~AtEnd /\ IsComment
  BY DEF SkipLine
<1>2. line.begin <= Len(File)
  BY <1>1, AtEndIs DEF Parsing
<1>3. ~IsLine(File, line.no)
  <2>1. PICK x, k, v : x = TextAt(File, line.no) /\ k = KeyIn(Text) /\ v = ValueIn(Text)
    OBVIOUS
  <2>. QED
    BY <1>1, <2>1, LineRead
<1>4. line.no \notin LineNos
  BY <1>3 DEF LineNos, IsLine, LineText, TextAt
<1>. QED
  BY <1>1, <1>2, <1>4, TextNextLine DEF Parsing

LEMMA TextEndOfParts ==
  ASSUME TextInv, EndOfParts
  PROVE  /\ TextInv' /\ line'.no = line.no + 1 /\ at' = "line"
<1>1. NextLine /\ pc = "parts" /\ pc' = "parse" /\ input' = input
  BY DEF EndOfParts
<1>2. at = "onLine"
  BY <1>1 DEF TextInv, Parsing
<1>3. line.begin <= Len(File)
  BY <1>1, <1>2, OnLineIs DEF Parsing
<1>. QED
  BY <1>1, <1>3, TextNextLine DEF Parsing

\* The steps before the configuration file is read.
StartStep ==
  ReadArgument \/ EndOfArguments \/ AppendDefaultBin \/ EndOfBins \/ AppendDefaultLib \/ EndOfEnvironment

LEMMA StartStepIs ==
  ASSUME StartStep
  PROVE  input' = input /\ pc' \notin {"parse", "parts", "environment"}
<1>1. CASE ReadArgument
  BY <1>1 DEF ReadArgument, Exit2
<1>2. CASE EndOfArguments
  BY <1>2 DEF EndOfArguments, Exit2
<1>3. CASE AppendDefaultBin
  BY <1>3 DEF AppendDefaultBin, AppendDefault, Exit2
<1>4. CASE EndOfBins
  BY <1>4 DEF EndOfBins
<1>5. CASE AppendDefaultLib
  BY <1>5 DEF AppendDefaultLib, AppendDefault, Exit2
<1>6. CASE EndOfEnvironment
  BY <1>6 DEF EndOfEnvironment
<1>. QED
  BY <1>1, <1>2, <1>3, <1>4, <1>5, <1>6 DEF StartStep

\* The handlers of a key accept the line, or stop at it.
HandlerStep == IgnoreFiles \/ OptDepend \/ AddLibPath

LEMMA HandlerStepIs ==
  ASSUME HandlerStep
  PROVE  pc = "parse" /\ at = "onLine" /\ (Accept \/ Reject \/ Exit2("entry", 0))
<1>1. CASE IgnoreFiles
  BY <1>1 DEF IgnoreFiles, OnLine
<1>2. CASE OptDepend
  BY <1>2 DEF OptDepend, OnLine
<1>3. CASE AddLibPath
  BY <1>3 DEF AddLibPath, OnLine
<1>. QED
  BY <1>1, <1>2, <1>3 DEF HandlerStep

\* Every step keeps the buffer what the file's text says of it.
LEMMA TextStep == TextInv /\ [Next]_vars => TextInv'
<1>. SUFFICES ASSUME TextInv, [Next]_vars PROVE TextInv'
  OBVIOUS
<1>1. CASE UNCHANGED vars
  BY <1>1, TextSame DEF vars, progressVars
<1>2. CASE StartStep
  BY <1>2, StartStepIs, TextElsewhere
<1>3. CASE ReadEnvironment
  BY <1>3, TextReadEnvironment
<1>4. CASE EnvironmentPart
  BY <1>4, TextEnvironmentPart
<1>5. CASE OpenConfig
  BY <1>5, TextOpenConfig
<1>6. CASE ParserStep
  <2>1. pc = "parse" /\ pc' = pc /\ input' = input /\ (SkipLine \/ ParseLine)
    BY <1>6 DEF ParserStep
  <2>. QED
    BY <2>1, TextSkip, TextParseLine
<1>7. CASE Syntax \/ Configured
  <2>1. input' = input /\ pc' \notin {"parse", "parts", "environment"}
    BY <1>7 DEF Syntax, Configured
  <2>. QED
    BY <2>1, TextElsewhere
<1>8. CASE HandlerStep
  <2>1. pc = "parse" /\ at = "onLine" /\ (Accept \/ Reject \/ Exit2("entry", 0))
    BY <1>8, HandlerStepIs
  <2>2. CASE Accept
    BY <2>1, <2>2, TextAccept
  <2>3. CASE Reject \/ Exit2("entry", 0)
    <3>1. input' = input /\ pc' = "exit2"
      BY <2>3 DEF Reject, Exit2
    <3>. QED
      BY <3>1, TextElsewhere
  <2>. QED
    BY <2>1, <2>2, <2>3
<1>9. CASE ScanMore
  BY <1>9, TextScanMore
<1>10. CASE ScanPart
  BY <1>10, TextScanPart
<1>11. CASE EndOfParts
  BY <1>11, TextEndOfParts
<1>12. CASE OtherKey
  <2>1. input' = input /\ pc' = "exit2"
    BY <1>12 DEF OtherKey
  <2>. QED
    BY <2>1, TextElsewhere
<1>. QED
  BY <1>1, <1>2, <1>3, <1>4, <1>5, <1>6, <1>7, <1>8, <1>9, <1>10, <1>11, <1>12
  DEF Next, Handler, HandlerStep, StartStep, Stopped

LEMMA TextAlways == Spec => []TextInv
<1>1. Init => TextInv
  BY DEF Init, TextInv, Parsing
<1>. QED
  BY <1>1, TextStep, PTL DEF Spec

\* Handling a line changes no byte of the lines that follow, and writes nothing
\* but NULs.
THEOREM AheadUntouched == Spec => []LinesAheadUntouched
<1>1. TextInv => LinesAheadUntouched
  BY DEF TextInv, Parsing, BufferIs, LinesAheadUntouched
<1>. QED
  BY <1>1, TextAlways, PTL

\* Keys, values and the parts of values are handed out as the file has them.
THEOREM PartsAlwaysIntact == Spec => []PartsIntact
<1>1. TextInv => PartsIntact
  <2>. SUFFICES ASSUME TextInv PROVE PartsIntact
    OBVIOUS
  <2>1. at = "onLine" /\ pc \in {"parse", "parts"} =>
          CString(buf, key.begin) = KeyOf(line.no) /\ (pc = "parse" => CString(buf, value.begin) = ValueOf(line.no))
    BY OnLineIs DEF Parsing
  <2>2. ASSUME pc = "parts", ~IsEnd(ValueParts, part)
        PROVE  CString(buf, part.begin) = Words(ValueOf(line.no), Blanks)[part.no]
    <3>1. PICK t : t = ValueOf(line.no)
      OBVIOUS
    <3>2. LineValue(t)
      BY <3>1 DEF LineValue, ValueOf, ValueAt, LineText, TextAt
    <3>. QED
      BY <2>2, <3>1, <3>2, TextPart
  <2>3. ASSUME pc = "environment", ~IsEnd(EnvironmentParts(buf), part)
        PROVE  CString(buf, part.begin) = Words(input.libraryPath, {":"})[part.no]
    BY <2>3, TextDir DEF EnvironmentText
  <2>. QED
    BY <2>1, <2>2, <2>3 DEF PartsIntact
<1>. QED
  BY <1>1, TextAlways, PTL
-----------------------------------------------------------------------------
(* Lines of two words.                                                      *)

\* What is no delimiter belongs to a word.
LEMMA WordAround ==
  ASSUME NEW S, NEW t \in Seq(S), NEW seps, NEW i \in 1 .. Len(t), t[i] \notin seps
  PROVE  \E s \in WordStarts(t, seps) : s \in 1 .. i /\ \A j \in s .. i : t[j] \notin seps
<1>. DEFINE good == {s \in 1 .. i : \A j \in s .. i : t[j] \notin seps}
<1>0. PICK n \in Nat : n = Len(t)
  OBVIOUS
<1>1. i \in good /\ good \in SUBSET Nat
  OBVIOUS
<1>2. PICK s \in good : \A j \in good : s <= j
  BY <1>1, LeastElement
<1>3. s \in 1 .. i /\ \A j \in s .. i : t[j] \notin seps
  OBVIOUS
<1>4. s = 1 \/ t[s - 1] \in seps
  <2>. SUFFICES ASSUME s # 1, t[s - 1] \notin seps PROVE FALSE
    OBVIOUS
  <2>1. s - 1 \in 1 .. i
    BY <1>3
  <2>2. \A j \in s - 1 .. i : j = s - 1 \/ j \in s .. i
    BY <1>3
  <2>3. s - 1 \in good
    BY <1>3, <2>1, <2>2
  <2>. QED
    BY <1>2, <1>3, <2>3
<1>5. s \in DOMAIN t /\ t[s] \notin seps
  BY <1>0, <1>3
<1>. QED
  BY <1>3, <1>4, <1>5 DEF WordStarts

\* A set of two numbers.
LEMMA RankTwo ==
  ASSUME NEW m \in Nat, NEW a \in 0 .. m, NEW b \in 0 .. m, a < b
  PROVE  /\ Cardinality({a, b}) = 2 /\ Rank({a, b}, a) = 1 /\ Rank({a, b}, b) = 2
<1>1. {a} \in SUBSET (0 .. m) /\ {} \in SUBSET (0 .. m) /\ b \in Nat /\ a \in Nat
  OBVIOUS
<1>2. Cardinality({}) = 0
  BY FS_EmptySet
<1>3. {a} = {} \cup {a}
  OBVIOUS
<1>4. Cardinality({a}) = 1 /\ Rank({a}, a) = 1
  BY <1>1, <1>2, <1>3, RankNew
<1>5. {a, b} = {a} \cup {b} /\ \A j \in {a} : j < b
  OBVIOUS
<1>6. PICK T \in SUBSET (0 .. m) : T = {a} /\ Cardinality(T) = 1 /\ Rank(T, a) = 1
  BY <1>1, <1>4
<1>7. a \in T /\ \A j \in T : j < b
  BY <1>6
<1>8. Cardinality(T \cup {b}) = Cardinality(T) + 1 /\ Rank(T \cup {b}, b) = Cardinality(T) + 1 /\ Rank(T \cup {b}, a) = Rank(T, a)
  BY <1>1, <1>7, RankNew
<1>9. T \cup {b} = {a, b}
  BY <1>6
<1>. QED
  BY <1>6, <1>8, <1>9

LEMMA TwoMembers ==
  ASSUME NEW m \in Nat, NEW S \in SUBSET (0 .. m), Cardinality(S) = 2
  PROVE  \E a, b \in S : a < b /\ S = {a, b}
<1>1. PICK a, b \in S : Rank(S, a) = 1 /\ Rank(S, b) = 2
  <2>1. 1 \in 1 .. Cardinality(S) /\ 2 \in 1 .. Cardinality(S)
    OBVIOUS
  <2>. QED
    BY <2>1, RankOnto
<1>2. a \in Int /\ b \in Int /\ S \subseteq Int
  OBVIOUS
<1>3. a < b
  <2>. SUFFICES ASSUME ~(a < b) PROVE FALSE
    OBVIOUS
  <2>1. a # b
    BY <1>1
  <2>2. b < a
    BY <1>2, <2>1
  <2>3. Rank(S, b) < Rank(S, a)
    BY <1>2, <2>2, RankOrder
  <2>. QED
    BY <1>1, <2>3
<1>4. ASSUME NEW c \in S, c # a, c # b
      PROVE  FALSE
  <2>1. Rank(S, c) \in 1 .. 2
    BY RankType
  <2>2. c \in Int
    BY <1>2
  <2>3. a < c \/ c < a
    BY <1>2, <1>4, <2>2
  <2>4. b < c \/ c < b
    BY <1>2, <1>4, <2>2
  <2>5. Rank(S, a) < Rank(S, c) \/ Rank(S, c) < Rank(S, a)
    BY <1>2, <2>2, <2>3, RankOrder
  <2>6. Rank(S, b) < Rank(S, c) \/ Rank(S, c) < Rank(S, b)
    BY <1>2, <2>2, <2>4, RankOrder
  <2>. QED
    BY <1>1, <2>1, <2>5, <2>6
<1>5. S = {a, b}
  BY <1>4
<1>. QED
  BY <1>3, <1>5

\* A text without spaces at its ends.
Solids(v) == v \in Seq(Char) /\ (v # << >> => v[1] \notin Spaces /\ v[Len(v)] \notin Spaces)

\* Where the first word of two ends and the second begins.
IsGap(v, x, y) ==
  /\ x \in 1 .. Len(v) /\ y \in 1 .. Len(v) /\ x + 1 < y
  /\ \A n \in 1 .. Len(v) : v[n] \in Spaces <=> n \in x + 1 .. y - 1

LEMMA PairsAreGaps ==
  ASSUME NEW v
  PROVE  \A p : p \in Pairs(v) <=> \E x, y : IsGap(v, x, y) /\ p = <<SubSeq(v, 1, x), SubSeq(v, y, Len(v))>>
<1>. DEFINE cuts == {p \in (1 .. Len(v)) \X (1 .. Len(v)) :
                /\ p[1] + 1 < p[2]
                /\ \A n \in 1 .. Len(v) : v[n] \in Spaces <=> n \in p[1] + 1 .. p[2] - 1}
<1>1. ASSUME NEW p, p \in Pairs(v)
      PROVE  \E x, y : IsGap(v, x, y) /\ p = <<SubSeq(v, 1, x), SubSeq(v, y, Len(v))>>
  <2>1. PICK cut \in cuts : p = <<SubSeq(v, 1, cut[1]), SubSeq(v, cut[2], Len(v))>>
    BY <1>1 DEF Pairs
  <2>2. IsGap(v, cut[1], cut[2])
    BY DEF IsGap
  <2>. QED
    BY <2>1, <2>2
<1>2. ASSUME NEW x, NEW y, IsGap(v, x, y)
      PROVE  <<SubSeq(v, 1, x), SubSeq(v, y, Len(v))>> \in Pairs(v)
  <2>1. <<x, y>> \in cuts
    BY <1>2 DEF IsGap
  <2>2. <<x, y>>[1] = x /\ <<x, y>>[2] = y
    OBVIOUS
  <2>3. PICK cut \in cuts : cut[1] = x /\ cut[2] = y
    BY <2>1, <2>2
  <2>4. <<SubSeq(v, 1, cut[1]), SubSeq(v, cut[2], Len(v))>> \in Pairs(v)
    BY DEF Pairs
  <2>. QED
    BY <2>3, <2>4
<1>. QED
  BY <1>1, <1>2

LEMMA GapIsTwo ==
  ASSUME NEW v \in Seq(Char), NEW x, NEW y, IsGap(v, x, y)
  PROVE  /\ Len(Words(v, Spaces)) = 2
         /\ Words(v, Spaces)[1] = SubSeq(v, 1, x) /\ Words(v, Spaces)[2] = SubSeq(v, y, Len(v))
<1>0. PICK n \in Nat : n = Len(v)
  OBVIOUS
<1>1. /\ x \in 1 .. n /\ y \in 1 .. n /\ x + 1 < y
      /\ \A i \in 1 .. n : v[i] \in Spaces <=> i \in x + 1 .. y - 1
  BY <1>0 DEF IsGap
<1>. DEFINE starts == WordStarts(v, Spaces)
<1>2. starts = {1, y}
  <2>1. 1 \in DOMAIN v /\ v[1] \notin Spaces
    BY <1>0, <1>1
  <2>2. 1 \in starts
    BY <2>1 DEF WordStarts
  <2>3. y \in DOMAIN v /\ v[y] \notin Spaces /\ v[y - 1] \in Spaces
    <3>1. y - 1 \in 1 .. n /\ y - 1 \in x + 1 .. y - 1
      BY <1>1
    <3>. QED
      BY <1>0, <1>1, <3>1
  <2>4. y \in starts
    BY <2>3 DEF WordStarts
  <2>5. ASSUME NEW i \in starts, i # 1, i # y
        PROVE  FALSE
    <3>1. i \in 1 .. n /\ v[i] \notin Spaces /\ v[i - 1] \in Spaces
      BY <1>0, <2>5 DEF WordStarts
    <3>2. i - 1 \in 1 .. n
      BY <2>5, <3>1
    <3>3. i - 1 \in x + 1 .. y - 1 /\ i \notin x + 1 .. y - 1
      BY <1>1, <3>1, <3>2
    <3>. QED
      BY <1>1, <2>5, <3>1, <3>3
  <2>. QED
    BY <2>2, <2>4, <2>5
<1>3. PICK o \in 0 .. n : o = 1 /\ o < y /\ y \in 0 .. n
  BY <1>1
<1>4. Cardinality(starts) = 2 /\ Rank(starts, o) = 1 /\ Rank(starts, y) = 2
  <2>1. starts = {o, y} /\ o < y /\ y \in 0 .. n
    BY <1>2, <1>3
  <2>2. Cardinality({o, y}) = 2 /\ Rank({o, y}, o) = 1 /\ Rank({o, y}, y) = 2
    BY <2>1, RankTwo
  <2>. QED
    BY <2>1, <2>2, Zenon
<1>5. Len(Words(v, Spaces)) = 2
  BY <1>4, WordStartsType
<1>12. PICK z \in Nat : z = n + 1
  OBVIOUS
<1>6. PICK e \in Nat : e = x + 1 /\ FirstOf(v, Spaces, o, z) = e
  <2>1. PICK e \in Nat : e = x + 1
    BY <1>1
  <2>2. o \in Nat /\ e \in o .. z /\ v[e] \in Spaces
    BY <1>1, <1>3, <1>12, <2>1
  <2>3. \A i \in o .. e - 1 : v[i] \notin Spaces
    BY <1>1, <1>3, <2>1
  <2>4. FirstOf(v, Spaces, o, z) = e
    BY <2>2, <2>3, FirstOfBy
  <2>. QED
    BY <2>1, <2>4
<1>7. FirstOf(v, Spaces, y, z) = z
  <2>1. y \in Nat /\ z \in y .. z /\ ~(z < z)
    BY <1>1, <1>12
  <2>2. \A i \in y .. z - 1 : v[i] \notin Spaces
    BY <1>1, <1>12
  <2>. QED
    BY <2>1, <2>2, FirstOfBy
<1>8. ASSUME NEW i \in starts, NEW k, k = Rank(starts, i), NEW f, f = FirstOf(v, Spaces, i, z)
      PROVE  Words(v, Spaces)[k] = SubSeq(v, i, f - 1)
  BY <1>0, <1>8, <1>12, WordIs
<1>9. o \in starts /\ y \in starts
  BY <1>2, <1>3
<1>10. Words(v, Spaces)[1] = SubSeq(v, o, e - 1) /\ Words(v, Spaces)[2] = SubSeq(v, y, z - 1)
  <2>. HIDE DEF starts
  <2>. QED
    BY <1>4, <1>6, <1>7, <1>8, <1>9
<1>11. e - 1 = x /\ z - 1 = n
  BY <1>1, <1>6, <1>12
<1>. QED
  BY <1>0, <1>3, <1>5, <1>10, <1>11

LEMMA TwoIsGap ==
  ASSUME NEW v, Solids(v), Len(Words(v, Spaces)) = 2
  PROVE  \E x, y : IsGap(v, x, y)
<1>0. PICK n \in Nat : n = Len(v)
  BY DEF Solids
<1>. DEFINE starts == WordStarts(v, Spaces)
<1>a. v \in Seq(Char)
  BY DEF Solids
<1>1. starts \in SUBSET (0 .. n) /\ (\A i \in starts : i \in 1 .. n) /\ Cardinality(starts) = 2
  BY <1>0, <1>a, WordStartsType
<1>2. PICK a, b \in starts : a < b /\ starts = {a, b}
  <2>. HIDE DEF starts
  <2>. QED
    BY <1>1, TwoMembers
<1>3. a \in 1 .. n /\ b \in 1 .. n
  BY <1>1
<1>4. v[1] \notin Spaces /\ v[n] \notin Spaces
  <2>1. v # << >>
    BY <1>0, <1>3
  <2>. QED
    BY <1>0, <2>1 DEF Solids
<1>5. a = 1
  <2>1. 1 \in starts
    <3>1. 1 \in DOMAIN v
      BY <1>0, <1>3
    <3>. QED
      BY <1>4, <3>1 DEF WordStarts
  <2>. QED
    BY <1>2, <1>3, <2>1
<1>6. PICK e : e = FirstOf(v, Spaces, 1, n + 1)
  OBVIOUS
<1>7. e \in 1 .. n + 1 /\ (\A i \in 1 .. e - 1 : v[i] \notin Spaces) /\ (e < n + 1 => v[e] \in Spaces)
  <2>1. 1 \in Nat /\ n + 1 \in Nat /\ 1 <= n + 1
    OBVIOUS
  <2>. QED
    BY <1>6, <2>1, FirstOfIs
<1>8. b # 1 /\ v[b] \notin Spaces /\ v[b - 1] \in Spaces
  BY <1>2, <1>5 DEF WordStarts
<1>9. ASSUME NEW i \in 1 .. n, v[i] \notin Spaces
      PROVE  \/ \A j \in 1 .. i : v[j] \notin Spaces
             \/ b <= i /\ \A j \in b .. i : v[j] \notin Spaces
  <2>1. PICK s \in starts : s \in 1 .. i /\ \A j \in s .. i : v[j] \notin Spaces
    BY <1>0, <1>9, <1>a, WordAround
  <2>. QED
    BY <1>2, <1>5, <2>1
<1>10. ASSUME NEW i \in b .. n
       PROVE  v[i] \notin Spaces
  <2>1. n \in 1 .. n /\ b - 1 \in 1 .. n
    BY <1>3, <1>8
  <2>2. \A j \in b .. n : v[j] \notin Spaces
    BY <1>4, <1>8, <1>9, <2>1
  <2>. QED
    BY <2>2
<1>11. e <= b - 1
  <2>1. b - 1 \in 1 .. n
    BY <1>3, <1>8
  <2>. QED
    BY <1>3, <1>7, <1>8, <2>1
<1>12. ASSUME NEW i \in e .. b - 1
       PROVE  v[i] \in Spaces
  <2>. SUFFICES ASSUME v[i] \notin Spaces PROVE FALSE
    OBVIOUS
  <2>1. i \in 1 .. n /\ e \in 1 .. i /\ ~(b <= i) /\ e < n + 1
    BY <1>3, <1>7
  <2>. QED
    BY <1>7, <1>9, <2>1
<1>13. e # 1
  BY <1>3, <1>4, <1>7
<1>14. PICK x : x = e - 1
  OBVIOUS
<1>15. x \in 1 .. n /\ x + 1 < b /\ x + 1 = e
  <2>1. e < b
    BY <1>3, <1>7, <1>11
  <2>. QED
    BY <1>3, <1>7, <1>13, <1>14, <2>1
<1>16. ASSUME NEW i \in 1 .. n
       PROVE  v[i] \in Spaces <=> i \in x + 1 .. b - 1
  <2>1. i \in 1 .. e - 1 \/ i \in e .. b - 1 \/ i \in b .. n
    BY <1>3, <1>7
  <2>2. i \in 1 .. e - 1 => v[i] \notin Spaces /\ i \notin x + 1 .. b - 1
    BY <1>7, <1>15
  <2>3. i \in e .. b - 1 => v[i] \in Spaces /\ i \in x + 1 .. b - 1
    BY <1>12, <1>15
  <2>4. i \in b .. n => v[i] \notin Spaces /\ i \notin x + 1 .. b - 1
    BY <1>3, <1>10
  <2>. QED
    BY <2>1, <2>2, <2>3, <2>4
<1>17. IsGap(v, x, b)
  BY <1>0, <1>3, <1>15, <1>16 DEF IsGap
<1>. QED
  BY <1>17

\* The regular expression matches a value if and only if it has two words, and
\* finds them.
LEMMA PairsAre ==
  ASSUME NEW v, Solids(v)
  PROVE  /\ Pairs(v) = {} <=> Len(Words(v, Spaces)) # 2
         /\ \A p \in Pairs(v) : p[1] = Words(v, Spaces)[1] /\ p[2] = Words(v, Spaces)[2]
<1>1. v \in Seq(Char)
  BY DEF Solids
<1>2. ASSUME NEW p \in Pairs(v)
      PROVE  /\ Len(Words(v, Spaces)) = 2
             /\ p[1] = Words(v, Spaces)[1] /\ p[2] = Words(v, Spaces)[2]
  <2>1. PICK x, y : IsGap(v, x, y) /\ p = <<SubSeq(v, 1, x), SubSeq(v, y, Len(v))>>
    BY PairsAreGaps
  <2>2. /\ Len(Words(v, Spaces)) = 2
        /\ Words(v, Spaces)[1] = SubSeq(v, 1, x) /\ Words(v, Spaces)[2] = SubSeq(v, y, Len(v))
    BY <1>1, <2>1, GapIsTwo
  <2>. QED
    BY <2>1, <2>2
<1>3. Len(Words(v, Spaces)) = 2 => Pairs(v) # {}
  <2>1. Len(Words(v, Spaces)) = 2 => \E x, y : IsGap(v, x, y)
    BY TwoIsGap
  <2>. QED
    BY <2>1, PairsAreGaps
<1>. QED
  BY <1>2, <1>3
-----------------------------------------------------------------------------
(* What the file says does not change.                                      *)

LEMMA SameFile ==
  ASSUME input' = input
  PROVE  /\ File' = File /\ (HasFile' <=> HasFile) /\ LineNos' = LineNos /\ SettingNos' = SettingNos
         /\ \A n : LineText(n)' = LineText(n) /\ KeyOf(n)' = KeyOf(n) /\ ValueOf(n)' = ValueOf(n)
         /\ \A k : With(k)' = With(k)
         /\ BadLines' = BadLines /\ Environment' = Environment /\ (BadStart' <=> BadStart)
         /\ \A n : NamesPath(n)' <=> NamesPath(n)
<1>1. File' = File /\ (HasFile' <=> HasFile)
  BY SameInput
<1>2. \A n : LineText(n)' = LineText(n)
  BY <1>1 DEF LineText
<1>3. LineNos' = LineNos
  BY <1>1, <1>2 DEF LineNos
<1>4. SettingNos' = SettingNos
  BY <1>2, <1>3 DEF SettingNos
<1>5. \A n : KeyOf(n)' = KeyOf(n) /\ ValueOf(n)' = ValueOf(n)
  BY <1>2 DEF KeyOf, ValueOf
<1>6. \A k : With(k)' = With(k)
  BY <1>4, <1>5 DEF With
<1>7. \A n : BadSetting(n)' <=> BadSetting(n)
  BY <1>5, <1>6, Zenon DEF BadSetting
<1>8. BadLines' = BadLines
  BY <1>3, <1>4, <1>7 DEF BadLines
<1>9. Environment' = Environment
  BY DEF Environment
<1>10. BadStart' <=> BadStart
  BY <1>1, <1>9, Zenon DEF BadStart, BadArguments
<1>11. \A n : NamesPath(n)' <=> NamesPath(n)
  BY <1>5, <1>6, Zenon DEF NamesPath
<1>. QED
  BY <1>1, <1>2, <1>3, <1>4, <1>5, <1>6, <1>8, <1>9, <1>10, <1>11

\* Sorting sets in order.
LEMMA SortedRises ==
  ASSUME NEW m \in Nat, NEW S \in SUBSET (0 .. m), NEW j \in 1 .. Cardinality(S), NEW k \in 1 .. Cardinality(S), j < k
  PROVE  Sorted(S)[j] < Sorted(S)[k] /\ Sorted(S)[j] \in 0 .. m /\ Sorted(S)[k] \in 0 .. m
<1>1. PICK a \in S : a = Sorted(S)[j] /\ Rank(S, a) = j
  BY SortedIs
<1>2. PICK b \in S : b = Sorted(S)[k] /\ Rank(S, b) = k
  BY SortedIs
<1>3. a \in 0 .. m /\ b \in 0 .. m /\ a \in Int /\ b \in Int
  OBVIOUS
<1>4. a # b
  BY <1>1, <1>2
<1>5. b < a => k < j
  BY <1>1, <1>2, <1>3, RankOrder
<1>6. ~(b < a)
  BY <1>1, <1>5
<1>. QED
  BY <1>1, <1>2, <1>3, <1>4, <1>6

LEMMA PiecesType ==
  ASSUME NEW S, NEW t \in Seq(S), NEW k \in 1 .. Len(Pieces(t, {"\n"}))
  PROVE  Pieces(t, {"\n"})[k] \in Seq(S)
<1>. DEFINE cut == Sorted(Cuts(t))
<1>0. PICK m \in Nat : m = Len(t) + 1
  BY CutsType
<1>1. Cuts(t) \in SUBSET (0 .. m) /\ Cardinality(Cuts(t)) \in Nat /\ Len(Pieces(t, {"\n"})) = Cardinality(Cuts(t)) - 1
  BY <1>0, CutsType
<1>2. k \in 1 .. Cardinality(Cuts(t)) /\ k + 1 \in 1 .. Cardinality(Cuts(t)) /\ k < k + 1
  BY <1>1
<1>3. PICK x, y : x = cut[k] /\ y = cut[k + 1]
  OBVIOUS
<1>4. x < y /\ x \in 0 .. m /\ y \in 0 .. m
  <2>1. PICK j \in 1 .. Cardinality(Cuts(t)) : j = k + 1
    BY <1>2
  <2>2. Sorted(Cuts(t))[k] < Sorted(Cuts(t))[j] /\ Sorted(Cuts(t))[k] \in 0 .. m /\ Sorted(Cuts(t))[j] \in 0 .. m
    BY <1>1, <1>2, <2>1, SortedRises
  <2>. QED
    BY <1>3, <2>1, <2>2
<1>5. Len(cut) = Cardinality(Cuts(t))
  BY <1>1, SortedIs
<1>6. Pieces(t, {"\n"})[k] = SubSeq(t, x + 1, y - 1)
  <2>1. Pieces(t, {"\n"}) = [j \in 1 .. Len(cut) - 1 |-> SubSeq(t, cut[j] + 1, cut[j + 1] - 1)]
    BY DEF Pieces, Cuts
  <2>2. k \in 1 .. Len(cut) - 1
    BY <1>1, <1>5
  <2>. HIDE DEF cut
  <2>. QED
    BY <1>3, <2>1, <2>2
<1>7. PICK b \in 1 .. Len(t) + 1 : b = x + 1
  BY <1>0, <1>4
<1>8. y \in b .. Len(t) + 1
  BY <1>0, <1>4, <1>7
<1>9. SubSeq(t, b, y - 1) \in Seq(S)
  BY <1>7, <1>8, CutOut
<1>. QED
  BY <1>6, <1>7, <1>9

LEMMA StrippedSolid ==
  ASSUME NEW s \in Seq(Char)
  PROVE  Solids(Stripped(s))
<1>0. PICK n \in Nat : n = Len(s)
  OBVIOUS
<1>. DEFINE solid == {i \in DOMAIN s : s[i] \notin Spaces}
<1>1. CASE solid = {}
  <2>1. Stripped(s) = << >>
    BY <1>1 DEF Stripped
  <2>. QED
    BY <2>1 DEF Solids
<1>2. CASE solid # {}
  <2>1. Stripped(s) = SubSeq(s, Least(solid), Greatest(solid))
    BY <1>2 DEF Stripped
  <2>2. solid \in SUBSET (0 .. n) /\ solid \in SUBSET Nat
    BY <1>0
  <2>3. PICK x \in solid : x = Least(solid) /\ \A j \in solid : x <= j
    BY <1>2, <2>2, LeastIs
  <2>4. PICK y \in solid : y = Greatest(solid)
    BY <1>2, <2>2, GreatestIs
  <2>5. x \in 1 .. n /\ y \in x .. n /\ s[x] \notin Spaces /\ s[y] \notin Spaces
    BY <1>0, <2>3
  <2>6. PICK e \in x .. Len(s) + 1 : e = y + 1
    BY <1>0, <2>5
  <2>7. x \in 1 .. Len(s) + 1
    BY <1>0, <2>5
  <2>8. PICK v : v = SubSeq(s, x, e - 1)
    OBVIOUS
  <2>9. v \in Seq(Char) /\ Len(v) = e - x /\ \A i \in 1 .. e - x : v[i] = s[x + i - 1]
    BY <2>7, <2>8, CutOut
  <2>10. 1 \in 1 .. e - x /\ e - x \in 1 .. e - x /\ x + 1 - 1 = x /\ x + (e - x) - 1 = y
    BY <2>5, <2>6
  <2>11. v[1] = s[x] /\ v[Len(v)] = s[y]
    BY <2>9, <2>10
  <2>12. e - 1 = y
    BY <2>5, <2>6
  <2>13. v = Stripped(s)
    BY <2>1, <2>3, <2>4, <2>8, <2>12
  <2>. QED
    BY <2>5, <2>9, <2>11, <2>13 DEF Solids
<1>. QED
  BY <1>1, <1>2

\* Lines, keys and values are texts.
LEMMA LinesType ==
  ASSUME TextInv, HasFile
  PROVE  /\ File \in Seq(Char) /\ Len(Pieces(File, {"\n"})) \in Nat
         /\ LineNos \in SUBSET (0 .. Len(Pieces(File, {"\n"}))) /\ (\A n \in LineNos : n \in Nat /\ n # 0)
         /\ \A n \in LineNos : LineText(n) \in Seq(Char)
         /\ \A n \in SettingNos : Solids(KeyOf(n)) /\ Solids(ValueOf(n))
<1>1. PICK t \in Seq(Char) : t = File
  BY InputIs DEF TextInv
<1>2. PICK m : m = Len(Pieces(t, {"\n"}))
  OBVIOUS
<1>3. m \in Nat
  <2>1. PICK c \in Nat : c = Cardinality(Cuts(t))
    BY CutsType
  <2>2. m = c - 1 /\ Rank(Cuts(t), 0) = 1
    BY <1>2, <2>1, CutsType
  <2>3. c # 0
    <3>1. PICK h \in Nat : h = Len(t) + 1
      BY CutsType
    <3>2. Cuts(t) \in SUBSET (0 .. h) /\ 0 \in Int
      BY <3>1, CutsType
    <3>3. Rank(Cuts(t), 0) \in 0 .. Cardinality(Cuts(t))
      BY <3>2, RankType
    <3>. QED
      BY <2>1, <2>2, <3>3
  <2>. QED
    BY <2>1, <2>2, <2>3
<1>4. \A n \in LineNos : n \in 1 .. m
  BY <1>1, <1>2 DEF LineNos
<1>5. ASSUME NEW n \in LineNos
      PROVE  LineText(n) \in Seq(Char)
  <2>1. n \in 1 .. Len(Pieces(t, {"\n"}))
    BY <1>2, <1>4
  <2>2. Pieces(t, {"\n"})[n] \in Seq(Char)
    BY <2>1, PiecesType
  <2>. QED
    BY <1>1, <2>2, StrippedSolid DEF LineText, Solids
<1>6. ASSUME NEW n \in SettingNos
      PROVE  Solids(KeyOf(n)) /\ Solids(ValueOf(n))
  <2>1. PICK x \in Seq(Char) : x = LineText(n) /\ HasKey(x)
    BY <1>5 DEF SettingNos
  <2>2. PICK h \in Nat : h = Len(x)
    OBVIOUS
  <2>. DEFINE equals == {i \in DOMAIN x : x[i] = "="}
  <2>3. equals # {} /\ equals \in SUBSET Nat /\ \A i \in equals : i \in 1 .. h
    BY <2>1, <2>2 DEF HasKey, Range
  <2>4. PICK eq \in 1 .. h : eq = Least(equals)
    BY <2>3, LeastIs
  <2>5. /\ KeyOf(n) = Stripped(SubSeq(x, 1, eq - 1)) /\ ValueOf(n) = Stripped(SubSeq(x, eq + 1, Len(x)))
    BY <2>1, <2>4 DEF KeyOf, ValueOf, Setting
  <2>6. SubSeq(x, 1, eq - 1) \in Seq(Char) /\ SubSeq(x, eq + 1, Len(x)) \in Seq(Char)
    <3>1. PICK o \in 1 .. Len(x) + 1 : o = 1
      BY <2>2
    <3>2. eq \in o .. Len(x) + 1
      BY <2>2, <3>1
    <3>3. SubSeq(x, o, eq - 1) \in Seq(Char)
      BY <3>1, <3>2, CutOut
    <3>4. PICK b \in 1 .. Len(x) + 1 : b = eq + 1
      BY <2>2
    <3>5. PICK e \in b .. Len(x) + 1 : e = h + 1
      BY <2>2, <3>4
    <3>6. SubSeq(x, b, e - 1) \in Seq(Char) /\ e - 1 = h
      BY <3>4, <3>5, CutOut
    <3>. QED
      BY <2>2, <3>1, <3>3, <3>4, <3>6
  <2>. QED
    BY <2>5, <2>6, StrippedSolid
<1>7. LineNos \in SUBSET (0 .. m)
  BY <1>3, <1>4
<1>. QED
  BY <1>1, <1>2, <1>3, <1>4, <1>5, <1>6, <1>7
-----------------------------------------------------------------------------
(* The first error.                                                         *)

\* A line is one of a key.
LEMMA KeyLine ==
  ASSUME TextInv, pc = "parse", at = "onLine"
  PROVE  /\ \A K : OnLine(K) <=> \E k \in K : line.no \in With(k)
         /\ line.no \in LineNos /\ line.no \in SettingNos /\ HasFile
         /\ Value = ValueOf(line.no) /\ Solids(Value)
<1>1. /\ HasFile /\ line.no \in SettingNos /\ SubSeq(buf, key.begin, key.end - 1) = KeyOf(line.no)
      /\ Value = ValueOf(line.no)
  BY OnLineIs DEF Parsing
<1>2. line.no \in LineNos
  BY <1>1 DEF SettingNos
<1>3. Solids(Value)
  BY <1>1, LinesType
<1>4. ASSUME NEW K
      PROVE  OnLine(K) <=> \E k \in K : line.no \in With(k)
  <2>1. OnLine(K) <=> KeyOf(line.no) \in {<<k>> : k \in K}
    BY <1>1, Zenon DEF OnLine
  <2>2. \A k : line.no \in With(k) <=> KeyOf(line.no) = <<k>>
    BY <1>1 DEF With
  <2>. QED
    BY <2>1, <2>2
<1>. QED
  BY <1>1, <1>2, <1>3, <1>4

LEMMA KeysDiffer ==
  ASSUME NEW j, NEW k, NEW n \in With(j), n \in With(k)
  PROVE  j = k
<1>1. <<j>> = <<k>>
  BY DEF With
<1>2. <<j>>[1] = j /\ <<k>>[1] = k
  OBVIOUS
<1>. QED
  BY <1>1, <1>2

LEMMA KeysAre ==
  Keys = {"scanMoreBins", "scanMoreLibs", "ignoreFiles", "addOptDepend", "removeOptDepend", "addLibPath"}
BY DEF Keys, ScanKeys

\* What is bad about a line depends on its key.
LEMMA BadIs ==
  ASSUME NEW n \in SettingNos
  PROVE  /\ n \in BadLines <=> BadSetting(n)
         /\ (\A k \in Keys : n \notin With(k)) => BadSetting(n)
         /\ (\E k \in ScanKeys : n \in With(k)) =>
              (BadSetting(n) <=> \E w \in Range(Words(ValueOf(n), Blanks)) : Refused(w))
         /\ n \in With("ignoreFiles") => (BadSetting(n) <=> ValueOf(n) = << >> \/ Head(ValueOf(n)) # "/")
         /\ n \in With("addOptDepend") \cup With("removeOptDepend") =>
              (BadSetting(n) <=> "/" \in Range(ValueOf(n)) \/ Len(Words(ValueOf(n), Spaces)) # 2)
         /\ n \in With("addLibPath") =>
              (BadSetting(n) <=> LET w == Words(ValueOf(n), Spaces)
                                 IN  Len(w) # 2 \/ BadWhat(w[2]) \/ BadWhere(w[1]) \/ Unresolved(w[1], w[2]))
<1>. DEFINE w == Words(ValueOf(n), Spaces)
            scanBad == \E x \in Range(Words(ValueOf(n), Blanks)) : Refused(x)
            ignoreBad == ValueOf(n) = << >> \/ Head(ValueOf(n)) # "/"
            depBad == "/" \in Range(ValueOf(n)) \/ Len(w) # 2
            ruleBad == Len(w) # 2 \/ BadWhat(w[2]) \/ BadWhere(w[1]) \/ Unresolved(w[1], w[2])
<1>1. n \in BadLines <=> BadSetting(n)
  BY DEF BadLines, SettingNos
<1>2. BadSetting(n) <=>
        \/ \A k \in Keys : n \notin With(k)
        \/ (\E k \in ScanKeys : n \in With(k)) /\ scanBad
        \/ n \in With("ignoreFiles") /\ ignoreBad
        \/ n \in With("addOptDepend") \cup With("removeOptDepend") /\ depBad
        \/ n \in With("addLibPath") /\ ruleBad
  BY Zenon DEF BadSetting
<1>. HIDE DEF scanBad, ignoreBad, depBad, ruleBad
<1>3. \A j, k : n \in With(j) /\ n \in With(k) => j = k
  BY KeysDiffer
<1>4. (\A k \in Keys : n \notin With(k)) => BadSetting(n)
  BY <1>2
<1>5. (\E k \in ScanKeys : n \in With(k)) => (BadSetting(n) <=> scanBad)
  BY <1>2, <1>3, KeysAre DEF ScanKeys
<1>6. n \in With("ignoreFiles") => (BadSetting(n) <=> ignoreBad)
  BY <1>2, <1>3, KeysAre DEF ScanKeys
<1>7. n \in With("addOptDepend") \cup With("removeOptDepend") => (BadSetting(n) <=> depBad)
  BY <1>2, <1>3, KeysAre DEF ScanKeys
<1>8. n \in With("addLibPath") => (BadSetting(n) <=> ruleBad)
  BY <1>2, <1>3, KeysAre DEF ScanKeys
<1>. QED
  BY <1>1, <1>4, <1>5, <1>6, <1>7, <1>8, Zenon DEF scanBad, ignoreBad, depBad, ruleBad

LEMMA FirstOnly ==
  ASSUME NEW S, NEW v \in Seq(S), v # << >>
  PROVE  SubSeq(v, 1, 1) = <<v[1]>> /\ Head(v) = v[1] /\ Len(v) >= 1 /\ v[1] \in S
<1>0. PICK n \in Nat : n = Len(v)
  OBVIOUS
<1>1. n >= 1 /\ v[1] \in S
  BY <1>0
<1>2. PICK b \in 1 .. Len(v) + 1 : b = 1
  BY <1>0
<1>3. PICK e \in b .. Len(v) + 1 : e = 2
  BY <1>0, <1>1, <1>2
<1>4. PICK u : u = SubSeq(v, b, e - 1)
  OBVIOUS
<1>5. u \in Seq(S) /\ Len(u) = e - b /\ \A i \in 1 .. e - b : u[i] = v[b + i - 1]
  BY <1>4, CutOut
<1>6. Len(u) = 1 /\ u[1] = v[1]
  BY <1>2, <1>3, <1>5
<1>7. PICK x \in S : x = v[1]
  BY <1>1
<1>8. <<x>> \in Seq(S) /\ Len(<<x>>) = 1 /\ <<x>>[1] = x
  OBVIOUS
<1>9. u = <<x>>
  BY <1>5, <1>6, <1>7, <1>8, SeqEqual
<1>10. e - 1 = 1
  BY <1>3
<1>11. SubSeq(v, 1, 1) = u
  BY <1>2, <1>4, <1>10
<1>12. Head(v) = v[1]
  BY <1>0, <1>1
<1>. QED
  BY <1>0, <1>1, <1>7, <1>9, <1>11, <1>12

LEMMA SlashFirst ==
  ASSUME NEW v \in Seq(Char)
  PROVE  IsPrefix(<<"/">>, v) <=> ~(v = << >> \/ Head(v) # "/")
<1>. DEFINE slash == <<"/">>
<1>1. slash \in Seq({"/"}) /\ slash # << >> /\ Len(slash) = 1 /\ slash[1] = "/"
  OBVIOUS
<1>2. IsPrefix(slash, v) <=> 1 <= Len(v) /\ SubSeq(slash, 1, 1) = SubSeq(v, 1, 1)
  BY <1>1 DEF IsPrefix
<1>3. SubSeq(slash, 1, 1) = <<slash[1]>>
  <2>. HIDE DEF slash
  <2>. QED
    BY <1>1, FirstOnly
<1>4. v # << >> => Len(v) >= 1 /\ SubSeq(v, 1, 1) = <<v[1]>> /\ Head(v) = v[1]
  BY FirstOnly
<1>5. v = << >> => ~(1 <= Len(v))
  OBVIOUS
<1>6. <<v[1]>> = <<slash[1]>> <=> v[1] = "/"
  <2>1. <<v[1]>>[1] = v[1] /\ <<slash[1]>>[1] = "/"
    BY <1>1
  <2>. QED
    BY <1>1, <2>1
<1>. QED
  BY <1>2, <1>3, <1>4, <1>5, <1>6

\* What the handler of addLibPath does with a line's two words.
LEMMA RuleBad ==
  ASSUME NEW where, NEW what
  PROVE  /\ RealPathFails(where, what) => Unresolved(where, what)
         /\ ~RealPathFails(where, what) /\ ~BadWhat(what) /\ ~BadWhere(where) => ~Unresolved(where, what)
BY Zenon DEF RealPathFails, Unresolved

\* The handlers stop at the lines that are bad and accept the others.
LEMMA HandlerBad ==
  ASSUME TextInv, HandlerStep
  PROVE  /\ pc = "parse" /\ at = "onLine" /\ line.no \in SettingNos
         /\ \/ Reject /\ line.no \in BadLines
            \/ Exit2("entry", 0) /\ line.no \in BadLines /\ NamesPath(line.no)
            \/ Accept /\ line.no \notin BadLines
<1>0. pc = "parse" /\ at = "onLine"
  BY HandlerStepIs
<1>. DEFINE n == line.no
            w == Words(Value, Spaces)
<1>1. /\ \A K : OnLine(K) <=> \E k \in K : n \in With(k)
      /\ n \in SettingNos /\ Value = ValueOf(n) /\ Solids(Value)
  BY <1>0, KeyLine
<1>2. Value \in Seq(Char)
  BY <1>1 DEF Solids
<1>3. /\ Pairs(Value) = {} <=> Len(w) # 2
      /\ \A p \in Pairs(Value) : p[1] = w[1] /\ p[2] = w[2]
  BY <1>1, PairsAre
<1>4. n \in BadLines <=> BadSetting(n)
  BY <1>1, BadIs
<1>. HIDE DEF n
<1>5. CASE IgnoreFiles
  <2>1. OnLine({"ignoreFiles"}) /\ (~IsPrefix(<<"/">>, Value) => Reject) /\ (IsPrefix(<<"/">>, Value) => Accept)
    BY <1>5 DEF IgnoreFiles
  <2>2. n \in With("ignoreFiles")
    BY <1>1, <2>1
  <2>3. BadSetting(n) <=> ValueOf(n) = << >> \/ Head(ValueOf(n)) # "/"
    BY <1>1, <2>2, BadIs
  <2>4. BadSetting(n) <=> ~IsPrefix(<<"/">>, Value)
    BY <1>1, <1>2, <2>3, SlashFirst
  <2>. QED
    BY <1>0, <1>1, <1>4, <2>1, <2>4 DEF n
<1>6. CASE OptDepend
  <2>1. /\ OnLine({"addOptDepend", "removeOptDepend"})
        /\ "/" \in Range(Value) \/ Pairs(Value) = {} => Reject
        /\ ~("/" \in Range(Value) \/ Pairs(Value) = {}) => Accept
    BY <1>6 DEF OptDepend
  <2>2. n \in With("addOptDepend") \cup With("removeOptDepend")
    BY <1>1, <2>1
  <2>3. BadSetting(n) <=> "/" \in Range(ValueOf(n)) \/ Len(Words(ValueOf(n), Spaces)) # 2
    BY <1>1, <2>2, BadIs
  <2>4. BadSetting(n) <=> "/" \in Range(Value) \/ Pairs(Value) = {}
    BY <1>1, <1>3, <2>3
  <2>. QED
    BY <1>0, <1>1, <1>4, <2>1, <2>4 DEF n
<1>7. CASE AddLibPath
  <2>1. /\ OnLine({"addLibPath"}) /\ (Pairs(Value) = {} => Reject)
        /\ Pairs(Value) # {} => \E p \in Pairs(Value) :
             \/ RealPathFails(p[1], p[2]) /\ Exit2("entry", 0)
             \/ ~RealPathFails(p[1], p[2]) /\ (BadWhat(p[2]) \/ BadWhere(p[1])) /\ Reject
             \/ ~RealPathFails(p[1], p[2]) /\ ~BadWhat(p[2]) /\ ~BadWhere(p[1]) /\ Accept
    BY <1>7 DEF AddLibPath
  <2>2. n \in With("addLibPath")
    BY <1>1, <2>1
  <2>3. BadSetting(n) <=> LET u == Words(ValueOf(n), Spaces) IN  Len(u) # 2 \/ BadWhat(u[2]) \/ BadWhere(u[1]) \/ Unresolved(u[1], u[2])
    BY <1>1, <2>2, BadIs
  <2>4. BadSetting(n) <=> Len(w) # 2 \/ BadWhat(w[2]) \/ BadWhere(w[1]) \/ Unresolved(w[1], w[2])
    BY <1>1, <2>3
  <2>. HIDE DEF w
  <2>5. CASE Pairs(Value) = {}
    BY <1>0, <1>1, <1>3, <1>4, <2>1, <2>4, <2>5 DEF n
  <2>6. CASE Pairs(Value) # {}
    <3>1. PICK p \in Pairs(Value) :
            \/ RealPathFails(p[1], p[2]) /\ Exit2("entry", 0)
            \/ ~RealPathFails(p[1], p[2]) /\ (BadWhat(p[2]) \/ BadWhere(p[1])) /\ Reject
            \/ ~RealPathFails(p[1], p[2]) /\ ~BadWhat(p[2]) /\ ~BadWhere(p[1]) /\ Accept
      BY <2>1, <2>6
    <3>2. p[1] = w[1] /\ p[2] = w[2] /\ Len(w) = 2
      BY <1>3, <2>6, <3>1
    <3>3. BadSetting(n) <=> BadWhat(p[2]) \/ BadWhere(p[1]) \/ Unresolved(p[1], p[2])
      BY <2>4, <3>2
    <3>4. /\ RealPathFails(p[1], p[2]) => Unresolved(p[1], p[2])
          /\ ~RealPathFails(p[1], p[2]) /\ ~BadWhat(p[2]) /\ ~BadWhere(p[1]) => ~Unresolved(p[1], p[2])
      BY RuleBad
    <3>5. Unresolved(p[1], p[2]) => NamesPath(n)
      BY <1>1, <2>2, <3>2 DEF NamesPath, w
    <3>. QED
      BY <1>0, <1>1, <1>4, <3>1, <3>3, <3>4, <3>5 DEF n
  <2>. QED
    BY <2>5, <2>6
<1>. QED
  BY <1>5, <1>6, <1>7 DEF HandlerStep
NoBad(paths, n) == \A i \in 1 .. n : ~Refused(paths[i])

\* What was read so far is not bad.
ArgumentsInv ==
  /\ next \in Nat
  /\ pc = "args" =>
       /\ next <= Len(input.args) /\ \A i \in 1 .. next : input.args[i] # "badOption"
       /\ operands <=> \E i \in 1 .. next : input.args[i] = "operand"
  /\ pc \notin {"args", "exit2"} => \A i \in 1 .. Len(input.args) : input.args[i] \notin {"operand", "badOption"}

DirsInv ==
  /\ pc = "bins" => next <= Len(DefaultBins) /\ NoBad(DefaultBins, next)
  /\ pc \notin {"args", "bins", "exit2"} => NoBad(DefaultBins, Len(DefaultBins))
  /\ pc = "libs" => next <= Len(DefaultLibs) /\ NoBad(DefaultLibs, next)
  /\ pc \notin {"args", "bins", "libs", "exit2"} => NoBad(DefaultLibs, Len(DefaultLibs))
  /\ pc = "environment" => NoBad(Environment, part.no - 1)
  /\ pc \in {"open", "parse", "parts", "configured"} => NoBad(Environment, Len(Environment))

\* The words of the line that is read.
LineWords == Words(ValueOf(line.no), Blanks)

LinesInv ==
  /\ Parsing => \A n \in BadLines : line.no <= n
  /\ pc = "parts" => (\E k \in ScanKeys : line.no \in With(k)) /\ NoBad(LineWords, part.no - 1)
  /\ pc = "configured" => File # Unreadable /\ (File # Absent => BadLines = {})

ExitInv ==
  pc = "exit2" =>
    \/ error.line = 0 /\ BadStart
    \/ /\ error.line = 0 => error.why = "entry" /\ NamesPath(line.no)
       /\ HasFile /\ line.no \in BadLines /\ (\A n \in BadLines : line.no <= n) /\ error.line \in {0, line.no}

ErrorInv == ArgumentsInv /\ DirsInv /\ LinesInv /\ ExitInv

\* The invariant of the first error implies what a reader sees.
LEMMA StartIs ==
  ASSUME TextInv
  PROVE  /\ Environment \in Seq(Seq(Char)) /\ Len(Environment) \in Nat
         /\ DOMAIN DefaultBins = 1 .. Len(DefaultBins) /\ DOMAIN DefaultLibs = 1 .. Len(DefaultLibs)
         /\ input.args \in Seq(STRING) /\ Len(DefaultBins) \in Nat /\ Len(DefaultLibs) \in Nat
         /\ BadStart <=>
              \/ \E i \in 1 .. Len(input.args) : input.args[i] \in {"operand", "badOption"}
              \/ ~NoBad(DefaultBins, Len(DefaultBins)) \/ ~NoBad(DefaultLibs, Len(DefaultLibs))
              \/ ~NoBad(Environment, Len(Environment)) \/ File = Unreadable
         /\ MustStop => BadStart
<1>0. input \in Inputs
  BY DEF TextInv
<1>1. Environment \in Seq(Seq(Char))
  <2>1. CASE input.libraryPath = Absent
    BY <2>1 DEF Environment
  <2>2. CASE input.libraryPath # Absent
    <3>1. Environment = Words(input.libraryPath, {":"})
      BY <2>2 DEF Environment
    <3>2. input.libraryPath \in Seq(Char)
      BY <1>0, <2>2, InputIs
    <3>. QED
      BY <3>1, <3>2, WordsType
  <2>. QED
    BY <2>1, <2>2
<1>2. input.args \in Seq(STRING) /\ DefaultBins \in Seq(Seq(Char)) /\ DefaultLibs \in Seq(Seq(Char))
  BY <1>0, InputIs, TextAssumption
<1>3. ASSUME NEW s \in Seq(Seq(Char)), NEW t \in Seq(Seq(Char))
      PROVE  s \o t \in Seq(Seq(Char)) /\ Range(s \o t) = Range(s) \cup Range(t)
  <2>1. s \o t \in Seq(Seq(Char)) /\ Len(s \o t) = Len(s) + Len(t)
        /\ \A i \in 1 .. Len(s) + Len(t) : (s \o t)[i] = IF i <= Len(s) THEN s[i] ELSE t[i - Len(s)]
    BY ConcatProperties
  <2>2. PICK n \in Nat : n = Len(s)
    OBVIOUS
  <2>3. PICK m \in Nat : m = Len(t)
    OBVIOUS
  <2>4. PICK u : u = s \o t
    OBVIOUS
  <2>5. /\ DOMAIN u = 1 .. n + m /\ DOMAIN s = 1 .. n /\ DOMAIN t = 1 .. m
        /\ \A i \in 1 .. n + m : u[i] = IF i <= n THEN s[i] ELSE t[i - n]
    BY <2>1, <2>2, <2>3, <2>4
  <2>9. (\A i \in 1 .. n : s[i] \in Range(s)) /\ (\A i \in 1 .. m : t[i] \in Range(t))
    BY <2>5 DEF Range
  <2>6. \A x \in Range(u) : x \in Range(s) \cup Range(t)
    <3>. SUFFICES ASSUME NEW i \in 1 .. n + m PROVE u[i] \in Range(s) \cup Range(t)
      BY <2>5 DEF Range
    <3>1. CASE i <= n
      BY <2>5, <2>9, <3>1
    <3>2. CASE ~(i <= n)
      <4>1. i - n \in 1 .. m
        BY <3>2
      <4>. QED
        BY <2>5, <2>9, <3>2, <4>1
    <3>. QED
      BY <3>1, <3>2
  <2>7. \A x \in Range(s) : x \in Range(u)
    <3>1. \A i \in 1 .. n : i \in 1 .. n + m /\ u[i] = s[i]
      BY <2>5
    <3>. QED
      BY <2>5, <3>1 DEF Range
  <2>8. \A x \in Range(t) : x \in Range(u)
    <3>. SUFFICES ASSUME NEW i \in 1 .. m PROVE t[i] \in Range(u)
      BY <2>5 DEF Range
    <3>1. n + i \in 1 .. n + m /\ u[n + i] = t[n + i - n] /\ n + i - n = i
      BY <2>5
    <3>2. u[n + i] \in Range(u)
      BY <2>5, <3>1 DEF Range
    <3>. QED
      BY <3>1, <3>2
  <2>. QED
    BY <2>1, <2>4, <2>6, <2>7, <2>8
<1>4. Range(DefaultBins \o DefaultLibs \o Environment) = Range(DefaultBins) \cup Range(DefaultLibs) \cup Range(Environment)
  <2>1. PICK s, t, u \in Seq(Seq(Char)) : s = DefaultBins /\ t = DefaultLibs /\ u = Environment
    BY <1>1, <1>2
  <2>2. s \o t \in Seq(Seq(Char)) /\ Range(s \o t) = Range(s) \cup Range(t)
    BY <1>3
  <2>3. PICK w \in Seq(Seq(Char)) : w = s \o t
    BY <2>2
  <2>4. Range(w \o u) = Range(w) \cup Range(u)
    BY <1>3
  <2>. QED
    BY <2>1, <2>2, <2>3, <2>4
<1>5. \A s \in Seq(Seq(Char)) : (\E path \in Range(s) : Refused(path)) <=> ~NoBad(s, Len(s))
  <2>. SUFFICES ASSUME NEW s \in Seq(Seq(Char))
                PROVE  (\E path \in Range(s) : Refused(path)) <=> ~NoBad(s, Len(s))
    OBVIOUS
  <2>1. DOMAIN s = 1 .. Len(s)
    OBVIOUS
  <2>. QED
    BY <2>1 DEF Range, NoBad
<1>6. (Range(input.args) \cap {"operand", "badOption"} # {}) <=> \E i \in 1 .. Len(input.args) : input.args[i] \in {"operand", "badOption"}
  <2>1. PICK s \in Seq(STRING) : s = input.args
    BY <1>2
  <2>2. DOMAIN s = 1 .. Len(s)
    OBVIOUS
  <2>3. PICK d : d = {"operand", "badOption"}
    OBVIOUS
  <2>4. (Range(s) \cap d # {}) <=> \E i \in 1 .. Len(s) : s[i] \in d
    BY <2>2 DEF Range
  <2>. QED
    BY <2>1, <2>3, <2>4
<1>7. BadStart <=>
        \/ \E i \in 1 .. Len(input.args) : input.args[i] \in {"operand", "badOption"}
        \/ (\E path \in Range(DefaultBins) : Refused(path)) \/ (\E path \in Range(DefaultLibs) : Refused(path))
        \/ (\E path \in Range(Environment) : Refused(path)) \/ File = Unreadable
  <2>. DEFINE bad == {p \in Range(DefaultBins \o DefaultLibs \o Environment) : Refused(p)}
  <2>1. BadStart <=>
          Range(input.args) \cap {"operand", "badOption"} # {} \/ (\E p \in Range(DefaultBins \o DefaultLibs \o Environment) : Refused(p))
          \/ File = Unreadable
    BY Zenon DEF BadStart, BadArguments
  <2>. QED
    BY <1>4, <1>6, <2>1
<1>8. /\ (\E path \in Range(DefaultBins) : Refused(path)) <=> ~NoBad(DefaultBins, Len(DefaultBins))
      /\ (\E path \in Range(DefaultLibs) : Refused(path)) <=> ~NoBad(DefaultLibs, Len(DefaultLibs))
      /\ (\E path \in Range(Environment) : Refused(path)) <=> ~NoBad(Environment, Len(Environment))
  BY <1>1, <1>2, <1>5
<1>9. /\ DOMAIN DefaultBins = 1 .. Len(DefaultBins) /\ DOMAIN DefaultLibs = 1 .. Len(DefaultLibs)
      /\ Len(Environment) \in Nat /\ Len(DefaultBins) \in Nat /\ Len(DefaultLibs) \in Nat
  BY <1>1, <1>2
<1>10. Range(DefaultBins \o DefaultLibs) = Range(DefaultBins) \cup Range(DefaultLibs)
  <2>1. PICK s, t \in Seq(Seq(Char)) : s = DefaultBins /\ t = DefaultLibs
    BY <1>2
  <2>. QED
    BY <1>3, <2>1
<1>11. MustStop => BadStart
  <2>1. /\ \A p \in Range(DefaultBins \o DefaultLibs) : p \in Range(DefaultBins \o DefaultLibs \o Environment)
        /\ \A p \in Range(Environment) : p \in Range(DefaultBins \o DefaultLibs \o Environment)
    BY <1>4, <1>10
  <2>. QED
    BY <2>1, Zenon DEF MustStop, BadStart, Refused
<1>. QED
  BY <1>1, <1>2, <1>7, <1>8, <1>9, <1>11

LEMMA FirstErrorIs ==
  ASSUME TextInv, ErrorInv
  PROVE  StopsAtFirstError
<1>1. pc = "configured" => ~BadStart /\ (File # Absent => BadLines = {})
  BY StartIs DEF ErrorInv, ArgumentsInv, DirsInv, LinesInv
<1>4. MustStop => BadStart
  BY StartIs
<1>2. ASSUME HasFile, line.no \in BadLines, \A n \in BadLines : line.no <= n
      PROVE  line.no = Least(BadLines)
  <2>1. BadLines \in SUBSET Nat
    BY <1>2, LinesType DEF BadLines
  <2>. QED
    BY <1>2, <2>1, LeastBy
<1>3. pc = "exit2" =>
       \/ error.line = 0 /\ BadStart
       \/ /\ error.line = 0 => error.why = "entry" /\ NamesPath(line.no)
          /\ line.no = Least(BadLines) /\ error.line \in {0, line.no}
  BY <1>2 DEF ErrorInv, ExitInv
<1>. QED
  BY <1>1, <1>3, <1>4 DEF StopsAtFirstError
LEMMA ErrorExit ==
  ASSUME ErrorInv, input' = input, next' = next, pc' = "exit2",
         \/ error'.line = 0 /\ BadStart
         \/ /\ error'.line = 0 => error'.why = "entry" /\ NamesPath(line'.no)
            /\ HasFile /\ line'.no \in BadLines /\ (\A n \in BadLines : line'.no <= n) /\ error'.line \in {0, line'.no}
  PROVE  ErrorInv'
<1>1. BadLines' = BadLines /\ (BadStart' <=> BadStart) /\ (HasFile' <=> HasFile)
      /\ \A n : NamesPath(n)' <=> NamesPath(n)
  BY SameFile
<1>2. ExitInv'
  BY <1>1 DEF ExitInv
<1>3. ArgumentsInv' /\ DirsInv' /\ LinesInv'
  BY DEF ErrorInv, ArgumentsInv, DirsInv, LinesInv, Parsing
<1>. QED
  BY <1>2, <1>3 DEF ErrorInv

LEMMA ErrorOnward ==
  ASSUME ErrorInv, pc \in {"open", "parse", "parts"}, pc' \in {"parse", "parts", "configured"},
         input' = input, next' = next, LinesInv'
  PROVE  ErrorInv'
<1>1. Environment' = Environment
  BY SameFile
<1>2. ArgumentsInv' /\ DirsInv' /\ ExitInv'
  BY <1>1 DEF ErrorInv, ArgumentsInv, DirsInv, ExitInv, NoBad
<1>. QED
  BY <1>2 DEF ErrorInv

LEMMA ErrorSame ==
  ASSUME ErrorInv, UNCHANGED vars
  PROVE  ErrorInv'
<1>1. /\ input' = input /\ pc' = pc /\ error' = error /\ next' = next /\ part' = part /\ line' = line
      /\ operands' = operands
  BY DEF vars, progressVars, parserVars, settingVars
<1>2. /\ BadLines' = BadLines /\ (BadStart' <=> BadStart) /\ (HasFile' <=> HasFile) /\ Environment' = Environment
      /\ File' = File /\ (\A k : With(k)' = With(k)) /\ \A n : ValueOf(n)' = ValueOf(n) /\ (NamesPath(n)' <=> NamesPath(n))
  BY <1>1, SameFile
<1>3. ArgumentsInv'
  BY <1>1 DEF ErrorInv, ArgumentsInv
<1>4. DirsInv'
  BY <1>1, <1>2 DEF ErrorInv, DirsInv, NoBad
<1>5. LineWords' = LineWords
  BY <1>1, <1>2 DEF LineWords
<1>6. LinesInv'
  BY <1>1, <1>2, <1>5 DEF ErrorInv, LinesInv, NoBad, Parsing
<1>7. ExitInv'
  BY <1>1, <1>2 DEF ErrorInv, ExitInv
<1>. QED
  BY <1>3, <1>4, <1>6, <1>7 DEF ErrorInv

\* Before the configuration file.
LEMMA ErrorArguments ==
  ASSUME TextInv, ErrorInv, ReadArgument \/ EndOfArguments
  PROVE  ErrorInv'
<1>1. /\ next \in Nat /\ next <= Len(input.args) /\ (\A i \in 1 .. next : input.args[i] # "badOption")
      /\ operands <=> \E i \in 1 .. next : input.args[i] = "operand"
  BY DEF ErrorInv, ArgumentsInv, ReadArgument, EndOfArguments
<1>2. PICK n \in Nat : n = Len(input.args)
  BY StartIs
<1>3. CASE ReadArgument
  <2>1. next < n /\ pc = "args"
    BY <1>2, <1>3 DEF ReadArgument
  <2>2. PICK m \in 1 .. n : m = next + 1
    BY <1>1, <2>1
  <2>3. CASE input.args[m] = "badOption"
    <3>1. pc' = "exit2" /\ input' = input /\ next' = next /\ error' = [why |-> "usage", line |-> 0]
      BY <1>3, <2>2, <2>3 DEF ReadArgument, Exit2
    <3>2. BadStart
      BY <1>2, <2>3, StartIs
    <3>. QED
      BY <3>1, <3>2, ErrorExit
  <2>4. CASE input.args[m] # "badOption"
    <3>1. /\ pc' = "args" /\ input' = input /\ next' = m
          /\ operands' <=> (operands \/ input.args[m] = "operand")
      BY <1>3, <2>1, <2>2, <2>4 DEF ReadArgument
    <3>2. \A i \in 1 .. m : i \in 1 .. next \/ i = m
      BY <1>1, <2>2
    <3>3. \A i \in 1 .. next : i \in 1 .. m
      BY <1>1, <2>2
    <3>4. \A i \in 1 .. m : input.args[i] # "badOption"
      BY <1>1, <2>4, <3>2
    <3>5. operands' <=> \E i \in 1 .. m : input.args[i] = "operand"
      BY <1>1, <2>2, <3>1, <3>2, <3>3
    <3>6. m \in Nat /\ m <= Len(input.args)
      BY <1>2
    <3>7. ArgumentsInv'
      BY <3>1, <3>4, <3>5, <3>6 DEF ArgumentsInv
    <3>8. DirsInv' /\ LinesInv' /\ ExitInv'
      BY <3>1 DEF DirsInv, LinesInv, ExitInv, Parsing
    <3>. QED
      BY <3>7, <3>8 DEF ErrorInv
  <2>. QED
    BY <2>3, <2>4
<1>4. CASE EndOfArguments
  <2>1. next = n /\ pc = "args"
    BY <1>2, <1>4 DEF EndOfArguments
  <2>2. CASE operands
    <3>1. pc' = "exit2" /\ input' = input /\ next' = next /\ error' = [why |-> "usage", line |-> 0]
      BY <1>4, <2>2 DEF EndOfArguments, Exit2
    <3>2. BadStart
      BY <1>1, <1>2, <2>1, <2>2, StartIs
    <3>. QED
      BY <3>1, <3>2, ErrorExit
  <2>3. CASE ~operands
    <3>1. pc' = "bins" /\ input' = input /\ next' = 0
      BY <1>4, <2>3 DEF EndOfArguments
    <3>2. \A i \in 1 .. n : input.args[i] \notin {"operand", "badOption"}
      BY <1>1, <2>1, <2>3
    <3>3. ArgumentsInv'
      BY <1>2, <3>1, <3>2 DEF ArgumentsInv
    <3>4. 0 <= Len(DefaultBins) /\ NoBad(DefaultBins, 0)
      BY StartIs DEF NoBad
    <3>5. DirsInv' /\ LinesInv' /\ ExitInv'
      BY <3>1, <3>4 DEF DirsInv, LinesInv, ExitInv, Parsing
    <3>. QED
      BY <3>3, <3>5 DEF ErrorInv
  <2>. QED
    BY <2>2, <2>3
<1>. QED
  BY <1>3, <1>4

LEMMA NoBadMore ==
  ASSUME NEW paths, NEW n \in Nat, NoBad(paths, n), ~Refused(paths[n + 1])
  PROVE  NoBad(paths, n + 1)
<1>1. \A i \in 1 .. n + 1 : i \in 1 .. n \/ i = n + 1
  OBVIOUS
<1>. QED
  BY <1>1 DEF NoBad

LEMMA RefusedIs == ASSUME NEW path PROVE BadEntry(path) <=> Refused(path)
BY Zenon DEF BadEntry, Refused, Unresolvable

LEMMA ErrorDefaults ==
  ASSUME TextInv, ErrorInv, AppendDefaultBin \/ AppendDefaultLib
  PROVE  ErrorInv'
<1>1. PICK paths, k : /\ AppendDefault(paths, k)
                      /\ \/ pc = "bins" /\ paths = DefaultBins
                         \/ pc = "libs" /\ paths = DefaultLibs
  BY DEF AppendDefaultBin, AppendDefaultLib
<1>2. next \in Nat /\ NoBad(paths, next)
  BY <1>1 DEF ErrorInv, ArgumentsInv, DirsInv
<1>3. PICK n \in Nat : n = Len(paths)
  BY <1>1, StartIs
<1>4. next < n
  BY <1>1, <1>3 DEF AppendDefault
<1>5. PICK m \in 1 .. n : m = next + 1
  BY <1>2, <1>4
<1>6. CASE Refused(paths[m])
  <2>1. pc' = "exit2" /\ input' = input /\ next' = next /\ error' = [why |-> "entry", line |-> 0]
    BY <1>1, <1>5, <1>6, RefusedIs DEF AppendDefault, Exit2
  <2>2. ~NoBad(paths, n)
    BY <1>6 DEF NoBad
  <2>3. BadStart
    BY <1>1, <1>3, <2>2, StartIs
  <2>. QED
    BY <2>1, <2>3, ErrorExit
<1>7. CASE ~Refused(paths[m])
  <2>1. pc' = pc /\ input' = input /\ next' = m
    BY <1>1, <1>5, <1>7, RefusedIs DEF AppendDefault
  <2>2. NoBad(paths, m) /\ m <= Len(paths) /\ m \in Nat
    BY <1>2, <1>3, <1>5, <1>7, NoBadMore
  <2>3. ArgumentsInv'
    BY <1>1, <2>1, <2>2 DEF ErrorInv, ArgumentsInv
  <2>4. DirsInv'
    BY <1>1, <2>1, <2>2 DEF ErrorInv, DirsInv
  <2>5. LinesInv' /\ ExitInv'
    BY <1>1, <2>1 DEF LinesInv, ExitInv, Parsing
  <2>. QED
    BY <2>3, <2>4, <2>5 DEF ErrorInv
<1>. QED
  BY <1>6, <1>7

LEMMA ErrorEndOfBins ==
  ASSUME TextInv, ErrorInv, EndOfBins
  PROVE  ErrorInv'
<1>1. pc = "bins" /\ next = Len(DefaultBins) /\ pc' = "libs" /\ next' = 0 /\ input' = input
  BY DEF EndOfBins
<1>2. 0 <= Len(DefaultLibs) /\ NoBad(DefaultLibs, 0)
  BY StartIs DEF NoBad
<1>3. ArgumentsInv'
  BY <1>1 DEF ErrorInv, ArgumentsInv
<1>4. DirsInv' /\ LinesInv' /\ ExitInv'
  BY <1>1, <1>2 DEF ErrorInv, DirsInv, LinesInv, ExitInv, Parsing
<1>. QED
  BY <1>3, <1>4 DEF ErrorInv

LEMMA ErrorReadEnvironment ==
  ASSUME TextInv, ErrorInv, ReadEnvironment
  PROVE  ErrorInv'
<1>1. pc = "libs" /\ next = Len(DefaultLibs) /\ next' = next /\ input' = input /\ Environment' = Environment
  BY SameFile DEF ReadEnvironment
<1>2. \/ pc' = "open" /\ Environment = << >>
      \/ pc' = "environment" /\ part'.no = 1
  <2>1. CASE input.libraryPath = Absent
    BY <2>1 DEF ReadEnvironment, Environment
  <2>2. CASE input.libraryPath # Absent
    <3>1. pc' = "environment"
      BY <2>2 DEF ReadEnvironment
    <3>. QED
      BY <3>1, TextReadEnvironment
  <2>. QED
    BY <2>1, <2>2
<1>3. ArgumentsInv'
  BY <1>1, <1>2 DEF ErrorInv, ArgumentsInv
<1>4. pc' = "open" => NoBad(Environment, Len(Environment))'
  <2>1. Len(<< >>) = 0
    OBVIOUS
  <2>2. pc' = "open" => Environment' = << >>
    BY <1>1, <1>2
  <2>. QED
    BY <2>1, <2>2 DEF NoBad
<1>5. pc' = "environment" => NoBad(Environment, part.no - 1)'
  BY <1>2 DEF NoBad
<1>6. NoBad(DefaultBins, Len(DefaultBins)) /\ NoBad(DefaultLibs, Len(DefaultLibs))
  BY <1>1 DEF ErrorInv, DirsInv
<1>7. DirsInv'
  BY <1>2, <1>4, <1>5, <1>6 DEF DirsInv
<1>8. LinesInv' /\ ExitInv'
  BY <1>2 DEF LinesInv, ExitInv, Parsing
<1>. QED
  BY <1>3, <1>7, <1>8 DEF ErrorInv

\* Behind the last part all words were seen.
LEMMA PartsDone ==
  ASSUME NEW t \in Seq(Char), NEW delims, NEW o \in Nat, NEW b, NEW p, PartIs(b, t, delims, o, p), p.begin = o + Len(t) + 1
  PROVE  p.no = Len(Words(t, delims)) + 1
<1>0. PICK n \in Nat : n = Len(t)
  OBVIOUS
<1>1. p.begin - o > Len(t)
  BY <1>0
<1>2. p.no = Cardinality(WordStarts(t, delims)) + 1
  BY <1>1 DEF PartIs
<1>. QED
  BY <1>2, WordStartsType

\* Behind the last part of the environment there is no other.
LEMMA EnvironmentDone ==
  ASSUME TextInv, pc = "environment", IsEnd(EnvironmentParts(buf), part)
  PROVE  part.no - 1 = Len(Environment)
<1>2. /\ input \in Inputs /\ input.libraryPath # Absent /\ Len(buf) = Len(input.libraryPath) + 1
      /\ PartIs(buf, input.libraryPath, {":"}, 0, part)
  BY DEF TextInv, Parsing
<1>3. PICK t \in Seq(Char) : t = input.libraryPath
  BY <1>2, InputIs
<1>4. PICK n \in Nat : n = Len(t)
  OBVIOUS
<1>5. PICK o \in Nat : o = 0
  OBVIOUS
<1>6. PICK d : d = {":"}
  OBVIOUS
<1>7. PICK p : p = part
  OBVIOUS
<1>8. PartIs(buf, t, d, o, p) /\ p.begin = o + Len(t) + 1
  <2>1. part.begin = n + 1
    BY <1>2, <1>3, <1>4 DEF IsEnd, EnvironmentParts
  <2>2. o + n + 1 = n + 1
    BY <1>5
  <2>. QED
    BY <1>2, <1>3, <1>4, <1>5, <1>6, <1>7, <2>1, <2>2
<1>9. p.no = Len(Words(t, d)) + 1
  BY <1>8, PartsDone
<1>10. Environment = Words(t, d)
  BY <1>2, <1>3, <1>6 DEF Environment
<1>. QED
  BY <1>7, <1>9, <1>10, StartIs

LEMMA ErrorEndOfEnvironment ==
  ASSUME TextInv, ErrorInv, EndOfEnvironment
  PROVE  ErrorInv'
<1>1. /\ pc = "environment" /\ IsEnd(EnvironmentParts(buf), part) /\ next' = next /\ input' = input
      /\ pc' = "open" /\ Environment' = Environment
  BY SameFile DEF EndOfEnvironment
<1>11. part.no - 1 = Len(Environment)
  BY <1>1, EnvironmentDone
<1>12. NoBad(Environment, Len(Environment))
  BY <1>1, <1>11 DEF ErrorInv, DirsInv
<1>13. ArgumentsInv'
  BY <1>1 DEF ErrorInv, ArgumentsInv
<1>14. NoBad(DefaultBins, Len(DefaultBins)) /\ NoBad(DefaultLibs, Len(DefaultLibs))
  BY <1>1 DEF ErrorInv, DirsInv
<1>15. DirsInv'
  BY <1>1, <1>12, <1>14 DEF DirsInv
<1>16. LinesInv' /\ ExitInv'
  BY <1>1 DEF LinesInv, ExitInv, Parsing
<1>. QED
  BY <1>13, <1>15, <1>16 DEF ErrorInv

LEMMA ErrorEnvironmentPart ==
  ASSUME TextInv, ErrorInv, EnvironmentPart
  PROVE  ErrorInv'
<1>1. pc = "environment" /\ ~IsEnd(EnvironmentParts(buf), part) /\ next' = next /\ input' = input /\ Environment' = Environment
  <2>1. pc = "environment" /\ ~IsEnd(EnvironmentParts(buf), part) /\ next' = next /\ input' = input
    BY DEF EnvironmentPart, PartsOf, Exit2
  <2>. QED
    BY <2>1, SameFile
<1>2. PICK t : t = input.libraryPath /\ EnvironmentText(t)
  BY DEF EnvironmentText
<1>3. input.libraryPath # Absent
  BY <1>1 DEF TextInv
<1>4. PICK w : w = CString(buf, part.begin)
  OBVIOUS
<1>5. part.no \in DOMAIN Environment /\ w = Environment[part.no]
  <2>1. part.no \in DOMAIN Words(t, {":"}) /\ w = Words(t, {":"})[part.no]
    BY <1>1, <1>2, <1>4, TextDir
  <2>2. Environment = Words(t, {":"})
    BY <1>2, <1>3 DEF Environment
  <2>. QED
    BY <2>1, <2>2
<1>10. Len(Environment) \in Nat
  BY StartIs
<1>6. PICK n \in 1 .. Len(Environment) : n = part.no
  BY <1>5, StartIs
<1>7. CASE Refused(w)
  <2>1. pc' = "exit2" /\ error' = [why |-> "entry", line |-> 0]
    BY <1>4, <1>7, RefusedIs DEF EnvironmentPart, PartsOf, Exit2
  <2>2. ~NoBad(Environment, Len(Environment))
    BY <1>5, <1>6, <1>7 DEF NoBad
  <2>3. BadStart
    BY <2>2, StartIs
  <2>. QED
    BY <1>1, <2>1, <2>3, ErrorExit
<1>8. CASE ~Refused(w)
  <2>1. pc' = "environment"
    BY <1>1, <1>4, <1>8, RefusedIs DEF EnvironmentPart, PartsOf
  <2>2. part'.no = n + 1
    BY <1>6, <2>1, TextEnvironmentPart
  <2>3. NoBad(Environment, n)
    <3>4. NoBad(Environment, part.no - 1)
      BY <1>1 DEF ErrorInv, DirsInv
    <3>5. n - 1 \in Nat /\ n - 1 + 1 = n
      BY <1>6, <1>10
    <3>1. NoBad(Environment, n - 1) /\ n - 1 \in Nat /\ n - 1 + 1 = n
      BY <1>6, <3>4, <3>5
    <3>2. PICK m \in Nat : m = n - 1
      BY <3>1
    <3>3. NoBad(Environment, m + 1)
      BY <1>5, <1>6, <1>8, <3>1, <3>2, NoBadMore
    <3>. QED
      BY <3>1, <3>2, <3>3
  <2>4. NoBad(Environment, part.no - 1)'
    <3>1. n + 1 - 1 = n
      BY <1>6, StartIs
    <3>. QED
      BY <1>1, <2>2, <2>3, <3>1 DEF NoBad
  <2>5. ArgumentsInv'
    BY <1>1, <2>1 DEF ErrorInv, ArgumentsInv
  <2>6. NoBad(DefaultBins, Len(DefaultBins)) /\ NoBad(DefaultLibs, Len(DefaultLibs))
    BY <1>1 DEF ErrorInv, DirsInv
  <2>7. DirsInv'
    BY <2>1, <2>4, <2>6 DEF DirsInv
  <2>8. LinesInv' /\ ExitInv'
    BY <2>1 DEF LinesInv, ExitInv, Parsing
  <2>. QED
    BY <2>5, <2>7, <2>8 DEF ErrorInv
<1>. QED
  BY <1>7, <1>8
\* In the configuration file.
LEMMA ErrorOpenConfig ==
  ASSUME TextInv, ErrorInv, OpenConfig
  PROVE  ErrorInv'
<1>1. pc = "open" /\ input' = input /\ next' = next
  BY DEF OpenConfig, Exit2, StartParsing
<1>2. File' = File /\ BadLines' = BadLines
  BY <1>1, SameFile
<1>3. CASE File = Unreadable
  <2>1. pc' = "exit2" /\ error' = [why |-> "file", line |-> 0]
    BY <1>3, TextAssumption DEF OpenConfig, File, Exit2
  <2>2. BadStart
    BY <1>3, StartIs
  <2>. QED
    BY <1>1, <2>1, <2>2, ErrorExit
<1>4. CASE File = Absent
  <2>1. pc' = "configured"
    BY <1>4, TextAssumption DEF OpenConfig, File
  <2>2. LinesInv'
    BY <1>2, <1>4, <2>1, TextAssumption DEF LinesInv, Parsing
  <2>. QED
    BY <1>1, <2>1, <2>2, ErrorOnward
<1>5. CASE File # Unreadable /\ File # Absent
  <2>1. pc' = "parse"
    BY <1>5 DEF OpenConfig, File
  <2>2. line'.no = 1 /\ HasFile
    BY <1>5, <2>1, TextOpenConfig DEF HasFile
  <2>3. \A n \in BadLines : n \in Nat /\ n # 0
    BY <2>2, LinesType DEF BadLines
  <2>4. LinesInv'
    BY <1>2, <2>1, <2>2, <2>3 DEF LinesInv, Parsing
  <2>. QED
    BY <1>1, <2>1, <2>4, ErrorOnward
<1>. QED
  BY <1>3, <1>4, <1>5

\* A line that is not bad is done.
LEMMA ErrorNextLine ==
  ASSUME TextInv, ErrorInv, Parsing, pc' = "parse", input' = input, next' = next,
         line.no \notin BadLines, line'.no = line.no + 1
  PROVE  ErrorInv'
<1>1. BadLines' = BadLines
  BY SameFile
<1>2. HasFile /\ line.no \in Nat
  BY DEF TextInv, LineIs
<1>3. PICK l \in Nat : l = line.no
  BY <1>2
<1>4. \A n \in BadLines : n \in Nat /\ l <= n /\ n # l
  BY <1>2, <1>3, LinesType DEF BadLines, ErrorInv, LinesInv
<1>5. \A n \in BadLines : l + 1 <= n
  BY <1>4
<1>6. LinesInv'
  BY <1>1, <1>3, <1>5 DEF LinesInv, Parsing
<1>. QED
  BY <1>6, ErrorOnward DEF Parsing

\* A line that is bad ends the program.
LEMMA ErrorHere ==
  ASSUME TextInv, ErrorInv, Parsing, pc' = "exit2", input' = input, next' = next, line' = line,
         line.no \in BadLines, (error'.line = 0 /\ error'.why = "entry" /\ NamesPath(line.no)) \/ error'.line = line.no
  PROVE  ErrorInv'
<1>1. HasFile /\ \A n \in BadLines : line.no <= n
  BY DEF TextInv, ErrorInv, LinesInv
<1>2. line.no # 0
  BY <1>1, LinesType DEF BadLines
<1>. QED
  BY <1>1, <1>2, ErrorExit

LEMMA ErrorParserStep ==
  ASSUME TextInv, ErrorInv, ParserStep
  PROVE  ErrorInv'
<1>1. pc = "parse" /\ pc' = pc /\ input' = input /\ next' = next /\ (SkipLine \/ ParseLine)
  BY DEF ParserStep
<1>2. CASE SkipLine
  <2>1. line'.no = line.no + 1 /\ line.no \notin LineNos
    BY <1>1, <1>2, TextSkip
  <2>. QED
    BY <1>1, <2>1, ErrorNextLine DEF Parsing, BadLines
<1>3. CASE ParseLine
  <2>1. line' = line
    BY <1>3 DEF ParseLine
  <2>2. LinesInv'
    BY <1>1, <2>1, SameFile DEF ErrorInv, LinesInv, Parsing
  <2>. QED
    BY <1>1, <2>2, ErrorOnward
<1>. QED
  BY <1>1, <1>2, <1>3

LEMMA ErrorSyntax ==
  ASSUME TextInv, ErrorInv, Syntax
  PROVE  ErrorInv'
<1>1. /\ pc = "parse" /\ at = "line" /\ ~AtEnd /\ ~IsComment /\ IsEmpty(KeyIn(Text))
      /\ pc' = "exit2" /\ input' = input /\ next' = next /\ line' = line /\ error' = [why |-> "syntax", line |-> line.no]
  BY DEF Syntax, BadLine
<1>2. PICK x, k, v : x = TextAt(File, line.no) /\ k = KeyIn(Text) /\ v = ValueIn(Text)
  OBVIOUS
<1>3. IsLine(File, line.no) /\ ~HasKey(TextAt(File, line.no))
  BY <1>1, <1>2, LineRead
<1>4. line.no \in LineNos /\ line.no \notin SettingNos
  BY <1>3 DEF LineNos, SettingNos, LineText, IsLine, TextAt
<1>5. line.no \in BadLines
  BY <1>4 DEF BadLines
<1>. QED
  BY <1>1, <1>5, ErrorHere DEF Parsing

\* Behind the last line there is no other.
LEMMA AllLinesRead ==
  ASSUME TextInv, pc = "parse", AtEnd
  PROVE  HasFile /\ \A n \in LineNos : n < line.no
<1>1. HasFile /\ LineIs(File, line) /\ File \in Seq(Char)
  BY InputIs DEF TextInv, Parsing
<1>2. ~(line.begin <= Len(File))
  BY AtEndIs DEF Parsing
<1>3. PICK t \in Seq(Char) : t = File
  BY <1>1
<1>4. PICK m \in Nat : m = Len(t)
  OBVIOUS
<1>5. line.begin > Len(t)
  <2>1. line.begin \in 1 .. m + 1
    BY <1>1, <1>3, <1>4 DEF LineIs
  <2>. QED
    BY <1>2, <1>3, <1>4, <2>1
<1>6. \A n \in 1 .. Len(Pieces(t, {"\n"})) : n < line.no \/ Pieces(t, {"\n"})[n] = << >>
  BY <1>1, <1>3, <1>5 DEF LineIs
<1>7. Stripped(<< >>) = << >>
  BY DEF Stripped
<1>8. \A n \in LineNos : n \in 1 .. Len(Pieces(t, {"\n"})) /\ Stripped(Pieces(t, {"\n"})[n]) # << >>
  BY <1>3 DEF LineNos, LineText
<1>. QED
  BY <1>1, <1>6, <1>7, <1>8

LEMMA ErrorConfigured ==
  ASSUME TextInv, ErrorInv, Configured
  PROVE  ErrorInv'
<1>1. /\ pc = "parse" /\ AtEnd /\ pc' = "configured" /\ input' = input /\ next' = next
  BY DEF Configured, EndOfFile
<1>2. HasFile /\ \A n \in LineNos : n < line.no
  BY <1>1, AllLinesRead
<1>3. BadLines = {}
  <2>1. \A n \in BadLines : line.no <= n /\ n < line.no /\ n \in Nat
    BY <1>1, <1>2, LinesType DEF ErrorInv, LinesInv, Parsing, BadLines
  <2>2. line.no \in Nat
    BY <1>1 DEF TextInv, LineIs, Parsing
  <2>. QED
    BY <2>1, <2>2
<1>4. File # Unreadable
  BY <1>2 DEF HasFile
<1>5. LinesInv'
  BY <1>1, <1>3, <1>4, SameFile DEF LinesInv, Parsing
<1>. QED
  BY <1>1, <1>5, ErrorOnward

LEMMA ErrorHandler ==
  ASSUME TextInv, ErrorInv, HandlerStep
  PROVE  ErrorInv'
<1>1. /\ pc = "parse" /\ at = "onLine" /\ line.no \in SettingNos
      /\ \/ Reject /\ line.no \in BadLines
         \/ Exit2("entry", 0) /\ line.no \in BadLines /\ NamesPath(line.no)
         \/ Accept /\ line.no \notin BadLines
  BY HandlerBad
<1>2. CASE Reject /\ line.no \in BadLines
  <2>1. pc' = "exit2" /\ input' = input /\ next' = next /\ line' = line /\ error' = [why |-> "value", line |-> line.no]
    BY <1>2 DEF Reject, Exit2, parserVars
  <2>. QED
    BY <1>1, <1>2, <2>1, ErrorHere DEF Parsing
<1>4. CASE Exit2("entry", 0) /\ line.no \in BadLines /\ NamesPath(line.no)
  <2>1. pc' = "exit2" /\ input' = input /\ next' = next /\ line' = line /\ error' = [why |-> "entry", line |-> 0]
    BY <1>4 DEF Exit2, parserVars
  <2>. QED
    BY <1>1, <1>4, <2>1, ErrorHere DEF Parsing
<1>3. CASE Accept /\ line.no \notin BadLines
  <2>1. pc' = "parse" /\ input' = input /\ next' = next
    BY <1>1, <1>3 DEF Accept
  <2>2. line'.no = line.no + 1
    BY <1>1, <1>3, TextAccept
  <2>. QED
    BY <1>1, <1>3, <2>1, <2>2, ErrorNextLine DEF Parsing
<1>. QED
  BY <1>1, <1>2, <1>3, <1>4

LEMMA ErrorScanMore ==
  ASSUME TextInv, ErrorInv, ScanMore
  PROVE  ErrorInv'
<1>1. pc = "parse" /\ at = "onLine" /\ OnLine(ScanKeys) /\ pc' = "parts" /\ input' = input /\ next' = next /\ line' = line
  BY DEF ScanMore, OnLine
<1>2. part'.no = 1
  BY TextScanMore
<1>3. \E k \in ScanKeys : line.no \in With(k)
  BY <1>1, KeyLine
<1>4. \A n \in BadLines : line.no <= n
  BY <1>1 DEF ErrorInv, LinesInv, Parsing
<1>5. NoBad(LineWords, part.no - 1)'
  BY <1>2 DEF NoBad
<1>6. BadLines' = BadLines /\ \A k : With(k)' = With(k)
  BY <1>1, SameFile
<1>7. LinesInv'
  BY <1>1, <1>3, <1>4, <1>5, <1>6 DEF LinesInv, Parsing
<1>. QED
  BY <1>1, <1>7, ErrorOnward

\* The words of the line that is split.
LEMMA LineWordsType ==
  ASSUME TextInv, pc = "parts"
  PROVE  /\ LineWords \in Seq(Seq(Char)) /\ Len(LineWords) \in Nat /\ DOMAIN LineWords = 1 .. Len(LineWords)
         /\ line.no \in SettingNos /\ HasFile
<1>1. line.no \in SettingNos /\ HasFile
  BY OnLineIs DEF TextInv, Parsing
<1>2. ValueOf(line.no) \in Seq(Char)
  BY <1>1, LinesType DEF Solids
<1>3. PICK v \in Seq(Char) : v = ValueOf(line.no)
  BY <1>2
<1>4. Words(v, Blanks) \in Seq(Seq(Char))
  BY WordsType
<1>5. LineWords \in Seq(Seq(Char))
  BY <1>3, <1>4 DEF LineWords
<1>. QED
  BY <1>1, <1>5

LEMMA ErrorScanPart ==
  ASSUME TextInv, ErrorInv, ScanPart
  PROVE  ErrorInv'
<1>1. /\ pc = "parts" /\ ~IsEnd(ValueParts, part) /\ next' = next /\ input' = input /\ line' = line
  BY DEF ScanPart, PartsOf, Exit2, parserVars
<1>2. PICK t : t = ValueOf(line.no) /\ LineValue(t)
  BY DEF LineValue, ValueOf, ValueAt, LineText, TextAt
<1>3. PICK w : w = CString(buf, part.begin)
  OBVIOUS
<1>4. part.no \in DOMAIN LineWords /\ w = LineWords[part.no]
  <2>1. part.no \in DOMAIN Words(t, Blanks) /\ w = Words(t, Blanks)[part.no]
    BY <1>1, <1>2, <1>3, TextPart
  <2>. QED
    BY <1>2, <2>1 DEF LineWords
<1>5. PICK n \in 1 .. Len(LineWords) : n = part.no
  BY <1>1, <1>4, LineWordsType
<1>6. Len(LineWords) \in Nat /\ line.no \in SettingNos
  BY <1>1, LineWordsType
<1>7. \E k \in ScanKeys : line.no \in With(k)
  BY <1>1 DEF ErrorInv, LinesInv
<1>8. CASE Refused(w)
  <2>1. pc' = "exit2" /\ error' = [why |-> "entry", line |-> 0]
    BY <1>3, <1>8, RefusedIs DEF ScanPart, PartsOf, Exit2
  <2>2. w \in Range(LineWords)
    BY <1>4 DEF Range
  <2>3. BadSetting(line.no)
    BY <1>6, <1>7, <1>8, <2>2, BadIs DEF LineWords
  <2>4. line.no \in BadLines
    BY <1>6, <2>3, BadIs
  <2>5. NamesPath(line.no)
    BY <1>7, Zenon DEF NamesPath
  <2>. QED
    BY <1>1, <2>1, <2>4, <2>5, ErrorHere DEF Parsing
<1>9. CASE ~Refused(w)
  <2>1. pc' = "parts"
    BY <1>1, <1>3, <1>9, RefusedIs DEF ScanPart, PartsOf
  <2>2. part'.no = n + 1
    BY <1>5, <2>1, TextScanPart
  <2>3. NoBad(LineWords, n)
    <3>1. NoBad(LineWords, part.no - 1)
      BY <1>1 DEF ErrorInv, LinesInv
    <3>2. PICK m \in Nat : m = n - 1
      BY <1>6
    <3>3. m + 1 = n
      BY <1>6, <3>2
    <3>4. NoBad(LineWords, m)
      BY <1>5, <3>1, <3>2
    <3>5. NoBad(LineWords, m + 1)
      BY <1>4, <1>5, <1>9, <3>3, <3>4, NoBadMore
    <3>. QED
      BY <3>3, <3>5
  <2>4. LineWords' = LineWords
    BY <1>1, SameFile DEF LineWords
  <2>5. NoBad(LineWords, part.no - 1)'
    <3>1. n + 1 - 1 = n
      BY <1>6
    <3>. QED
      BY <2>2, <2>3, <2>4, <3>1 DEF NoBad
  <2>6. \A k \in BadLines : line.no <= k
    BY <1>1 DEF ErrorInv, LinesInv, Parsing
  <2>7. BadLines' = BadLines /\ \A k : With(k)' = With(k)
    BY <1>1, SameFile
  <2>8. LinesInv'
    BY <1>1, <1>7, <2>1, <2>5, <2>6, <2>7 DEF LinesInv, Parsing
  <2>. QED
    BY <1>1, <2>1, <2>8, ErrorOnward
<1>. QED
  BY <1>8, <1>9

LEMMA LineWordsDone ==
  ASSUME TextInv, pc = "parts", IsEnd(ValueParts, part)
  PROVE  part.no = Len(LineWords) + 1
<1>1. /\ SettingIn(File, buf, line, key, value) /\ LineIs(File, line) /\ File \in Seq(Char)
      /\ PartIs(buf, ValueAt(File, line.no), Blanks, value.begin - 1, part)
  BY InputIs DEF TextInv, Parsing
<1>2. PICK file \in Seq(Char) : file = File
  BY <1>1
<1>3. LineIs(file, line) /\ SettingIn(file, buf, line, key, value)
  BY <1>1, <1>2
<1>4. /\ ValueAt(file, line.no) \in Seq(Char) /\ value.begin - 1 \in Nat
      /\ value.end = value.begin - 1 + Len(ValueAt(file, line.no)) + 1
  BY <1>3, ValueIs, SMTT(90)
<1>5. PICK t \in Seq(Char) : t = ValueAt(file, line.no)
  BY <1>4
<1>6. PICK o \in Nat : o = value.begin - 1
  BY <1>4
<1>7. PICK p : p = part
  OBVIOUS
<1>8. PartIs(buf, t, Blanks, o, p)
  BY <1>1, <1>2, <1>5, <1>6, <1>7
<1>9. p.begin = o + Len(t) + 1
  BY <1>4, <1>5, <1>6, <1>7 DEF IsEnd, ValueParts
<1>10. p.no = Len(Words(t, Blanks)) + 1
  BY <1>8, <1>9, PartsDone
<1>11. LineWords = Words(t, Blanks)
  BY <1>2, <1>5 DEF LineWords, ValueOf, ValueAt, LineText, TextAt
<1>. QED
  BY <1>7, <1>10, <1>11

LEMMA ErrorEndOfParts ==
  ASSUME TextInv, ErrorInv, EndOfParts
  PROVE  ErrorInv'
<1>1. pc = "parts" /\ IsEnd(ValueParts, part) /\ pc' = "parse" /\ input' = input /\ next' = next
  BY DEF EndOfParts
<1>2. line'.no = line.no + 1
  BY TextEndOfParts
<1>3. /\ part.no = Len(LineWords) + 1 /\ Len(LineWords) \in Nat /\ DOMAIN LineWords = 1 .. Len(LineWords)
      /\ line.no \in SettingNos
  BY <1>1, LineWordsDone, LineWordsType
<1>4. NoBad(LineWords, part.no - 1) /\ \E k \in ScanKeys : line.no \in With(k)
  BY <1>1 DEF ErrorInv, LinesInv
<1>5. part.no - 1 = Len(LineWords)
  BY <1>3
<1>6. \A w \in Range(LineWords) : ~Refused(w)
  BY <1>3, <1>4, <1>5 DEF NoBad, Range
<1>7. line.no \notin BadLines
  BY <1>3, <1>4, <1>6, BadIs DEF LineWords
<1>. QED
  BY <1>1, <1>2, <1>7, ErrorNextLine DEF Parsing

LEMMA ErrorOtherKey ==
  ASSUME TextInv, ErrorInv, OtherKey
  PROVE  ErrorInv'
<1>1. /\ pc = "parse" /\ at = "onLine" /\ ~OnLine(Keys)
      /\ pc' = "exit2" /\ input' = input /\ next' = next /\ line' = line /\ error' = [why |-> "unknownKey", line |-> line.no]
  BY DEF OtherKey, UnknownKey
<1>2. line.no \in SettingNos /\ \A k \in Keys : line.no \notin With(k)
  BY <1>1, KeyLine
<1>3. line.no \in BadLines
  BY <1>2, BadIs
<1>. QED
  BY <1>1, <1>3, ErrorHere DEF Parsing

\* Every step leaves nothing bad behind it, or stops at the first thing that is.
LEMMA ErrorStep == TextInv /\ ErrorInv /\ [Next]_vars => ErrorInv'
<1>. SUFFICES ASSUME TextInv, ErrorInv, [Next]_vars PROVE ErrorInv'
  OBVIOUS
<1>1. CASE UNCHANGED vars
  BY <1>1, ErrorSame
<1>. QED
  BY <1>1, ErrorArguments, ErrorDefaults, ErrorEndOfBins, ErrorReadEnvironment, ErrorEnvironmentPart,
     ErrorEndOfEnvironment, ErrorOpenConfig, ErrorParserStep, ErrorSyntax, ErrorConfigured, ErrorHandler,
     ErrorScanMore, ErrorScanPart, ErrorEndOfParts, ErrorOtherKey
  DEF Next, Handler, HandlerStep, Stopped

LEMMA ErrorAlways == Spec => []ErrorInv
<1>1. Init => ErrorInv
  <2>. SUFFICES ASSUME Init PROVE ErrorInv
    OBVIOUS
  <2>1. pc = "args" /\ next = 0 /\ operands = FALSE /\ input \in Inputs
    BY DEF Init
  <2>2. 0 <= Len(input.args)
    BY <2>1, InputIs
  <2>. QED
    BY <2>1, <2>2 DEF ErrorInv, ArgumentsInv, DirsInv, LinesInv, ExitInv, Parsing
<1>. QED
  BY <1>1, ErrorStep, TextAlways, PTL DEF Spec

\* A bad option, directory or configuration always ends the program before it
\* looks at any file: at the first line that is bad, and unless the error is about
\* a path, the message has the number of that line.
THEOREM AlwaysStopsAtFirstError == Spec => []StopsAtFirstError
BY FirstErrorIs, ErrorAlways, TextAlways, PTL
-----------------------------------------------------------------------------
(* Lists of directories.                                                   *)

\* g[n] is the first n of seqs, one after the other.
Flattening(seqs, g, n) == \A i \in 1..n : g[i] = IF i = 1 THEN seqs[i] ELSE g[i - 1] \o seqs[i]

\* What FlattenSeq computes.  Its recursive function exists by induction: at a
\* least i where it did not, the one before it could be extended.
LEMMA FlattenedBy ==
  ASSUME NEW S, NEW seqs \in Seq(Seq(S)), Len(seqs) # 0
  PROVE  \E g \in [1..Len(seqs) -> Seq(S)] : Flattening(seqs, g, Len(seqs)) /\ FlattenSeq(seqs) = g[Len(seqs)]
<1>. DEFINE Good(g, n) == \A i \in 1..n : g[i] = IF i = 1 THEN seqs[i] ELSE g[i - 1] \o seqs[i]
            Bad == {n \in 1..Len(seqs) : ~ \E g \in [1..n -> Seq(S)] : Good(g, n)}
<1>1. Len(seqs) \in Nat \ {0} /\ \A i \in 1..Len(seqs) : seqs[i] \in Seq(S)
  OBVIOUS
<1>2. Bad = {}
  <2>. SUFFICES ASSUME Bad # {} PROVE FALSE
    OBVIOUS
  <2>1. PICK n \in Bad : \A j \in Bad : n <= j
    <3>1. Bad \in SUBSET Nat
      BY <1>1
    <3>. HIDE DEF Bad
    <3>. QED
      BY <3>1, LeastElement
  <2>2. n \in 1..Len(seqs) /\ ~ \E g \in [1..n -> Seq(S)] : Good(g, n)
    OBVIOUS
  <2>3. CASE n = 1
    <3>1. [i \in 1..1 |-> seqs[i]] \in [1..1 -> Seq(S)]
      BY <1>1
    <3>2. Good([i \in 1..1 |-> seqs[i]], 1)
      OBVIOUS
    <3>. QED
      BY <2>2, <2>3, <3>1, <3>2
  <2>4. CASE n # 1
    <3>0. n - 1 \in 1..Len(seqs) /\ ~(n <= n - 1)
      BY <1>1, <2>2, <2>4
    <3>1. n - 1 \in 1..Len(seqs) /\ n - 1 \notin Bad
      BY <2>1, <3>0, Zenon
    <3>2. PICK g \in [1..(n - 1) -> Seq(S)] : Good(g, n - 1)
      BY <3>1
    <3>. DEFINE h == [i \in 1..n |-> IF i = n THEN g[n - 1] \o seqs[n] ELSE g[i]]
    <3>3. g[n - 1] \in Seq(S) /\ seqs[n] \in Seq(S)
      BY <1>1, <2>2, <3>1
    <3>4. g[n - 1] \o seqs[n] \in Seq(S)
      BY <3>3, ConcatProperties
    <3>5. h \in [1..n -> Seq(S)]
      BY <1>1, <2>2, <3>4
    <3>6. ASSUME NEW i \in 1..n
          PROVE  h[i] = IF i = 1 THEN seqs[i] ELSE h[i - 1] \o seqs[i]
      <4>1. CASE i = n
        <5>1. n \in 1..n /\ n - 1 \in 1..n /\ n - 1 # n
          BY <1>1, <2>2, <2>4
        <5>2. h[n] = g[n - 1] \o seqs[n] /\ h[n - 1] = g[n - 1]
          BY <5>1
        <5>. QED
          BY <2>4, <4>1, <5>2
      <4>2. CASE i # n
        <5>1. i \in 1..(n - 1) /\ h[i] = g[i]
          BY <1>1, <2>2, <4>2
        <5>2. i # 1 => i - 1 \in 1..n /\ i - 1 # n /\ h[i - 1] = g[i - 1]
          BY <1>1, <2>2, <5>1
        <5>. QED
          BY <3>2, <5>1, <5>2
      <4>. QED
        BY <4>1, <4>2
    <3>7. Good(h, n)
      BY <3>6
    <3>. QED
      BY <2>2, <3>5, <3>7
  <2>. QED
    BY <2>3, <2>4
<1>3. PICK g \in [1..Len(seqs) -> Seq(S)] : Good(g, Len(seqs))
  <2>1. Len(seqs) \in 1..Len(seqs)
    BY <1>1
  <2>2. Len(seqs) \notin Bad
    BY <1>2, Zenon
  <2>. QED
    BY <2>1, <2>2
<1>. DEFINE flatten[i \in 1..Len(seqs)] == IF i = 1 THEN seqs[i] ELSE flatten[i - 1] \o seqs[i]
<1>4. g = [i \in 1..Len(seqs) |-> IF i = 1 THEN seqs[i] ELSE g[i - 1] \o seqs[i]]
  <2>1. PICK I : I = 1..Len(seqs)
    OBVIOUS
  <2>2. PICK h : h = [i \in I |-> IF i = 1 THEN seqs[i] ELSE g[i - 1] \o seqs[i]]
    OBVIOUS
  <2>3. \A i \in I : h[i] = g[i]
    BY <1>3, <2>1, <2>2
  <2>4. g = h
    <3>1. g = [i \in I |-> g[i]]
      BY <1>3, <2>1
    <3>2. h = [i \in I |-> h[i]]
      BY <2>2
    <3>. QED
      BY <2>3, <3>1, <3>2
  <2>. QED
    BY <2>1, <2>2, <2>4
<1>5. flatten = [i \in 1..Len(seqs) |-> IF i = 1 THEN seqs[i] ELSE flatten[i - 1] \o seqs[i]]
  BY <1>4
<1>6. FlattenSeq(seqs) = flatten[Len(seqs)]
  BY DEF FlattenSeq
<1>. HIDE DEF flatten
<1>. DEFINE Wrong == {i \in 1..Len(seqs) : flatten[i] \notin Seq(S)}
<1>7. Wrong = {}
  <2>. SUFFICES ASSUME Wrong # {} PROVE FALSE
    OBVIOUS
  <2>1. PICK n \in Wrong : \A j \in Wrong : n <= j
    <3>1. Wrong \in SUBSET Nat
      BY <1>1
    <3>. HIDE DEF Wrong
    <3>. QED
      BY <3>1, LeastElement
  <2>2. n # 1
    BY <1>1, <1>5
  <2>3. n - 1 \in 1..Len(seqs) /\ n - 1 \notin Wrong
    BY <1>1, <2>1, <2>2
  <2>4. flatten[n - 1] \in Seq(S) /\ seqs[n] \in Seq(S)
    BY <1>1, <2>3
  <2>5. flatten[n] = flatten[n - 1] \o seqs[n]
    BY <1>5, <2>2
  <2>6. flatten[n - 1] \o seqs[n] \in Seq(S)
    BY <2>4, ConcatProperties
  <2>. QED
    BY <2>5, <2>6
<1>8. flatten \in [1..Len(seqs) -> Seq(S)]
  BY <1>5, <1>7
<1>9. Flattening(seqs, flatten, Len(seqs))
  BY <1>5 DEF Flattening
<1>. QED
  BY <1>6, <1>8, <1>9

LEMMA FlattenedNone == ASSUME NEW seqs, Len(seqs) = 0 PROVE FlattenSeq(seqs) = seqs
BY DEF FlattenSeq

LEMMA Flattened ==
  ASSUME NEW S, NEW seqs \in Seq(Seq(S))
  PROVE  FlattenSeq(seqs) \in Seq(S)
<1>1. CASE Len(seqs) = 0
  <2>1. seqs = << >>
    BY <1>1
  <2>2. FlattenSeq(seqs) = seqs
    BY <1>1, FlattenedNone, Zenon
  <2>3. << >> \in Seq(S)
    OBVIOUS
  <2>. QED
    BY <2>1, <2>2, <2>3, Zenon
<1>2. CASE Len(seqs) # 0
  <2>1. PICK g \in [1..Len(seqs) -> Seq(S)] : FlattenSeq(seqs) = g[Len(seqs)]
    BY <1>2, FlattenedBy
  <2>2. Len(seqs) \in 1..Len(seqs)
    BY <1>2
  <2>. QED
    BY <2>1, <2>2
<1>. QED
  BY <1>1, <1>2

\* One more sequence behind those that were flattened.
LEMMA FlattenedMore ==
  ASSUME NEW S, NEW seqs \in Seq(Seq(S)), NEW last \in Seq(S)
  PROVE  FlattenSeq(Append(seqs, last)) = FlattenSeq(seqs) \o last
<1>. DEFINE more == Append(seqs, last)
<1>1. PICK n \in Nat : n = Len(seqs)
  OBVIOUS
<1>2. /\ more \in Seq(Seq(S)) /\ Len(more) = n + 1 /\ more[n + 1] = last /\ \A i \in 1..n : more[i] = seqs[i]
  BY <1>1
<1>. HIDE DEF more
<1>3. PICK h \in [1..(n + 1) -> Seq(S)] : Flattening(more, h, n + 1) /\ FlattenSeq(more) = h[n + 1]
  <2>1. Len(more) # 0
    BY <1>2
  <2>2. \E h \in [1..Len(more) -> Seq(S)] : Flattening(more, h, Len(more)) /\ FlattenSeq(more) = h[Len(more)]
    BY <1>2, <2>1, FlattenedBy
  <2>. QED
    BY <1>2, <2>2
<1>4. CASE n = 0
  <2>1. seqs = << >> /\ FlattenSeq(seqs) = seqs
    <3>1. Len(seqs) = 0
      BY <1>1, <1>4
    <3>2. FlattenSeq(seqs) = seqs
      BY <3>1, FlattenedNone, Zenon
    <3>. QED
      BY <3>1, <3>2
  <2>2. h[1] = last
    BY <1>2, <1>3, <1>4 DEF Flattening
  <2>3. << >> \o last = last
    OBVIOUS
  <2>4. FlattenSeq(more) = last
    BY <1>3, <1>4, <2>2
  <2>. QED
    BY <2>1, <2>3, <2>4, Zenon DEF more
<1>5. CASE n # 0
  <2>1. PICK g \in [1..n -> Seq(S)] : Flattening(seqs, g, n) /\ FlattenSeq(seqs) = g[n]
    BY <1>1, <1>5, FlattenedBy
  <2>. DEFINE Wrong == {i \in 1..n : h[i] # g[i]}
  <2>2. Wrong = {}
    <3>. SUFFICES ASSUME Wrong # {} PROVE FALSE
      OBVIOUS
    <3>1. PICK i \in Wrong : \A j \in Wrong : i <= j
      <4>1. Wrong \in SUBSET Nat
        OBVIOUS
      <4>. HIDE DEF Wrong
      <4>. QED
        BY <4>1, LeastElement
    <3>2. i \in 1..n /\ i \in 1..(n + 1) /\ h[i] # g[i]
      OBVIOUS
    <3>3. h[i] = IF i = 1 THEN seqs[i] ELSE h[i - 1] \o seqs[i]
      BY <1>2, <1>3, <3>2 DEF Flattening
    <3>4. g[i] = IF i = 1 THEN seqs[i] ELSE g[i - 1] \o seqs[i]
      BY <2>1, <3>2 DEF Flattening
    <3>5. i # 1 => i - 1 \in 1..n /\ i - 1 \notin Wrong
      BY <3>1, <3>2
    <3>. QED
      BY <3>2, <3>3, <3>4, <3>5
  <2>3. n \in 1..n /\ n \notin Wrong
    <3>1. n \in 1..n
      BY <1>5
    <3>2. n \notin Wrong
      BY <2>2, Zenon
    <3>. QED
      BY <3>1, <3>2, Zenon
  <2>4. h[n + 1] = h[n] \o last
    <3>1. n + 1 \in 1..(n + 1) /\ n + 1 # 1 /\ (n + 1) - 1 = n
      BY <1>5
    <3>2. h[n + 1] = h[(n + 1) - 1] \o more[n + 1]
      BY <1>3, <3>1 DEF Flattening
    <3>. QED
      BY <1>2, <3>1, <3>2
  <2>5. h[n] = g[n]
    BY <2>3
  <2>6. FlattenSeq(more) = FlattenSeq(seqs) \o last
    BY <1>3, <2>1, <2>4, <2>5, Zenon
  <2>. QED
    BY <2>6 DEF more
<1>. QED
  BY <1>4, <1>5

\* What stands first of its inode among paths.
IsFirst(paths, i) ==
  /\ IsDir(paths[i])
  /\ \A j \in 1 .. i - 1 : IsDir(paths[j]) => At(paths[j]).inode # At(paths[i]).inode
Firsts(paths) == {i \in DOMAIN paths : IsFirst(paths, i)}
Named(paths, inode) == \E i \in 1 .. Len(paths) : IsDir(paths[i]) /\ At(paths[i]).inode = inode

LEMMA FirstDirsIs ==
  ASSUME NEW S, NEW paths \in Seq(S)
  PROVE  /\ Firsts(paths) \in SUBSET (0 .. Len(paths)) /\ Len(paths) \in Nat
         /\ FirstDirs(paths) \in Seq({Tail(At(p).path) : p \in S})
         /\ Len(FirstDirs(paths)) = Cardinality(Firsts(paths)) /\ Cardinality(Firsts(paths)) \in Nat
         /\ \A k \in 1 .. Cardinality(Firsts(paths)) : FirstDirs(paths)[k] = Tail(At(paths[Sorted(Firsts(paths))[k]]).path)
<1>0. PICK n \in Nat : n = Len(paths)
  OBVIOUS
<1>1. Firsts(paths) \in SUBSET (0 .. n) /\ Firsts(paths) \in SUBSET (1 .. n)
  BY <1>0 DEF Firsts
<1>2. PICK F \in SUBSET (0 .. n) : F = Firsts(paths)
  BY <1>1
<1>3. Cardinality(F) \in Nat /\ Sorted(F) \in Seq(F) /\ Len(Sorted(F)) = Cardinality(F)
  BY SortedIs, RankType
<1>4. PICK s \in Seq(F) : s = Sorted(F)
  BY <1>3
<1>5. FirstDirs(paths) = [k \in DOMAIN s |-> Tail(At(paths[s[k]]).path)]
  BY <1>2, <1>4 DEF FirstDirs, Firsts, IsFirst
<1>6. DOMAIN s = 1 .. Cardinality(F)
  BY <1>3, <1>4
<1>7. \A i \in F : paths[i] \in S
  BY <1>0, <1>1, <1>2
<1>8. \A k \in 1 .. Cardinality(F) : Tail(At(paths[s[k]]).path) \in {Tail(At(p).path) : p \in S}
  <2>1. ASSUME NEW k \in 1 .. Cardinality(F)
        PROVE  Tail(At(paths[s[k]]).path) \in {Tail(At(p).path) : p \in S}
    <3>1. s[k] \in F
      BY <1>3, <1>4
    <3>2. PICK p \in S : p = paths[s[k]]
      BY <1>7, <3>1
    <3>. QED
      BY <3>2
  <2>. QED
    BY <2>1
<1>9. PICK T : T = {Tail(At(p).path) : p \in S}
  OBVIOUS
<1>10. PICK f : f = FirstDirs(paths)
  OBVIOUS
<1>11. f \in [1 .. Cardinality(F) -> T] /\ \A k \in 1 .. Cardinality(F) : f[k] = Tail(At(paths[s[k]]).path)
  BY <1>5, <1>6, <1>8, <1>9, <1>10
<1>12. f \in Seq(T) /\ Len(f) = Cardinality(F)
  <2>1. PICK c \in Nat : c = Cardinality(F)
    BY <1>3
  <2>2. f \in [1 .. c -> T]
    BY <1>11, <2>1
  <2>. QED
    BY <2>1, <2>2
<1>. QED
  BY <1>0, <1>2, <1>3, <1>4, <1>9, <1>10, <1>11, <1>12

LEMMA FirstsMore ==
  ASSUME NEW S, NEW paths \in Seq(S), NEW p \in S
  PROVE  /\ IsDir(p) /\ ~Named(paths, At(p).inode) => Firsts(Append(paths, p)) = Firsts(paths) \cup {Len(paths) + 1}
         /\ ~(IsDir(p) /\ ~Named(paths, At(p).inode)) => Firsts(Append(paths, p)) = Firsts(paths)
<1>0. PICK n \in Nat : n = Len(paths)
  OBVIOUS
<1>1. PICK more : more = Append(paths, p)
  OBVIOUS
<1>2. DOMAIN more = 1 .. n + 1 /\ DOMAIN paths = 1 .. n /\ more[n + 1] = p /\ \A i \in 1 .. n : more[i] = paths[i]
  BY <1>0, <1>1
<1>3. ASSUME NEW i \in 1 .. n
      PROVE  IsFirst(more, i) <=> IsFirst(paths, i)
  <2>1. more[i] = paths[i] /\ \A j \in 1 .. i - 1 : more[j] = paths[j]
    BY <1>2
  <2>. QED
    BY <2>1 DEF IsFirst
<1>4. IsFirst(more, n + 1) <=> IsDir(p) /\ ~Named(paths, At(p).inode)
  <2>1. n + 1 - 1 = n
    OBVIOUS
  <2>2. \A j \in 1 .. n : more[j] = paths[j]
    BY <1>2
  <2>. QED
    BY <1>0, <1>2, <2>1, <2>2 DEF IsFirst, Named
<1>5. \A i \in 1 .. n + 1 : i \in 1 .. n \/ i = n + 1
  OBVIOUS
<1>6. n + 1 \in 1 .. n + 1 /\ \A i \in 1 .. n : i \in 1 .. n + 1
  OBVIOUS
<1>7. \A i : i \in Firsts(more) <=> i \in 1 .. n + 1 /\ IsFirst(more, i)
  BY <1>2 DEF Firsts
<1>8. \A i : i \in Firsts(paths) <=> i \in 1 .. n /\ IsFirst(paths, i)
  BY <1>2 DEF Firsts
<1>9. IsDir(p) /\ ~Named(paths, At(p).inode) => Firsts(more) = Firsts(paths) \cup {n + 1}
  BY <1>3, <1>4, <1>5, <1>6, <1>7, <1>8
<1>10. ~(IsDir(p) /\ ~Named(paths, At(p).inode)) => Firsts(more) = Firsts(paths)
  BY <1>3, <1>4, <1>5, <1>6, <1>7, <1>8
<1>. QED
  BY <1>0, <1>1, <1>9, <1>10

LEMMA FirstDirsMore ==
  ASSUME NEW S, NEW paths \in Seq(S), NEW p \in S
  PROVE  /\ IsDir(p) /\ ~Named(paths, At(p).inode) => FirstDirs(Append(paths, p)) = Append(FirstDirs(paths), Tail(At(p).path))
         /\ ~(IsDir(p) /\ ~Named(paths, At(p).inode)) => FirstDirs(Append(paths, p)) = FirstDirs(paths)
<1>0. PICK n \in Nat : n = Len(paths)
  OBVIOUS
<1>1. PICK more : more = Append(paths, p)
  OBVIOUS
<1>2. /\ more \in Seq(S) /\ DOMAIN more = 1 .. n + 1 /\ more[n + 1] = p /\ Len(more) = n + 1
      /\ \A i \in 1 .. n : more[i] = paths[i]
  BY <1>0, <1>1
<1>3. PICK T : T = {Tail(At(q).path) : q \in S}
  OBVIOUS
<1>4. PICK f : f = FirstDirs(paths)
  OBVIOUS
<1>5. PICK g : g = FirstDirs(more)
  OBVIOUS
<1>6. PICK F : F = Firsts(paths)
  OBVIOUS
<1>7. PICK G : G = Firsts(more)
  OBVIOUS
<1>8. PICK s : s = Sorted(F)
  OBVIOUS
<1>9. PICK t : t = Sorted(G)
  OBVIOUS
<1>10. PICK c : c = Cardinality(F)
  OBVIOUS
<1>11. /\ F \in SUBSET (0 .. n) /\ f \in Seq(T) /\ Len(f) = c /\ c \in Nat
       /\ \A k \in 1 .. c : f[k] = Tail(At(paths[s[k]]).path)
  BY <1>0, <1>3, <1>4, <1>6, <1>8, <1>10, FirstDirsIs
<1>12. /\ g \in Seq(T) /\ Len(g) = Cardinality(G)
       /\ \A k \in 1 .. Cardinality(G) : g[k] = Tail(At(more[t[k]]).path)
  BY <1>2, <1>3, <1>5, <1>7, <1>9, FirstDirsIs
<1>13. F \in SUBSET (1 .. n) /\ \A k \in 1 .. c : s[k] \in F
  <2>1. F \in SUBSET (1 .. n)
    BY <1>0, <1>6 DEF Firsts
  <2>. QED
    BY <1>8, <1>10, <1>11, <2>1, SortedIs
<1>14. \A k \in 1 .. c : more[s[k]] = paths[s[k]]
  BY <1>2, <1>13
<1>15. CASE IsDir(p) /\ ~Named(paths, At(p).inode)
  <2>1. G = F \cup {n + 1}
    BY <1>0, <1>1, <1>6, <1>7, <1>15, FirstsMore
  <2>2. \A j \in F : j < n + 1
    BY <1>13
  <2>3. PICK m \in Nat : m = n + 1
    OBVIOUS
  <2>4. Sorted(F \cup {m}) = Append(Sorted(F), m) /\ Cardinality(F \cup {m}) = Cardinality(F) + 1
    <3>1. \A j \in F : j < m
      BY <2>2, <2>3
    <3>. QED
      BY <1>11, <2>3, <3>1, SortedNew, RankNew
  <2>5. Cardinality(G) = c + 1 /\ t = Append(s, n + 1)
    BY <1>8, <1>9, <1>10, <2>1, <2>3, <2>4
  <2>6. s \in Seq(F) /\ Len(s) = c
    BY <1>8, <1>10, <1>11, SortedIs
  <2>7. t[c + 1] = n + 1 /\ \A k \in 1 .. c : t[k] = s[k]
    BY <2>5, <2>6
  <2>8. g[c + 1] = Tail(At(p).path)
    <3>1. c + 1 \in 1 .. Cardinality(G)
      BY <1>11, <2>5
    <3>. QED
      BY <1>2, <1>12, <2>7, <3>1
  <2>9. ASSUME NEW k \in 1 .. c
        PROVE  g[k] = f[k]
    <3>1. Cardinality(G) = c + 1 /\ c \in Nat
      BY <1>11, <2>5
    <3>2. k \in 1 .. Cardinality(G)
      BY <3>1
    <3>3. t[k] = s[k] /\ more[s[k]] = paths[s[k]]
      BY <1>14, <2>7
    <3>4. g[k] = Tail(At(more[t[k]]).path) /\ f[k] = Tail(At(paths[s[k]]).path)
      BY <1>11, <1>12, <3>2
    <3>. QED
      BY <3>3, <3>4
  <2>10. PICK x \in T : x = Tail(At(p).path)
    BY <1>3
  <2>11. Append(f, x) \in Seq(T) /\ Len(Append(f, x)) = c + 1 /\ Append(f, x)[c + 1] = x /\ \A k \in 1 .. c : Append(f, x)[k] = f[k]
    BY <1>11, AppendProperties
  <2>12. PICK h \in Seq(T) : h = Append(f, x)
    BY <2>11
  <2>13. Len(g) = Len(h) /\ \A k \in 1 .. Len(g) : g[k] = h[k]
    <3>1. Len(g) = c + 1 /\ Len(h) = c + 1
      BY <1>12, <2>5, <2>11, <2>12
    <3>2. ASSUME NEW k \in 1 .. c + 1
          PROVE  g[k] = h[k]
      <4>1. CASE k = c + 1
        BY <2>8, <2>10, <2>11, <2>12, <4>1
      <4>2. CASE k # c + 1
        <5>1. k \in 1 .. c
          BY <1>11, <4>2
        <5>. QED
          BY <2>9, <2>11, <2>12, <5>1
      <4>. QED
        BY <4>1, <4>2
    <3>. QED
      BY <3>1, <3>2
  <2>14. g = h
    BY <1>12, <2>13, SeqEqual
  <2>. QED
    BY <1>1, <1>4, <1>5, <1>15, <2>10, <2>12, <2>14
<1>16. CASE ~(IsDir(p) /\ ~Named(paths, At(p).inode))
  <2>1. G = F
    BY <1>1, <1>6, <1>7, <1>16, FirstsMore
  <2>2. t = s /\ Cardinality(G) = c
    BY <1>8, <1>9, <1>10, <2>1
  <2>4. ASSUME NEW k \in 1 .. c
        PROVE  g[k] = f[k]
    <3>1. g[k] = Tail(At(more[s[k]]).path)
      BY <1>12, <2>2
    <3>2. f[k] = Tail(At(paths[s[k]]).path)
      BY <1>11
    <3>. QED
      BY <1>14, <3>1, <3>2
  <2>5. Len(g) = Len(f) /\ \A k \in 1 .. Len(g) : g[k] = f[k]
    BY <1>11, <1>12, <2>2, <2>4
  <2>3. g = f
    BY <1>11, <1>12, <2>5, SeqEqual
  <2>. QED
    BY <1>1, <1>4, <1>5, <1>16, <2>3
<1>. QED
  BY <1>15, <1>16

\* What append() keeps of a directory.
Entry == {[path1 |-> Tail(At(p).path), inode |-> At(p).inode] : p \in DOMAIN RealPath}

\* A list of the directories among paths, each once.
Listed(list, paths) ==
  /\ list \in Seq(Entry)
  /\ Len(list) = Len(FirstDirs(paths)) /\ \A i \in 1 .. Len(list) : list[i].path1 = FirstDirs(paths)[i]
  /\ \A e : (\E i \in 1 .. Len(list) : list[i].inode = e) <=> Named(paths, e)

LEMMA NamedMore ==
  ASSUME NEW S, NEW paths \in Seq(S), NEW p \in S, NEW e
  PROVE  Named(Append(paths, p), e) <=> Named(paths, e) \/ (IsDir(p) /\ At(p).inode = e)
<1>0. PICK n \in Nat : n = Len(paths)
  OBVIOUS
<1>1. PICK more : more = Append(paths, p)
  OBVIOUS
<1>2. Len(more) = n + 1 /\ more[n + 1] = p /\ \A i \in 1 .. n : more[i] = paths[i]
  BY <1>0, <1>1
<1>3. \A i \in 1 .. n + 1 : i \in 1 .. n \/ i = n + 1
  OBVIOUS
<1>4. n + 1 \in 1 .. n + 1 /\ \A i \in 1 .. n : i \in 1 .. n + 1
  OBVIOUS
<1>5. Named(more, e) <=> \E i \in 1 .. n + 1 : IsDir(more[i]) /\ At(more[i]).inode = e
  BY <1>2 DEF Named
<1>6. Named(paths, e) <=> \E i \in 1 .. n : IsDir(paths[i]) /\ At(paths[i]).inode = e
  BY <1>0 DEF Named
<1>. QED
  BY <1>1, <1>2, <1>3, <1>4, <1>5, <1>6

LEMMA ListedNone == Listed(<< >>, << >>)
<1>1. Firsts(<< >>) = {}
  BY DEF Firsts
<1>2. Cardinality({}) = 0
  BY FS_EmptySet
<1>3. Len(FirstDirs(<< >>)) = 0
  <2>1. << >> \in Seq(Nat)
    OBVIOUS
  <2>. QED
    BY <1>1, <1>2, <2>1, FirstDirsIs
<1>4. << >> \in Seq(Entry) /\ Len(<< >>) = 0
  OBVIOUS
<1>5. \A e : ~Named(<< >>, e)
  BY <1>4 DEF Named
<1>. QED
  BY <1>3, <1>4, <1>5 DEF Listed

\* append() after append().
LEMMA ListedMore ==
  ASSUME NEW list, NEW paths \in Seq(Seq(Char)), NEW p \in Seq(Char), Listed(list, paths)
  PROVE  Listed(Appended(list, p), Append(paths, p))
<1>0. PICK l \in Nat : l = Len(list)
  BY DEF Listed
<1>1. PICK more : more = Append(paths, p)
  OBVIOUS
<1>2. PICK longer : longer = Appended(list, p)
  OBVIOUS
<1>3. PICK f : f = FirstDirs(paths)
  OBVIOUS
<1>4. PICK g : g = FirstDirs(more)
  OBVIOUS
<1>5. PICK T : T = {Tail(At(q).path) : q \in Seq(Char)}
  OBVIOUS
<1>6. f \in Seq(T)
  BY <1>3, <1>5, FirstDirsIs
<1>7. /\ list \in Seq(Entry) /\ Len(f) = l /\ \A i \in 1 .. l : list[i].path1 = f[i]
      /\ \A e : (\E i \in 1 .. l : list[i].inode = e) <=> Named(paths, e)
  BY <1>0, <1>3 DEF Listed
<1>8. DOMAIN list = 1 .. l
  BY <1>0, <1>7
<1>9. \A e : Named(more, e) <=> Named(paths, e) \/ (IsDir(p) /\ At(p).inode = e)
  BY <1>1, NamedMore
<1>10. CASE IsDir(p) /\ ~Named(paths, At(p).inode)
  <2>1. PICK x \in T : x = Tail(At(p).path)
    BY <1>5
  <2>2. PICK d : d = [path1 |-> Tail(At(p).path), inode |-> At(p).inode]
    OBVIOUS
  <2>3. longer = Append(list, d)
    <3>1. ~ \E i \in DOMAIN list : list[i].inode = At(p).inode
      BY <1>7, <1>8, <1>10
    <3>. QED
      BY <1>2, <1>10, <2>2, <3>1 DEF Appended, IsDir
  <2>4. d \in Entry
    <3>1. p \in DOMAIN RealPath
      BY <1>10 DEF IsDir, At, Missing
    <3>. QED
      BY <2>2, <3>1 DEF Entry
  <2>5. /\ longer \in Seq(Entry) /\ Len(longer) = l + 1 /\ longer[l + 1] = d
        /\ \A i \in 1 .. l : longer[i] = list[i]
    BY <1>0, <1>7, <2>3, <2>4, AppendProperties
  <2>6. g = Append(f, x)
    BY <1>1, <1>3, <1>4, <1>10, <2>1, FirstDirsMore
  <2>7. Len(g) = l + 1 /\ g[l + 1] = x /\ \A i \in 1 .. l : g[i] = f[i]
    BY <1>6, <1>7, <2>6, AppendProperties
  <2>8. \A i \in 1 .. l + 1 : i \in 1 .. l \/ i = l + 1
    OBVIOUS
  <2>9. l + 1 \in 1 .. l + 1 /\ \A i \in 1 .. l : i \in 1 .. l + 1
    OBVIOUS
  <2>10. d.path1 = x /\ d.inode = At(p).inode
    BY <2>1, <2>2
  <2>11. \A i \in 1 .. l + 1 : longer[i].path1 = g[i]
    BY <1>7, <2>5, <2>7, <2>8, <2>10
  <2>12. ASSUME NEW e
         PROVE  (\E i \in 1 .. l + 1 : longer[i].inode = e) <=> Named(more, e)
    <3>1. (\E i \in 1 .. l + 1 : longer[i].inode = e) <=> (\E i \in 1 .. l : list[i].inode = e) \/ d.inode = e
      BY <2>5, <2>8, <2>9
    <3>. QED
      BY <1>7, <1>9, <1>10, <2>10, <3>1
  <2>13. Listed(longer, more)
    BY <1>4, <2>5, <2>7, <2>11, <2>12 DEF Listed
  <2>. QED
    BY <1>1, <1>2, <2>13
<1>11. CASE ~(IsDir(p) /\ ~Named(paths, At(p).inode))
  <2>1. longer = list
    <3>1. ~IsDir(p) \/ \E i \in DOMAIN list : list[i].inode = At(p).inode
      BY <1>7, <1>8, <1>11
    <3>. QED
      BY <1>2, <3>1 DEF Appended, IsDir
  <2>2. g = f
    BY <1>1, <1>3, <1>4, <1>11, FirstDirsMore
  <2>3. \A e : Named(more, e) <=> Named(paths, e)
    BY <1>9, <1>11
  <2>4. Listed(longer, more)
    BY <1>0, <1>4, <1>7, <2>1, <2>2, <2>3 DEF Listed
  <2>. QED
    BY <1>1, <1>2, <2>4
<1>. QED
  BY <1>10, <1>11

LEMMA ListedIs ==
  ASSUME NEW list, NEW paths \in Seq(Seq(Char)), Listed(list, paths)
  PROVE  [i \in DOMAIN list |-> list[i].path1] = FirstDirs(paths)
<1>0. PICK l \in Nat : l = Len(list)
  BY DEF Listed
<1>1. PICK f : f = FirstDirs(paths)
  OBVIOUS
<1>2. PICK T : T = {Tail(At(q).path) : q \in Seq(Char)}
  OBVIOUS
<1>3. f \in Seq(T)
  BY <1>1, <1>2, FirstDirsIs
<1>4. list \in Seq(Entry) /\ Len(f) = l /\ \A i \in 1 .. l : list[i].path1 = f[i]
  BY <1>0, <1>1 DEF Listed
<1>5. DOMAIN list = 1 .. l /\ f \in [1 .. l -> T]
  BY <1>0, <1>3, <1>4
<1>6. f = [i \in 1 .. l |-> f[i]]
  BY <1>5
<1>7. PICK h : h = [i \in DOMAIN list |-> list[i].path1]
  OBVIOUS
<1>8. h = [i \in 1 .. l |-> h[i]] /\ \A i \in 1 .. l : h[i] = f[i]
  BY <1>4, <1>5, <1>7
<1>. QED
  BY <1>1, <1>6, <1>7, <1>8

\* The first parts of a sequence.
LEMMA TakenMore ==
  ASSUME NEW S, NEW s \in Seq(S), NEW n \in 1 .. Len(s)
  PROVE  SubSeq(s, 1, n) = Append(SubSeq(s, 1, n - 1), s[n]) /\ SubSeq(s, 1, n - 1) \in Seq(S) /\ s[n] \in S
<1>0. PICK l \in Nat : l = Len(s)
  OBVIOUS
<1>1. s[n] \in S /\ 1 \in 1 .. Len(s) /\ n \in Int /\ n - 1 \in Int /\ 1 \in Int
  BY <1>0
<1>2. \A i \in 1 .. n - 1 : s[i] \in S
  BY <1>0
<1>3. SubSeq(s, 1, n - 1) \in Seq(S)
  BY <1>1, <1>2, SubSeqProperties
<1>4. SubSeq(s, 1, n) = SubSeq(s, 1, n - 1) \o <<s[n]>>
  BY <1>1, SubSeqRecursiveSecond
<1>5. PICK t \in Seq(S) : t = SubSeq(s, 1, n - 1)
  BY <1>3
<1>6. Append(t, s[n]) = t \o <<s[n]>>
  BY <1>1, AppendIsConcat
<1>. QED
  BY <1>1, <1>3, <1>4, <1>5, <1>6

LEMMA TakenNone == ASSUME NEW s PROVE SubSeq(s, 1, 0) = << >>
BY SubSeqEmpty

LEMMA AppendBehind ==
  ASSUME NEW S, NEW s \in Seq(S), NEW t \in Seq(S), NEW e \in S
  PROVE  s \o Append(t, e) = Append(s \o t, e) /\ s \o t \in Seq(S)
<1>1. <<e>> \in Seq(S)
  OBVIOUS
<1>2. Append(t, e) = t \o <<e>>
  BY AppendIsConcat
<1>3. (s \o t) \o <<e>> = s \o (t \o <<e>>)
  BY <1>1, ConcatAssociative
<1>4. PICK u \in Seq(S) : u = s \o t
  BY ConcatProperties
<1>5. Append(u, e) = u \o <<e>>
  BY AppendIsConcat
<1>. QED
  BY <1>2, <1>3, <1>4, <1>5

\* The words of some lines.
WordsIn(n) == Words(ValueOf(n), Blanks)

LEMMA WordsOfNone == WordsOf({}) = << >>
<1>1. PICK s : s = Sorted({})
  OBVIOUS
<1>2. s = << >>
  BY <1>1, SortedNone
<1>3. WordsOf({}) = FlattenSeq([i \in DOMAIN s |-> Words(ValueOf(s[i]), Blanks)])
  BY <1>1 DEF WordsOf
<1>4. PICK w : w = [i \in DOMAIN s |-> Words(ValueOf(s[i]), Blanks)]
  OBVIOUS
<1>5. w \in [1 .. 0 -> Seq(Nat)] /\ w = << >>
  <2>1. DOMAIN s = {} /\ 1 .. 0 = {}
    BY <1>2
  <2>2. w \in [1 .. 0 -> Seq(Nat)]
    BY <1>4, <2>1
  <2>3. w \in Seq(Seq(Nat)) /\ Len(w) = 0
    BY <2>2
  <2>4. w = << >>
    BY <2>3, EmptySeq
  <2>. QED
    BY <2>2, <2>4
<1>6. Len(w) = 0
  BY <1>5
<1>7. FlattenSeq(w) = w
  BY <1>6, FlattenedNone
<1>. QED
  BY <1>3, <1>4, <1>5, <1>7

LEMMA WordsOfMore ==
  ASSUME TextInv, HasFile, NEW nos \in SUBSET SettingNos
  PROVE  /\ WordsOf(nos) \in Seq(Seq(Char))
         /\ \A n \in SettingNos : WordsIn(n) \in Seq(Seq(Char))
         /\ \A n \in SettingNos : (\A j \in nos : j < n) => WordsOf(nos \cup {n}) = WordsOf(nos) \o WordsIn(n)
<1>0. PICK m \in Nat : m = Len(Pieces(File, {"\n"}))
  BY LinesType
<1>1. SettingNos \in SUBSET (0 .. m) /\ SettingNos \in SUBSET LineNos
  BY <1>0, LinesType DEF SettingNos
<1>2. \A n \in SettingNos : WordsIn(n) \in Seq(Seq(Char))
  <2>1. ASSUME NEW n \in SettingNos
        PROVE  WordsIn(n) \in Seq(Seq(Char))
    <3>1. ValueOf(n) \in Seq(Char)
      BY LinesType DEF Solids
    <3>2. PICK v \in Seq(Char) : v = ValueOf(n)
      BY <3>1
    <3>3. Words(v, Blanks) \in Seq(Seq(Char))
      BY WordsType
    <3>. QED
      BY <3>2, <3>3 DEF WordsIn
  <2>. QED
    BY <2>1
<1>3. PICK A : A = Seq(Seq(Char))
  OBVIOUS
<1>. DEFINE lists0(S) == [i \in DOMAIN Sorted(S) |-> WordsIn(Sorted(S)[i])]
<1>4. ASSUME NEW S \in SUBSET SettingNos
      PROVE  /\ lists0(S) \in Seq(A) /\ WordsOf(S) = FlattenSeq(lists0(S)) /\ DOMAIN Sorted(S) = 1 .. Cardinality(S)
             /\ Cardinality(S) \in Nat /\ Len(lists0(S)) = Cardinality(S) /\ Sorted(S) \in Seq(S)
             /\ Len(Sorted(S)) = Cardinality(S) /\ \A i \in 1 .. Cardinality(S) : lists0(S)[i] = WordsIn(Sorted(S)[i])
  <2>1. S \in SUBSET (0 .. m)
    BY <1>1
  <2>2. Sorted(S) \in Seq(S) /\ Len(Sorted(S)) = Cardinality(S) /\ Cardinality(S) \in Nat
    BY <2>1, SortedIs, RankType
  <2>3. PICK s \in Seq(S) : s = Sorted(S)
    BY <2>2
  <2>4. PICK c \in Nat : c = Cardinality(S)
    BY <2>2
  <2>5. DOMAIN s = 1 .. c /\ Len(s) = c /\ \A i \in 1 .. c : s[i] \in S
    BY <2>2, <2>3, <2>4
  <2>6. \A i \in 1 .. c : WordsIn(s[i]) \in A
    BY <1>2, <1>3, <2>5
  <2>7. PICK w : w = [i \in DOMAIN s |-> WordsIn(s[i])]
    OBVIOUS
  <2>8. w \in [1 .. c -> A] /\ \A i \in 1 .. c : w[i] = WordsIn(s[i])
    BY <2>5, <2>6, <2>7
  <2>9. w \in Seq(A) /\ Len(w) = c
    BY <2>8
  <2>10. WordsOf(S) = FlattenSeq(w)
    BY <2>3, <2>7 DEF WordsOf, WordsIn
  <2>. QED
    BY <2>2, <2>3, <2>4, <2>5, <2>7, <2>8, <2>9, <2>10
<1>5. WordsOf(nos) \in Seq(Seq(Char))
  <2>1. PICK w : w = lists0(nos)
    OBVIOUS
  <2>2. w \in Seq(Seq(Seq(Char))) /\ WordsOf(nos) = FlattenSeq(w)
    BY <1>3, <1>4, <2>1
  <2>3. PICK B : B = Seq(Char)
    OBVIOUS
  <2>4. FlattenSeq(w) \in Seq(B)
    BY <2>2, <2>3, Flattened
  <2>. QED
    BY <2>2, <2>3, <2>4
<1>6. ASSUME NEW n \in SettingNos, \A j \in nos : j < n
      PROVE  WordsOf(nos \cup {n}) = WordsOf(nos) \o WordsIn(n)
  <2>1. PICK T \in SUBSET SettingNos : T = nos \cup {n}
    OBVIOUS
  <2>2. nos \in SUBSET (0 .. m) /\ n \in Nat
    BY <1>1
  <2>3. Sorted(T) = Append(Sorted(nos), n) /\ Cardinality(T) = Cardinality(nos) + 1
    BY <1>6, <2>1, <2>2, SortedNew, RankNew
  <2>4. PICK v : v = lists0(nos)
    OBVIOUS
  <2>5. PICK w : w = lists0(T)
    OBVIOUS
  <2>6. PICK c \in Nat : c = Cardinality(nos)
    BY <1>4
  <2>7. PICK s \in Seq(nos) : s = Sorted(nos)
    BY <1>4
  <2>8. PICK t : t = Sorted(T)
    OBVIOUS
  <2>9. /\ v \in Seq(A) /\ Len(v) = c /\ WordsOf(nos) = FlattenSeq(v) /\ Len(s) = c
        /\ \A i \in 1 .. c : v[i] = WordsIn(s[i])
    BY <1>4, <2>4, <2>6, <2>7
  <2>10. /\ w \in Seq(A) /\ Len(w) = c + 1 /\ WordsOf(T) = FlattenSeq(w)
         /\ \A i \in 1 .. c + 1 : w[i] = WordsIn(t[i])
    BY <1>4, <2>3, <2>5, <2>6, <2>8
  <2>11. t[c + 1] = n /\ \A i \in 1 .. c : t[i] = s[i]
    BY <2>3, <2>7, <2>8, <2>9
  <2>12. PICK x \in A : x = WordsIn(n)
    BY <1>2, <1>3
  <2>13. /\ Append(v, x) \in Seq(A) /\ Len(Append(v, x)) = c + 1 /\ Append(v, x)[c + 1] = x
         /\ \A i \in 1 .. c : Append(v, x)[i] = v[i]
    BY <2>9, AppendProperties
  <2>14. PICK u \in Seq(A) : u = Append(v, x)
    BY <2>13
  <2>15. \A i \in 1 .. c + 1 : i \in 1 .. c \/ i = c + 1
    OBVIOUS
  <2>16. c + 1 \in 1 .. c + 1 /\ \A i \in 1 .. c : i \in 1 .. c + 1
    OBVIOUS
  <2>17. \A i \in 1 .. c + 1 : w[i] = u[i]
    BY <2>9, <2>10, <2>11, <2>12, <2>13, <2>14, <2>15, <2>16
  <2>18. w = u
    BY <2>10, <2>13, <2>14, <2>17, SeqEqual
  <2>19. FlattenSeq(Append(v, x)) = FlattenSeq(v) \o x
    <3>1. PICK B : B = Seq(Char)
      OBVIOUS
    <3>2. v \in Seq(Seq(B)) /\ x \in Seq(B)
      BY <1>3, <2>9, <2>12, <3>1
    <3>. QED
      BY <3>2, FlattenedMore
  <2>. QED
    BY <2>1, <2>9, <2>10, <2>12, <2>14, <2>18, <2>19
<1>. QED
  BY <1>2, <1>5, <1>6

\* The paths that were read so far for a list.
Before(k, n) == WordsOf({m \in With(k) : m < n})
ConfigRead(k) ==
  IF pc = "parse" THEN Before(k, line.no)
  ELSE IF pc = "parts" THEN Before(k, line.no) \o (IF line.no \in With(k) THEN SubSeq(LineWords, 1, part.no - 1) ELSE << >>)
  ELSE IF pc = "configured" THEN Configuration(k)
  ELSE << >>
BinsRead ==
  IF pc = "args" THEN << >> ELSE IF pc = "bins" THEN SubSeq(DefaultBins, 1, next)
  ELSE DefaultBins \o ConfigRead("scanMoreBins")
LibsRead ==
  IF pc \in {"args", "bins"} THEN << >> ELSE IF pc = "libs" THEN SubSeq(DefaultLibs, 1, next) ELSE DefaultLibs
MoreRead ==
  IF pc \in {"args", "bins", "libs"} THEN << >>
  ELSE IF pc = "environment" THEN SubSeq(Environment, 1, part.no - 1)
  ELSE Environment \o ConfigRead("scanMoreLibs")

ListKeys == {"scanBins", "scanDefaultLibs", "scanMoreLibs"}
PathsRead(k) == IF k = "scanBins" THEN BinsRead ELSE IF k = "scanDefaultLibs" THEN LibsRead ELSE MoreRead

ListInv ==
  pc # "exit2" =>
    /\ lists \in [ListKeys -> Seq(Entry)]
    /\ \A k \in ListKeys : Listed(lists[k], PathsRead(k))

LEMMA BeforeSame ==
  ASSUME input' = input, NEW k, NEW l, line'.no = l
  PROVE  Before(k, line.no)' = Before(k, l)
<1>1. PICK S : S = {m \in With(k) : m < l}
  OBVIOUS
<1>2. PICK s : s = Sorted(S)
  OBVIOUS
<1>3. PICK f : f = [i \in DOMAIN s |-> Words(ValueOf(s[i]), Blanks)]
  OBVIOUS
<1>4. PICK g : g = [i \in DOMAIN s |-> Words(ValueOf(s[i])', Blanks)]
  OBVIOUS
<1>5. \A i \in DOMAIN s : f[i] = g[i]
  BY <1>3, <1>4, SameFile
<1>6. f = g
  <2>1. f = [i \in DOMAIN s |-> f[i]] /\ g = [i \in DOMAIN s |-> g[i]]
    BY <1>3, <1>4
  <2>. QED
    BY <1>5, <2>1
<1>7. {m \in With(k)' : m < line'.no} = S
  BY <1>1, SameFile
<1>8. Before(k, l) = FlattenSeq(f)
  BY <1>1, <1>2, <1>3 DEF Before, WordsOf
<1>9. Before(k, line.no)' = FlattenSeq(g)
  BY <1>2, <1>4, <1>7 DEF Before, WordsOf
<1>. QED
  BY <1>6, <1>8, <1>9

\* What was read are paths.
LEMMA BeforeType ==
  ASSUME TextInv, HasFile, NEW k, NEW l
  PROVE  Before(k, l) \in Seq(Seq(Char)) /\ Configuration(k) \in Seq(Seq(Char))
<1>1. {m \in With(k) : m < l} \in SUBSET SettingNos /\ With(k) \in SUBSET SettingNos
  BY DEF With
<1>2. WordsOf({m \in With(k) : m < l}) \in Seq(Seq(Char)) /\ WordsOf(With(k)) \in Seq(Seq(Char))
  BY <1>1, WordsOfMore
<1>. QED
  BY <1>2 DEF Before, Configuration

LEMMA ConfigurationType ==
  ASSUME TextInv, NEW k
  PROVE  Configuration(k) \in Seq(Seq(Char))
<1>1. CASE HasFile
  BY <1>1, BeforeType
<1>2. CASE ~HasFile
  BY <1>2 DEF Configuration
<1>. QED
  BY <1>1, <1>2

LEMMA DefaultsType ==
  ASSUME TextInv
  PROVE  /\ DefaultBins \in Seq(Seq(Char)) /\ DefaultLibs \in Seq(Seq(Char)) /\ Environment \in Seq(Seq(Char))
         /\ DefaultBins \o << >> = DefaultBins /\ Environment \o << >> = Environment
         /\ SubSeq(DefaultBins, 1, Len(DefaultBins)) = DefaultBins /\ SubSeq(DefaultLibs, 1, Len(DefaultLibs)) = DefaultLibs
         /\ SubSeq(Environment, 1, Len(Environment)) = Environment
<1>1. DefaultBins \in Seq(Seq(Char)) /\ DefaultLibs \in Seq(Seq(Char)) /\ Environment \in Seq(Seq(Char))
  BY StartIs, TextAssumption
<1>2. PICK s \in Seq(Seq(Char)) : s = Environment
  BY <1>1
<1>3. s \o << >> = s /\ SubSeq(s, 1, Len(s)) = s
  BY ConcatEmptySeq, SubSeqFull
<1>4. DefaultBins \o << >> = DefaultBins /\ SubSeq(DefaultBins, 1, Len(DefaultBins)) = DefaultBins
  BY <1>1, ConcatEmptySeq, SubSeqFull
<1>5. SubSeq(DefaultLibs, 1, Len(DefaultLibs)) = DefaultLibs
  BY <1>1, SubSeqFull
<1>. QED
  BY <1>1, <1>2, <1>3, <1>4, <1>5

\* The lists at the end.
LEMMA ListsAre ==
  ASSUME TextInv, ListInv
  PROVE  ListsExact
<1>. SUFFICES ASSUME pc = "configured"
              PROVE  /\ Paths("scanBins") = FirstDirs(DefaultBins \o Configuration("scanMoreBins"))
                     /\ Paths("scanDefaultLibs") = FirstDirs(DefaultLibs)
                     /\ Paths("scanMoreLibs") = FirstDirs(Environment \o Configuration("scanMoreLibs"))
  BY DEF ListsExact
<1>1. \A k \in ListKeys : Listed(lists[k], PathsRead(k))
  BY DEF ListInv
<1>2. /\ PathsRead("scanBins") = DefaultBins \o Configuration("scanMoreBins")
      /\ PathsRead("scanDefaultLibs") = DefaultLibs
      /\ PathsRead("scanMoreLibs") = Environment \o Configuration("scanMoreLibs")
  BY DEF PathsRead, BinsRead, LibsRead, MoreRead, ConfigRead
<1>3. \A k \in ListKeys : PathsRead(k) \in Seq(Seq(Char))
  <2>1. PICK a, b, c, d \in Seq(Seq(Char)) : /\ a = DefaultBins /\ b = Configuration("scanMoreBins")
                                             /\ c = Environment /\ d = Configuration("scanMoreLibs")
    BY ConfigurationType, DefaultsType
  <2>2. a \o b \in Seq(Seq(Char)) /\ c \o d \in Seq(Seq(Char))
    BY ConcatProperties
  <2>. QED
    BY <1>2, <2>1, <2>2, DefaultsType DEF ListKeys
<1>4. ASSUME NEW k \in ListKeys
      PROVE  Paths(k) = FirstDirs(PathsRead(k))
  <2>1. PICK q \in Seq(Seq(Char)) : q = PathsRead(k)
    BY <1>3
  <2>2. PICK t : t = lists[k]
    OBVIOUS
  <2>3. [i \in DOMAIN t |-> t[i].path1] = FirstDirs(q)
    BY <1>1, <2>1, <2>2, ListedIs
  <2>. QED
    BY <2>1, <2>2, <2>3 DEF Paths
<1>. QED
  BY <1>2, <1>4 DEF ListKeys

\* A step that appends nothing, and one that appends to a list.
LEMMA ListsKept ==
  ASSUME ListInv, pc # "exit2", lists' = lists, \A k \in ListKeys : PathsRead(k)' = PathsRead(k)
  PROVE  ListInv'
<1>1. \A k \in ListKeys : Listed(lists[k], PathsRead(k)')
  BY DEF ListInv
<1>2. \A k \in ListKeys : Listed(lists'[k], PathsRead(k)')
  BY <1>1
<1>. QED
  BY <1>2 DEF ListInv

LEMMA ListsAppend ==
  ASSUME ListInv, pc # "exit2", NEW k \in ListKeys, NEW p \in Seq(Char), AppendTo(k, p),
         NEW read, read = PathsRead(k), read \in Seq(Seq(Char)),
         PathsRead(k)' = Append(read, p), \A j \in ListKeys \ {k} : PathsRead(j)' = PathsRead(j)
  PROVE  ListInv'
<1>1. lists \in [ListKeys -> Seq(Entry)] /\ \A j \in ListKeys : Listed(lists[j], PathsRead(j))
  BY DEF ListInv
<1>2. PICK t : t = lists[k]
  OBVIOUS
<1>3. PICK u : u = Appended(t, p)
  OBVIOUS
<1>4. Listed(t, read)
  BY <1>1, <1>2
<1>5. Listed(u, Append(read, p))
  BY <1>3, <1>4, ListedMore
<1>6. u \in Seq(Entry)
  BY <1>5 DEF Listed
<1>7. lists' = [lists EXCEPT ![k] = u]
  BY <1>2, <1>3 DEF AppendTo
<1>8. lists' \in [ListKeys -> Seq(Entry)] /\ lists'[k] = u /\ \A j \in ListKeys \ {k} : lists'[j] = lists[j]
  BY <1>1, <1>6, <1>7
<1>9. \A j \in ListKeys : Listed(lists'[j], PathsRead(j)')
  <2>1. Listed(lists'[k], PathsRead(k)')
    BY <1>5, <1>8
  <2>2. ASSUME NEW j \in ListKeys \ {k}
        PROVE  Listed(lists'[j], PathsRead(j)')
    <3>1. lists'[j] = lists[j] /\ PathsRead(j)' = PathsRead(j)
      BY <1>8
    <3>2. Listed(lists[j], PathsRead(j))
      BY <1>1
    <3>. QED
      BY <3>1, <3>2
  <2>. QED
    BY <2>1, <2>2
<1>. QED
  BY <1>8, <1>9 DEF ListInv

\* Before the configuration file.
LEMMA ListsArguments ==
  ASSUME TextInv, ListInv, ReadArgument \/ EndOfArguments
  PROVE  ListInv'
<1>1. pc = "args" /\ (pc' = "exit2" \/ pc' = "args" \/ (pc' = "bins" /\ next' = 0))
      /\ (pc' # "exit2" => lists' = lists)
  BY DEF ReadArgument, EndOfArguments, Exit2, settingVars
<1>2. CASE pc' = "exit2"
  BY <1>2 DEF ListInv
<1>3. CASE pc' # "exit2"
  <2>1. BinsRead' = BinsRead /\ LibsRead' = LibsRead /\ MoreRead' = MoreRead
    <3>1. SubSeq(DefaultBins, 1, 0) = << >>
      BY TakenNone
    <3>. QED
      BY <1>1, <1>3, <3>1 DEF BinsRead, LibsRead, MoreRead
  <2>2. \A k \in ListKeys : PathsRead(k)' = PathsRead(k)
    BY <2>1 DEF PathsRead
  <2>. QED
    BY <1>1, <1>3, <2>2, ListsKept
<1>. QED
  BY <1>2, <1>3

LEMMA ListsDefaultBin ==
  ASSUME TextInv, ErrorInv, ListInv, AppendDefaultBin
  PROVE  ListInv'
<1>1. pc = "bins" /\ AppendDefault(DefaultBins, "scanBins") /\ next \in Nat
  BY DEF AppendDefaultBin, ErrorInv, ArgumentsInv
<1>0. Len(DefaultBins) \in Nat
  BY StartIs
<1>2. PICK n \in Nat : n = Len(DefaultBins)
  BY <1>0
<1>3. PICK m \in 1 .. n : m = next + 1
  BY <1>1, <1>2 DEF AppendDefault
<1>4. CASE pc' = "exit2"
  BY <1>4 DEF ListInv
<1>5. CASE pc' # "exit2"
  <2>1. pc' = pc /\ next' = m /\ AppendTo("scanBins", DefaultBins[m])
    BY <1>1, <1>3, <1>5 DEF AppendDefault, Exit2
  <2>2. PICK read : read = SubSeq(DefaultBins, 1, m - 1)
    OBVIOUS
  <2>3. m - 1 = next
    BY <1>1, <1>3
  <2>4. PICK p \in Seq(Char) : p = DefaultBins[m]
    BY <1>2, TextAssumption
  <2>5. SubSeq(DefaultBins, 1, m) = Append(read, p) /\ read \in Seq(Seq(Char))
    BY <1>2, <2>2, <2>4, TextAssumption, TakenMore
  <2>6. BinsRead = read /\ BinsRead' = Append(read, p) /\ LibsRead' = LibsRead /\ MoreRead' = MoreRead
    BY <1>1, <2>1, <2>2, <2>3, <2>5 DEF BinsRead, LibsRead, MoreRead
  <2>7. PICK k \in ListKeys : k = "scanBins"
    BY DEF ListKeys
  <2>8. PathsRead(k) = read /\ PathsRead(k)' = Append(read, p) /\ \A j \in ListKeys \ {k} : PathsRead(j)' = PathsRead(j)
    BY <2>6, <2>7 DEF PathsRead, ListKeys
  <2>9. AppendTo(k, p) /\ pc # "exit2"
    BY <1>1, <2>1, <2>4, <2>7
  <2>. QED
    BY <2>5, <2>8, <2>9, ListsAppend
<1>. QED
  BY <1>4, <1>5

LEMMA ListsDefaultLib ==
  ASSUME TextInv, ErrorInv, ListInv, AppendDefaultLib
  PROVE  ListInv'
<1>1. pc = "libs" /\ AppendDefault(DefaultLibs, "scanDefaultLibs") /\ next \in Nat
  BY DEF AppendDefaultLib, ErrorInv, ArgumentsInv
<1>0. Len(DefaultLibs) \in Nat
  BY StartIs
<1>2. PICK n \in Nat : n = Len(DefaultLibs)
  BY <1>0
<1>3. PICK m \in 1 .. n : m = next + 1
  BY <1>1, <1>2 DEF AppendDefault
<1>4. CASE pc' = "exit2"
  BY <1>4 DEF ListInv
<1>5. CASE pc' # "exit2"
  <2>1. pc' = pc /\ next' = m /\ AppendTo("scanDefaultLibs", DefaultLibs[m])
    BY <1>1, <1>3, <1>5 DEF AppendDefault, Exit2
  <2>2. PICK read : read = SubSeq(DefaultLibs, 1, m - 1)
    OBVIOUS
  <2>3. m - 1 = next
    BY <1>1, <1>3
  <2>4. PICK p \in Seq(Char) : p = DefaultLibs[m]
    BY <1>2, TextAssumption
  <2>5. SubSeq(DefaultLibs, 1, m) = Append(read, p) /\ read \in Seq(Seq(Char))
    BY <1>2, <2>2, <2>4, TextAssumption, TakenMore
  <2>6. LibsRead = read /\ LibsRead' = Append(read, p) /\ BinsRead' = BinsRead /\ MoreRead' = MoreRead
    BY <1>1, <2>1, <2>2, <2>3, <2>5 DEF BinsRead, LibsRead, MoreRead, ConfigRead
  <2>7. PICK k \in ListKeys : k = "scanDefaultLibs"
    BY DEF ListKeys
  <2>8. PathsRead(k) = read /\ PathsRead(k)' = Append(read, p) /\ \A j \in ListKeys \ {k} : PathsRead(j)' = PathsRead(j)
    BY <2>6, <2>7 DEF PathsRead, ListKeys
  <2>9. AppendTo(k, p) /\ pc # "exit2"
    BY <1>1, <2>1, <2>4, <2>7
  <2>. QED
    BY <2>5, <2>8, <2>9, ListsAppend
<1>. QED
  BY <1>4, <1>5

LEMMA ListsEndOfBins ==
  ASSUME TextInv, ListInv, EndOfBins
  PROVE  ListInv'
<1>1. pc = "bins" /\ next = Len(DefaultBins) /\ pc' = "libs" /\ next' = 0 /\ lists' = lists
  BY DEF EndOfBins, settingVars
<1>2. BinsRead' = BinsRead /\ LibsRead' = LibsRead /\ MoreRead' = MoreRead
  <2>1. SubSeq(DefaultLibs, 1, 0) = << >>
    BY TakenNone
  <2>. QED
    BY <1>1, <2>1, DefaultsType DEF BinsRead, LibsRead, MoreRead, ConfigRead
<1>3. \A k \in ListKeys : PathsRead(k)' = PathsRead(k)
  BY <1>2 DEF PathsRead
<1>. QED
  BY <1>1, <1>3, ListsKept

LEMMA ListsReadEnvironment ==
  ASSUME TextInv, ListInv, ReadEnvironment
  PROVE  ListInv'
<1>1. pc = "libs" /\ next = Len(DefaultLibs) /\ input' = input /\ lists' = lists /\ Environment' = Environment
  BY SameFile DEF ReadEnvironment, settingVars
<1>2. \/ pc' = "open" /\ Environment = << >>
      \/ pc' = "environment" /\ part'.no = 1
  <2>1. CASE input.libraryPath = Absent
    BY <2>1 DEF ReadEnvironment, Environment
  <2>2. CASE input.libraryPath # Absent
    <3>1. pc' = "environment"
      BY <2>2 DEF ReadEnvironment
    <3>. QED
      BY <3>1, TextReadEnvironment
  <2>. QED
    BY <2>1, <2>2
<1>3. BinsRead' = BinsRead /\ LibsRead' = LibsRead
  BY <1>1, <1>2, DefaultsType DEF BinsRead, LibsRead, ConfigRead
<1>4. MoreRead' = MoreRead
  <2>1. CASE pc' = "open" /\ Environment = << >>
    <3>1. Environment \o << >> = Environment
      BY DefaultsType
    <3>. QED
      BY <1>1, <2>1, <3>1 DEF MoreRead, ConfigRead
  <2>2. CASE pc' = "environment" /\ part'.no = 1
    <3>1. SubSeq(Environment, 1, 0) = << >>
      BY TakenNone
    <3>. QED
      BY <1>1, <2>2, <3>1 DEF MoreRead
  <2>. QED
    BY <1>2, <2>1, <2>2
<1>5. \A k \in ListKeys : PathsRead(k)' = PathsRead(k)
  BY <1>3, <1>4 DEF PathsRead
<1>. QED
  BY <1>1, <1>5, ListsKept

LEMMA ListsEnvironmentPart ==
  ASSUME TextInv, ListInv, EnvironmentPart
  PROVE  ListInv'
<1>1. pc = "environment" /\ ~IsEnd(EnvironmentParts(buf), part) /\ input' = input
  BY DEF EnvironmentPart, PartsOf, Exit2
<1>2. CASE pc' = "exit2"
  BY <1>2 DEF ListInv
<1>3. CASE pc' # "exit2"
  <2>1. pc' = pc /\ AppendTo("scanMoreLibs", CString(buf, part.begin))
    BY <1>1, <1>3 DEF EnvironmentPart, PartsOf, Exit2
  <2>2. /\ part'.no = part.no + 1 /\ part.no \in DOMAIN Environment
        /\ CString(buf, part.begin) = Environment[part.no] /\ Environment' = Environment
    <3>1. Environment = Words(input.libraryPath, {":"})
      BY <1>1 DEF Environment, TextInv
    <3>2. Environment' = Environment
      BY <1>1, SameFile
    <3>. QED
      BY <1>1, <2>1, <3>1, <3>2, TextEnvironmentPart
  <2>3. PICK words \in Seq(Seq(Char)) : words = Environment
    BY DefaultsType
  <2>4. PICK n \in 1 .. Len(words) : n = part.no
    BY <2>2, <2>3
  <2>5. PICK p \in Seq(Char) : p = words[n]
    OBVIOUS
  <2>6. PICK read : read = SubSeq(words, 1, n - 1)
    OBVIOUS
  <2>7. SubSeq(words, 1, n) = Append(read, p) /\ read \in Seq(Seq(Char))
    BY <2>5, <2>6, TakenMore
  <2>8. part'.no - 1 = n
    <3>1. n \in Nat
      BY <2>3
    <3>. QED
      BY <2>2, <2>4, <3>1
  <2>9. MoreRead = read /\ MoreRead' = Append(read, p) /\ BinsRead' = BinsRead /\ LibsRead' = LibsRead
    BY <1>1, <2>1, <2>2, <2>3, <2>4, <2>6, <2>7, <2>8 DEF MoreRead, BinsRead, LibsRead, ConfigRead
  <2>10. PICK k \in ListKeys : k = "scanMoreLibs"
    BY DEF ListKeys
  <2>11. PathsRead(k) = read /\ PathsRead(k)' = Append(read, p) /\ \A j \in ListKeys \ {k} : PathsRead(j)' = PathsRead(j)
    BY <2>9, <2>10 DEF PathsRead, ListKeys
  <2>12. AppendTo(k, p) /\ pc # "exit2"
    BY <1>1, <2>1, <2>2, <2>3, <2>4, <2>5, <2>10
  <2>. QED
    BY <2>7, <2>11, <2>12, ListsAppend
<1>. QED
  BY <1>2, <1>3

LEMMA ListsEndOfEnvironment ==
  ASSUME TextInv, ListInv, EndOfEnvironment
  PROVE  ListInv'
<1>1. /\ pc = "environment" /\ IsEnd(EnvironmentParts(buf), part)
      /\ pc' = "open" /\ lists' = lists /\ input' = input
  BY DEF EndOfEnvironment, settingVars
<1>2. part.no - 1 = Len(Environment) /\ Environment' = Environment
  BY <1>1, EnvironmentDone, SameFile
<1>3. BinsRead' = BinsRead /\ LibsRead' = LibsRead /\ MoreRead' = MoreRead
  BY <1>1, <1>2, DefaultsType DEF MoreRead, BinsRead, LibsRead, ConfigRead
<1>4. \A k \in ListKeys : PathsRead(k)' = PathsRead(k)
  BY <1>3 DEF PathsRead
<1>. QED
  BY <1>1, <1>4, ListsKept

\* In the configuration file.
LEMMA BeforeNone ==
  ASSUME TextInv, HasFile, NEW k
  PROVE  Before(k, 1) = << >>
<1>1. \A n \in With(k) : n \in Nat /\ n # 0
  BY LinesType DEF With, SettingNos
<1>2. {n \in With(k) : n < 1} = {}
  BY <1>1
<1>. QED
  BY <1>2, WordsOfNone DEF Before

LEMMA BeforeNext ==
  ASSUME TextInv, HasFile, NEW k, NEW l \in Nat
  PROVE  /\ l \notin With(k) => Before(k, l + 1) = Before(k, l)
         /\ l \in With(k) => Before(k, l + 1) = Before(k, l) \o WordsIn(l)
<1>1. With(k) \in SUBSET SettingNos /\ \A n \in With(k) : n \in Nat
  BY LinesType DEF With, SettingNos
<1>2. PICK S : S = {n \in With(k) : n < l}
  OBVIOUS
<1>3. PICK T : T = {n \in With(k) : n < l + 1}
  OBVIOUS
<1>4. \A n \in With(k) : n < l + 1 <=> n < l \/ n = l
  BY <1>1
<1>5. Before(k, l) = WordsOf(S) /\ Before(k, l + 1) = WordsOf(T)
  BY <1>2, <1>3 DEF Before
<1>6. CASE l \notin With(k)
  <2>1. T = S
    BY <1>2, <1>3, <1>4, <1>6
  <2>. QED
    BY <1>5, <1>6, <2>1
<1>7. CASE l \in With(k)
  <2>1. T = S \cup {l}
    BY <1>2, <1>3, <1>4, <1>7
  <2>2. S \in SUBSET SettingNos /\ l \in SettingNos /\ \A j \in S : j < l
    BY <1>1, <1>2, <1>7
  <2>3. WordsOf(S \cup {l}) = WordsOf(S) \o WordsIn(l)
    BY <2>2, WordsOfMore
  <2>. QED
    BY <1>5, <1>7, <2>1, <2>3
<1>. QED
  BY <1>6, <1>7

LEMMA ListsOnward ==
  ASSUME ListInv, input' = input, lists' = lists,
         pc \in {"open", "parse", "parts"}, pc' \in {"parse", "parts", "configured"},
         \A k \in ScanKeys : ConfigRead(k)' = ConfigRead(k)
  PROVE  ListInv'
<1>1. Environment' = Environment
  BY SameFile
<1>2. BinsRead' = BinsRead /\ LibsRead' = LibsRead /\ MoreRead' = MoreRead
  BY <1>1 DEF BinsRead, LibsRead, MoreRead, ScanKeys
<1>3. \A k \in ListKeys : PathsRead(k)' = PathsRead(k)
  BY <1>2 DEF PathsRead
<1>. QED
  BY <1>3, ListsKept

LEMMA ListsOpenConfig ==
  ASSUME TextInv, ListInv, OpenConfig
  PROVE  ListInv'
<1>1. pc = "open" /\ input' = input /\ pc' \in {"parse", "configured", "exit2"} /\ (pc' # "exit2" => lists' = lists)
  BY DEF OpenConfig, Exit2, settingVars
<1>2. CASE pc' = "exit2"
  BY <1>2 DEF ListInv
<1>3. CASE pc' = "configured"
  <2>1. ~HasFile
    <3>1. File = Absent \/ File = Unreadable
      BY <1>3 DEF OpenConfig, File
    <3>. QED
      BY <3>1 DEF HasFile
  <2>2. ~HasFile'
    BY <1>1, <2>1, SameFile
  <2>3. \A k \in ScanKeys : ConfigRead(k)' = ConfigRead(k)
    BY <1>1, <1>3, <2>2 DEF ConfigRead, Configuration
  <2>. QED
    BY <1>1, <1>3, <2>3, ListsOnward
<1>4. CASE pc' = "parse"
  <2>1. line'.no = 1 /\ HasFile
    BY <1>4, TextOpenConfig
  <2>2. \A k \in ScanKeys : ConfigRead(k)' = ConfigRead(k)
    <3>. SUFFICES ASSUME NEW k \in ScanKeys PROVE ConfigRead(k)' = ConfigRead(k)
      OBVIOUS
    <3>1. Before(k, line.no)' = Before(k, 1)
      BY <1>1, <2>1, BeforeSame
    <3>2. Before(k, 1) = << >>
      BY <2>1, BeforeNone
    <3>. QED
      BY <1>1, <1>4, <3>1, <3>2 DEF ConfigRead
  <2>. QED
    BY <1>1, <1>4, <2>2, ListsOnward
<1>. QED
  BY <1>1, <1>2, <1>3, <1>4

\* A line of another key.
LEMMA ListsNextLine ==
  ASSUME TextInv, ListInv, input' = input, lists' = lists, pc = "parse", pc' = "parse",
         line'.no = line.no + 1, \A k \in ScanKeys : line.no \notin With(k)
  PROVE  ListInv'
<1>1. HasFile /\ line.no \in Nat
  BY DEF TextInv, LineIs, Parsing
<1>2. PICK l \in Nat : l = line.no
  BY <1>1
<1>3. PICK m \in Nat : m = l + 1
  OBVIOUS
<1>4. ASSUME NEW k \in ScanKeys
      PROVE  ConfigRead(k)' = ConfigRead(k)
  <2>1. Before(k, line.no)' = Before(k, m)
    BY <1>2, <1>3, BeforeSame
  <2>2. Before(k, m) = Before(k, l)
    BY <1>1, <1>2, <1>3, BeforeNext
  <2>. QED
    BY <1>2, <2>1, <2>2 DEF ConfigRead
<1>. QED
  BY <1>4, ListsOnward

LEMMA ListsParserStep ==
  ASSUME TextInv, ListInv, ParserStep
  PROVE  ListInv'
<1>1. pc = "parse" /\ pc' = pc /\ input' = input /\ lists' = lists /\ (SkipLine \/ ParseLine)
  BY DEF ParserStep, settingVars
<1>2. CASE SkipLine
  <2>1. line'.no = line.no + 1 /\ line.no \notin LineNos
    BY <1>1, <1>2, TextSkip
  <2>2. \A k \in ScanKeys : line.no \notin With(k)
    BY <2>1 DEF With, SettingNos
  <2>. QED
    BY <1>1, <2>1, <2>2, ListsNextLine
<1>3. CASE ParseLine
  <2>1. line' = line
    BY <1>3 DEF ParseLine
  <2>2. PICK l : l = line.no
    OBVIOUS
  <2>3. ASSUME NEW k \in ScanKeys
        PROVE  ConfigRead(k)' = ConfigRead(k)
    <3>1. Before(k, line.no)' = Before(k, l)
      BY <1>1, <2>1, <2>2, BeforeSame
    <3>. QED
      BY <1>1, <2>2, <3>1 DEF ConfigRead
  <2>. QED
    BY <1>1, <2>3, ListsOnward
<1>. QED
  BY <1>1, <1>2, <1>3

LEMMA SameConfiguration ==
  ASSUME input' = input, HasFile, NEW k
  PROVE  Configuration(k)' = Configuration(k)
<1>1. PICK S : S = With(k)
  OBVIOUS
<1>2. PICK s : s = Sorted(S)
  OBVIOUS
<1>3. PICK f : f = [i \in DOMAIN s |-> Words(ValueOf(s[i]), Blanks)]
  OBVIOUS
<1>4. PICK g : g = [i \in DOMAIN s |-> Words(ValueOf(s[i])', Blanks)]
  OBVIOUS
<1>5. \A i \in DOMAIN s : f[i] = g[i]
  BY <1>3, <1>4, SameFile
<1>6. f = g
  <2>1. f = [i \in DOMAIN s |-> f[i]] /\ g = [i \in DOMAIN s |-> g[i]]
    BY <1>3, <1>4
  <2>. QED
    BY <1>5, <2>1
<1>7. With(k)' = S /\ HasFile'
  BY <1>1, SameFile
<1>8. Configuration(k) = FlattenSeq(f)
  BY <1>1, <1>2, <1>3 DEF Configuration, WordsOf
<1>9. Configuration(k)' = FlattenSeq(g)
  BY <1>2, <1>4, <1>7 DEF Configuration, WordsOf
<1>. QED
  BY <1>6, <1>8, <1>9

LEMMA ListsConfigured ==
  ASSUME TextInv, ListInv, Configured
  PROVE  ListInv'
<1>1. pc = "parse" /\ AtEnd /\ pc' = "configured" /\ input' = input /\ lists' = lists
  BY DEF Configured, EndOfFile, settingVars
<1>2. HasFile /\ \A n \in LineNos : n < line.no
  BY <1>1, AllLinesRead
<1>3. PICK l : l = line.no
  OBVIOUS
<1>4. ASSUME NEW k \in ScanKeys
      PROVE  ConfigRead(k)' = ConfigRead(k)
  <2>1. {n \in With(k) : n < l} = With(k)
    BY <1>2, <1>3 DEF With, SettingNos
  <2>2. Before(k, l) = WordsOf(With(k))
    BY <2>1 DEF Before
  <2>3. Configuration(k)' = Configuration(k)
    BY <1>1, <1>2, SameConfiguration
  <2>4. Configuration(k) = WordsOf(With(k))
    BY <1>2 DEF Configuration
  <2>. QED
    BY <1>1, <1>3, <2>2, <2>3, <2>4 DEF ConfigRead
<1>. QED
  BY <1>1, <1>4, ListsOnward

LEMMA ListsHandler ==
  ASSUME TextInv, ListInv, HandlerStep
  PROVE  ListInv'
<1>1. pc = "parse" /\ at = "onLine" /\ line.no \in SettingNos /\ (Reject \/ Exit2("entry", 0) \/ Accept)
  BY HandlerBad
<1>2. CASE Reject \/ Exit2("entry", 0)
  <2>1. pc' = "exit2"
    BY <1>2 DEF Reject, Exit2
  <2>. QED
    BY <2>1 DEF ListInv
<1>3. CASE Accept
  <2>1. pc' = "parse" /\ input' = input /\ lists' = lists
    BY <1>1, <1>3 DEF Accept
  <2>2. line'.no = line.no + 1
    BY <1>1, <1>3, TextAccept
  <2>3. PICK K : OnLine(K) /\ K \cap ScanKeys = {}
    <3>1. CASE IgnoreFiles
      BY <3>1 DEF IgnoreFiles, ScanKeys
    <3>2. CASE OptDepend
      BY <3>2 DEF OptDepend, ScanKeys
    <3>3. CASE AddLibPath
      BY <3>3 DEF AddLibPath, ScanKeys
    <3>. QED
      BY <3>1, <3>2, <3>3 DEF HandlerStep
  <2>4. PICK j \in K : line.no \in With(j)
    BY <1>1, <2>3, KeyLine
  <2>5. \A k \in ScanKeys : line.no \notin With(k)
    BY <2>3, <2>4, KeysDiffer
  <2>. QED
    BY <1>1, <2>1, <2>2, <2>5, ListsNextLine
<1>. QED
  BY <1>1, <1>2, <1>3

LEMMA ListsScanMore ==
  ASSUME TextInv, ListInv, ScanMore
  PROVE  ListInv'
<1>1. pc = "parse" /\ pc' = "parts" /\ input' = input /\ line' = line /\ lists' = lists
  BY DEF ScanMore, OnLine, settingVars
<1>2. part'.no = 1
  BY TextScanMore
<1>3. HasFile
  BY <1>1 DEF TextInv, Parsing
<1>4. PICK l : l = line.no
  OBVIOUS
<1>5. ASSUME NEW k \in ScanKeys
      PROVE  ConfigRead(k)' = ConfigRead(k)
  <2>1. Before(k, line.no)' = Before(k, l)
    BY <1>1, <1>4, BeforeSame
  <2>2. PICK b \in Seq(Seq(Char)) : b = Before(k, l)
    BY <1>3, BeforeType
  <2>3. b \o << >> = b
    BY ConcatEmptySeq
  <2>4. SubSeq(LineWords, 1, part.no - 1)' = << >>
    <3>1. PICK w : w = LineWords'
      OBVIOUS
    <3>2. SubSeq(w, 1, 0) = << >>
      BY TakenNone
    <3>. QED
      BY <1>2, <3>1, <3>2
  <2>5. ConfigRead(k)' = b
    BY <1>1, <2>1, <2>2, <2>3, <2>4 DEF ConfigRead
  <2>. QED
    BY <1>1, <1>4, <2>2, <2>5 DEF ConfigRead
<1>. QED
  BY <1>1, <1>5, ListsOnward

\* The list that the key of a line names.
LEMMA ScanListIs ==
  ASSUME TextInv, ErrorInv, pc = "parts"
  PROVE  \/ line.no \in With("scanMoreBins") /\ line.no \notin With("scanMoreLibs") /\ ScanList = "scanBins"
         \/ line.no \in With("scanMoreLibs") /\ line.no \notin With("scanMoreBins") /\ ScanList = "scanMoreLibs"
<1>1. PICK k \in ScanKeys : line.no \in With(k)
  BY DEF ErrorInv, LinesInv
<1>2. at = "onLine"
  BY DEF TextInv, Parsing
<1>3. SubSeq(buf, key.begin, key.end - 1) = KeyOf(line.no)
  BY <1>2, OnLineIs DEF Parsing
<1>4. KeyOf(line.no) = <<k>>
  BY <1>1 DEF With
<1>5. ScanList = IF k = "scanMoreBins" THEN "scanBins" ELSE "scanMoreLibs"
  <2>1. <<k>> = <<"scanMoreBins">> <=> k = "scanMoreBins"
    <3>1. <<k>>[1] = k /\ <<"scanMoreBins">>[1] = "scanMoreBins"
      OBVIOUS
    <3>. QED
      BY <3>1
  <2>. QED
    BY <1>3, <1>4, <2>1 DEF ScanList
<1>6. \A j : line.no \in With(j) => j = k
  BY <1>1, KeysDiffer
<1>. QED
  BY <1>1, <1>5, <1>6 DEF ScanKeys

LEMMA ListsScanPart ==
  ASSUME TextInv, ErrorInv, ListInv, ScanPart
  PROVE  ListInv'
<1>1. /\ pc = "parts" /\ ~IsEnd(ValueParts, part) /\ input' = input /\ line' = line
  BY DEF ScanPart, PartsOf, Exit2, parserVars
<1>2. CASE pc' = "exit2"
  BY <1>2 DEF ListInv
<1>3. CASE pc' # "exit2"
  <2>1. pc' = "parts" /\ AppendTo(ScanList, CString(buf, part.begin))
    BY <1>1, <1>3 DEF ScanPart, PartsOf, Exit2
  <2>2. PICK t : t = ValueOf(line.no) /\ LineValue(t)
    BY DEF LineValue, ValueOf, ValueAt, LineText, TextAt
  <2>3. part.no \in DOMAIN LineWords /\ CString(buf, part.begin) = LineWords[part.no]
    <3>1. part.no \in DOMAIN Words(t, Blanks) /\ CString(buf, part.begin) = Words(t, Blanks)[part.no]
      BY <1>1, <2>2, TextPart
    <3>. QED
      BY <2>2, <3>1 DEF LineWords
  <2>4. part'.no = part.no + 1 /\ LineWords' = LineWords
    BY <1>1, <2>1, TextScanPart, SameFile DEF LineWords
  <2>5. HasFile /\ LineWords \in Seq(Seq(Char))
    BY <1>1, LineWordsType
  <2>6. PICK words \in Seq(Seq(Char)) : words = LineWords
    BY <2>5
  <2>7. PICK n \in 1 .. Len(words) : n = part.no
    BY <2>3, <2>6
  <2>8. PICK p \in Seq(Char) : p = words[n]
    OBVIOUS
  <2>9. PICK taken : taken = SubSeq(words, 1, n - 1)
    OBVIOUS
  <2>10. SubSeq(words, 1, n) = Append(taken, p) /\ taken \in Seq(Seq(Char))
    BY <2>8, <2>9, TakenMore
  <2>11. part'.no - 1 = n
    <3>1. n \in Nat
      BY <2>6
    <3>. QED
      BY <2>4, <2>7, <3>1
  <2>12. PICK l : l = line.no
    OBVIOUS
  <2>13. ASSUME NEW k, l \in With(k)
         PROVE  \E c \in Seq(Seq(Char)) : ConfigRead(k) = c /\ ConfigRead(k)' = Append(c, p)
    <3>1. Before(k, line.no)' = Before(k, l)
      BY <1>1, <2>12, BeforeSame
    <3>2. PICK b \in Seq(Seq(Char)) : b = Before(k, l)
      BY <2>5, BeforeType
    <3>3. b \o Append(taken, p) = Append(b \o taken, p) /\ b \o taken \in Seq(Seq(Char))
      BY <2>10, AppendBehind
    <3>4. PICK c \in Seq(Seq(Char)) : c = b \o taken
      BY <3>3
    <3>5. ConfigRead(k) = c
      BY <1>1, <2>6, <2>7, <2>9, <2>12, <2>13, <3>2, <3>4 DEF ConfigRead
    <3>6. With(k)' = With(k)
      BY <1>1, SameFile
    <3>7. ConfigRead(k)' = b \o SubSeq(words, 1, n)
      <4>1. l \in With(k)' /\ line'.no = l
        BY <1>1, <2>12, <2>13, <3>6
      <4>. QED
        BY <2>1, <2>4, <2>6, <2>11, <3>1, <3>2, <4>1 DEF ConfigRead
    <3>. QED
      BY <2>10, <3>3, <3>4, <3>5, <3>7
  <2>14. ASSUME NEW k, l \notin With(k)
         PROVE  ConfigRead(k)' = ConfigRead(k)
    <3>1. Before(k, line.no)' = Before(k, l)
      BY <1>1, <2>12, BeforeSame
    <3>2. With(k)' = With(k) /\ line'.no = l
      BY <1>1, <2>12, SameFile
    <3>. QED
      BY <1>1, <2>1, <2>12, <2>14, <3>1, <3>2 DEF ConfigRead
  <2>15. LibsRead' = LibsRead /\ Environment' = Environment
    BY <1>1, <2>1, SameFile DEF LibsRead
  <2>16. AppendTo(ScanList, p)
    BY <2>1, <2>3, <2>6, <2>7, <2>8
  <2>17. CASE l \in With("scanMoreBins") /\ l \notin With("scanMoreLibs") /\ ScanList = "scanBins"
    <3>1. PICK c \in Seq(Seq(Char)) : ConfigRead("scanMoreBins") = c /\ ConfigRead("scanMoreBins")' = Append(c, p)
      BY <2>13, <2>17
    <3>2. PICK d \in Seq(Seq(Char)) : d = DefaultBins
      BY TextAssumption
    <3>3. d \o Append(c, p) = Append(d \o c, p) /\ d \o c \in Seq(Seq(Char))
      BY AppendBehind
    <3>4. PICK read \in Seq(Seq(Char)) : read = d \o c
      BY <3>3
    <3>5. BinsRead = read /\ BinsRead' = Append(read, p)
      BY <1>1, <2>1, <3>1, <3>2, <3>3, <3>4 DEF BinsRead
    <3>6. MoreRead' = MoreRead
      BY <1>1, <2>1, <2>14, <2>15, <2>17 DEF MoreRead
    <3>7. PICK k \in ListKeys : k = "scanBins"
      BY DEF ListKeys
    <3>8. PathsRead(k) = read /\ PathsRead(k)' = Append(read, p) /\ \A j \in ListKeys \ {k} : PathsRead(j)' = PathsRead(j)
      BY <2>15, <3>5, <3>6, <3>7 DEF PathsRead, ListKeys
    <3>9. AppendTo(k, p) /\ pc # "exit2"
      BY <1>1, <2>16, <2>17, <3>7
    <3>. QED
      BY <3>8, <3>9, ListsAppend
  <2>18. CASE l \in With("scanMoreLibs") /\ l \notin With("scanMoreBins") /\ ScanList = "scanMoreLibs"
    <3>1. PICK c \in Seq(Seq(Char)) : ConfigRead("scanMoreLibs") = c /\ ConfigRead("scanMoreLibs")' = Append(c, p)
      BY <2>13, <2>18
    <3>2. PICK d \in Seq(Seq(Char)) : d = Environment
      BY DefaultsType
    <3>3. d \o Append(c, p) = Append(d \o c, p) /\ d \o c \in Seq(Seq(Char))
      BY AppendBehind
    <3>4. PICK read \in Seq(Seq(Char)) : read = d \o c
      BY <3>3
    <3>5. MoreRead = read /\ MoreRead' = Append(read, p)
      BY <1>1, <2>1, <2>15, <3>1, <3>2, <3>3, <3>4 DEF MoreRead
    <3>6. BinsRead' = BinsRead
      BY <1>1, <2>1, <2>14, <2>18 DEF BinsRead
    <3>7. PICK k \in ListKeys : k = "scanMoreLibs"
      BY DEF ListKeys
    <3>8. PathsRead(k) = read /\ PathsRead(k)' = Append(read, p) /\ \A j \in ListKeys \ {k} : PathsRead(j)' = PathsRead(j)
      BY <2>15, <3>5, <3>6, <3>7 DEF PathsRead, ListKeys
    <3>9. AppendTo(k, p) /\ pc # "exit2"
      BY <1>1, <2>16, <2>18, <3>7
    <3>. QED
      BY <3>8, <3>9, ListsAppend
  <2>. QED
    BY <1>1, <2>12, <2>17, <2>18, ScanListIs
<1>. QED
  BY <1>2, <1>3

LEMMA ListsEndOfParts ==
  ASSUME TextInv, ErrorInv, ListInv, EndOfParts
  PROVE  ListInv'
<1>1. pc = "parts" /\ IsEnd(ValueParts, part) /\ pc' = "parse" /\ input' = input /\ lists' = lists
  BY DEF EndOfParts, settingVars
<1>2. line'.no = line.no + 1
  BY TextEndOfParts
<1>3. part.no = Len(LineWords) + 1 /\ Len(LineWords) \in Nat /\ LineWords \in Seq(Seq(Char)) /\ HasFile
  BY <1>1, LineWordsDone, LineWordsType
<1>4. PICK words \in Seq(Seq(Char)) : words = LineWords
  BY <1>3
<1>5. SubSeq(words, 1, Len(words)) = words /\ part.no - 1 = Len(words)
  BY <1>3, <1>4, SubSeqFull
<1>6. PICK l \in Nat : l = line.no
  BY <1>1 DEF TextInv, LineIs, Parsing
<1>7. PICK m \in Nat : m = l + 1
  OBVIOUS
<1>8. ASSUME NEW k \in ScanKeys
      PROVE  ConfigRead(k)' = ConfigRead(k)
  <2>1. Before(k, line.no)' = Before(k, m)
    BY <1>1, <1>2, <1>6, <1>7, BeforeSame
  <2>2. PICK b \in Seq(Seq(Char)) : b = Before(k, l)
    BY <1>3, BeforeType
  <2>3. CASE l \in With(k)
    <3>1. Before(k, m) = b \o words
      BY <1>3, <1>4, <1>6, <1>7, <2>2, <2>3, BeforeNext DEF WordsIn, LineWords
    <3>2. ConfigRead(k) = b \o words
      BY <1>1, <1>4, <1>5, <1>6, <2>2, <2>3 DEF ConfigRead
    <3>. QED
      BY <1>1, <2>1, <3>1, <3>2 DEF ConfigRead
  <2>4. CASE l \notin With(k)
    <3>1. Before(k, m) = b
      BY <1>3, <1>7, <2>2, <2>4, BeforeNext
    <3>2. b \o << >> = b
      BY ConcatEmptySeq
    <3>3. ConfigRead(k) = b
      BY <1>1, <1>6, <2>2, <2>4, <3>2 DEF ConfigRead
    <3>. QED
      BY <1>1, <2>1, <3>1, <3>3 DEF ConfigRead
  <2>. QED
    BY <2>3, <2>4
<1>. QED
  BY <1>1, <1>8, ListsOnward

LEMMA ListsSame ==
  ASSUME ListInv, UNCHANGED vars
  PROVE  ListInv'
<1>1. input' = input /\ pc' = pc /\ next' = next /\ part' = part /\ line' = line /\ lists' = lists
  BY DEF vars, progressVars, parserVars, settingVars
<1>2. CASE pc = "exit2"
  BY <1>1, <1>2 DEF ListInv
<1>3. CASE pc # "exit2"
  <2>1. PICK l : l = line.no
    OBVIOUS
  <2>2. /\ Environment' = Environment /\ (HasFile' <=> HasFile) /\ LineWords' = LineWords
        /\ \A k : With(k)' = With(k)
    BY <1>1, SameFile DEF LineWords
  <2>3. ASSUME NEW k
        PROVE  ConfigRead(k)' = ConfigRead(k)
    <3>1. Before(k, line.no)' = Before(k, line.no)
      BY <1>1, <2>1, BeforeSame
    <3>2. Configuration(k)' = Configuration(k)
      <4>1. CASE HasFile
        BY <1>1, <4>1, SameConfiguration
      <4>2. CASE ~HasFile
        BY <2>2, <4>2 DEF Configuration
      <4>. QED
        BY <4>1, <4>2
    <3>. QED
      BY <1>1, <2>2, <3>1, <3>2 DEF ConfigRead
  <2>4. BinsRead' = BinsRead /\ LibsRead' = LibsRead /\ MoreRead' = MoreRead
    BY <1>1, <2>2, <2>3 DEF BinsRead, LibsRead, MoreRead
  <2>5. \A k \in ListKeys : PathsRead(k)' = PathsRead(k)
    BY <2>4 DEF PathsRead
  <2>. QED
    BY <1>1, <1>3, <2>5, ListsKept
<1>. QED
  BY <1>2, <1>3

\* Every step adds a directory to its list, if it is a new one, or none.
LEMMA ListStep == TextInv /\ ErrorInv /\ ListInv /\ [Next]_vars => ListInv'
<1>. SUFFICES ASSUME TextInv, ErrorInv, ListInv, [Next]_vars PROVE ListInv'
  OBVIOUS
<1>1. CASE UNCHANGED vars
  BY <1>1, ListsSame
<1>2. CASE Syntax \/ OtherKey
  <2>1. pc' = "exit2"
    BY <1>2 DEF Syntax, OtherKey
  <2>. QED
    BY <2>1 DEF ListInv
<1>. QED
  BY <1>1, <1>2, ListsArguments, ListsDefaultBin, ListsDefaultLib, ListsEndOfBins, ListsReadEnvironment,
     ListsEnvironmentPart, ListsEndOfEnvironment, ListsOpenConfig, ListsParserStep, ListsConfigured,
     ListsHandler, ListsScanMore, ListsScanPart, ListsEndOfParts
  DEF Next, Handler, HandlerStep, Stopped

LEMMA ListAlways == Spec => []ListInv
<1>1. Init => ListInv
  <2>. SUFFICES ASSUME Init PROVE ListInv
    OBVIOUS
  <2>1. pc = "args" /\ lists = [k \in {"scanBins", "scanDefaultLibs", "scanMoreLibs"} |-> << >>]
    BY DEF Init
  <2>2. \A k \in ListKeys : PathsRead(k) = << >>
    BY <2>1 DEF PathsRead, BinsRead, LibsRead, MoreRead
  <2>3. lists \in [ListKeys -> Seq(Entry)] /\ \A k \in ListKeys : lists[k] = << >>
    BY <2>1 DEF ListKeys
  <2>. QED
    BY <2>2, <2>3, ListedNone DEF ListInv
<1>. QED
  BY <1>1, ListStep, TextAlways, ErrorAlways, PTL DEF Spec

\* Search lists have each directory once, in the order of priority: defaults
\* before scanMoreBins, LD_LIBRARY_PATH before scanMoreLibs.
THEOREM AlwaysListsExact == Spec => []ListsExact
BY ListsAre, ListAlways, TextAlways, PTL
-----------------------------------------------------------------------------
(* Rules.                                                                  *)

\* Maps from words to what was said of them, in order.
Deps == {[name |-> w, line |-> n] : w \in Seq(Char), n \in Nat}
Rules == {[path |-> IF At(w).kind = "missing" THEN w ELSE At(w).path, inode |-> At(w).inode, line |-> n] :
            w \in Seq(Char), n \in Nat}
MapsTo(map, R) == (\A r \in R : r.line \in Nat) /\ \A k \in DOMAIN map : map[k] \in Seq(R)

LEMMA FunctionSeq ==
  ASSUME NEW S, NEW n \in Nat, NEW f \in [1 .. n -> S]
  PROVE  f \in Seq(S) /\ Len(f) = n
OBVIOUS

LEMMA LinesInType ==
  ASSUME NEW R, NEW map, MapsTo(map, R), NEW k
  PROVE  /\ LinesIn(map, k) \in Seq(Nat)
         /\ k \in DOMAIN map => Len(LinesIn(map, k)) = Len(map[k]) /\ \A i \in 1 .. Len(map[k]) : LinesIn(map, k)[i] = map[k][i].line
<1>1. CASE k \in DOMAIN map
  <2>1. PICK s \in Seq(R) : s = map[k]
    BY <1>1 DEF MapsTo
  <2>2. PICK n \in Nat : n = Len(s)
    OBVIOUS
  <2>3. PICK l : l = [i \in DOMAIN s |-> s[i].line]
    OBVIOUS
  <2>4. DOMAIN s = 1 .. n /\ \A i \in 1 .. n : s[i].line \in Nat
    BY <2>2 DEF MapsTo
  <2>5. l \in [1 .. n -> Nat] /\ \A i \in 1 .. n : l[i] = s[i].line
    BY <2>3, <2>4
  <2>6. l \in Seq(Nat) /\ Len(l) = n
    BY <2>5, FunctionSeq
  <2>7. LinesIn(map, k) = l
    BY <1>1, <2>1, <2>3 DEF LinesIn
  <2>. QED
    BY <2>1, <2>2, <2>5, <2>6, <2>7
<1>2. CASE k \notin DOMAIN map
  <2>1. LinesIn(map, k) = << >>
    BY <1>2 DEF LinesIn
  <2>. QED
    BY <1>2, <2>1
<1>. QED
  BY <1>1, <1>2

\* push_back() behind what was there.
PushedBehind(R, map, k, x) ==
  /\ MapsTo(Pushed(map, k, x), R)
  /\ LinesIn(Pushed(map, k, x), k) = Append(LinesIn(map, k), x.line)
  /\ \A j : j # k => LinesIn(Pushed(map, k, x), j) = LinesIn(map, j)

LEMMA PushedIs ==
  ASSUME NEW R, NEW map, MapsTo(map, R), NEW k, NEW x \in R
  PROVE  PushedBehind(R, map, k, x)
<1>1. PICK new : new = Pushed(map, k, x)
  OBVIOUS
<1>2. /\ DOMAIN new = DOMAIN map \cup {k}
      /\ \A i \in DOMAIN map : i # k => new[i] = map[i]
      /\ new[k] = IF k \in DOMAIN map THEN Append(map[k], x) ELSE <<x>>
  BY <1>1 DEF Pushed
<1>3. MapsTo(new, R) /\ (k \in DOMAIN map => new[k] = Append(map[k], x) /\ map[k] \in Seq(R)) /\ (k \notin DOMAIN map => new[k] = <<x>>)
  <2>1. k \in DOMAIN map => map[k] \in Seq(R)
    BY DEF MapsTo
  <2>2. new[k] \in Seq(R)
    BY <1>2, <2>1
  <2>. QED
    BY <1>2, <2>1, <2>2 DEF MapsTo
<1>4. x.line \in Nat
  BY DEF MapsTo
<1>5. PICK a \in Seq(Nat) : a = LinesIn(map, k)
  BY LinesInType
<1>6. PICK b \in Seq(Nat) : b = LinesIn(new, k)
  BY <1>3, LinesInType
<1>7. k \in DOMAIN new
  BY <1>2
<1>8. PICK t \in Seq(R) : t = new[k]
  BY <1>3, <1>7 DEF MapsTo
<1>9. Len(b) = Len(t) /\ \A i \in 1 .. Len(t) : b[i] = t[i].line
  <2>1. MapsTo(new, R)
    BY <1>3
  <2>2. Len(LinesIn(new, k)) = Len(new[k]) /\ \A i \in 1 .. Len(new[k]) : LinesIn(new, k)[i] = new[k][i].line
    BY <1>7, <2>1, LinesInType
  <2>. QED
    BY <1>6, <1>8, <2>2
<1>10. /\ Len(Append(a, x.line)) = Len(a) + 1 /\ Append(a, x.line)[Len(a) + 1] = x.line /\ Append(a, x.line) \in Seq(Nat)
       /\ \A i \in 1 .. Len(a) : Append(a, x.line)[i] = a[i]
  BY <1>4, AppendProperties
<1>11. PICK c \in Seq(Nat) : c = Append(a, x.line)
  BY <1>10
<1>12. ASSUME k \in DOMAIN map
       PROVE  b = c
  <2>1. PICK s \in Seq(R) : s = map[k]
    BY <1>3, <1>12
  <2>2. PICK n \in Nat : n = Len(s)
    OBVIOUS
  <2>3. Len(a) = n /\ \A i \in 1 .. n : a[i] = s[i].line
    BY <1>5, <1>12, <2>1, <2>2, LinesInType
  <2>4. t = Append(s, x)
    BY <1>3, <1>8, <1>12, <2>1
  <2>5. Len(t) = n + 1 /\ t[n + 1] = x /\ \A i \in 1 .. n : t[i] = s[i]
    BY <2>2, <2>4, AppendProperties
  <2>6. Len(b) = n + 1 /\ \A i \in 1 .. n + 1 : b[i] = t[i].line
    BY <1>9, <2>5
  <2>7. Len(c) = n + 1 /\ c[n + 1] = x.line /\ \A i \in 1 .. n : c[i] = a[i]
    BY <1>10, <1>11, <2>3
  <2>8. ASSUME NEW i \in 1 .. n + 1
        PROVE  b[i] = c[i]
    <3>1. CASE i = n + 1
      BY <2>5, <2>6, <2>7, <3>1
    <3>2. CASE i # n + 1
      <4>1. i \in 1 .. n
        BY <3>2
      <4>2. b[i] = t[i].line /\ t[i] = s[i]
        BY <2>5, <2>6, <4>1
      <4>3. c[i] = a[i] /\ a[i] = s[i].line
        BY <2>3, <2>7, <4>1
      <4>. QED
        BY <4>2, <4>3
    <3>. QED
      BY <3>1, <3>2
  <2>. QED
    BY <2>6, <2>7, <2>8, SeqEqual
<1>13. ASSUME k \notin DOMAIN map
       PROVE  b = c
  <2>1. a = << >> /\ t = <<x>>
    BY <1>3, <1>5, <1>8, <1>13 DEF LinesIn
  <2>2. Len(b) = 1 /\ b[1] = x.line
    BY <1>9, <2>1
  <2>3. Len(c) = 1 /\ c[1] = x.line
    BY <1>4, <1>11, <2>1
  <2>. QED
    BY <2>2, <2>3, SeqEqual
<1>14. MapsTo(new, R) /\ LinesIn(new, k) = Append(LinesIn(map, k), x.line)
  BY <1>3, <1>5, <1>6, <1>11, <1>12, <1>13
<1>15. \A j : j # k => LinesIn(new, j) = LinesIn(map, j)
  BY <1>2 DEF LinesIn
<1>. QED
  BY <1>1, <1>14, <1>15 DEF PushedBehind

LEMMA PrefixIs ==
  ASSUME NEW S, NEW p \in Seq(S), NEW f \in Seq(S)
  PROVE  IsPrefix(p, f) <=> Len(p) <= Len(f) /\ \A i \in 1 .. Len(p) : p[i] = f[i]
<1>1. PICK n \in Nat : n = Len(p)
  OBVIOUS
<1>2. PICK m \in Nat : m = Len(f)
  OBVIOUS
<1>3. CASE n <= m
  <2>1. SubSeq(p, 1, n) = p
    BY <1>1, SubSeqFull
  <2>2. PICK g : g = SubSeq(f, 1, n)
    OBVIOUS
  <2>3. g \in Seq(S) /\ Len(g) = n /\ \A i \in 1 .. n : g[i] = f[i]
    <3>1. 1 \in 1 .. Len(f) + 1 /\ n + 1 \in 1 .. Len(f) + 1 /\ n + 1 - 1 = n
      BY <1>2, <1>3
    <3>2. PICK e \in 1 .. Len(f) + 1 : e = n + 1 /\ e - 1 = n
      BY <3>1
    <3>3. SubSeq(f, 1, e - 1) \in Seq(S) /\ Len(SubSeq(f, 1, e - 1)) = e - 1
          /\ \A i \in 1 .. e - 1 : SubSeq(f, 1, e - 1)[i] = f[1 + i - 1]
      BY <3>1, <3>2, CutOut
    <3>4. \A i \in 1 .. n : 1 + i - 1 = i
      OBVIOUS
    <3>. QED
      BY <2>2, <3>2, <3>3, <3>4
  <2>4. p = g <=> \A i \in 1 .. n : p[i] = f[i]
    <3>1. (\A i \in 1 .. n : p[i] = g[i]) => p = g
      BY <1>1, <2>3, SeqEqual
    <3>. QED
      BY <2>3, <3>1
  <2>. QED
    BY <1>1, <1>2, <1>3, <2>1, <2>2, <2>4 DEF IsPrefix
<1>4. CASE ~(n <= m)
  BY <1>1, <1>2, <1>4 DEF IsPrefix
<1>. QED
  BY <1>3, <1>4

\* A rule's prefix matches the files that the rule names.
LEMMA PrefixNames ==
  ASSUME NEW S, NEW p \in Seq(S), NEW f \in Seq(S), p # << >>, f # << >>, Head(p) = Head(f)
  PROVE  IsPrefix(Tail(p), Tail(f)) <=> IsPrefix(p, f)
<1>1. PICK n \in Nat : n = Len(p)
  OBVIOUS
<1>2. PICK m \in Nat : m = Len(f)
  OBVIOUS
<1>3. PICK q \in Seq(S) : q = Tail(p) /\ Len(q) = n - 1 /\ \A i \in 1 .. n - 1 : q[i] = p[i + 1]
  <2>1. PICK q : q = Tail(p)
    OBVIOUS
  <2>2. q \in Seq(S) /\ Len(q) = Len(p) - 1 /\ \A i \in 1 .. Len(q) : q[i] = p[i + 1]
    BY <2>1, HeadTailProperties
  <2>. QED
    BY <1>1, <2>1, <2>2
<1>4. PICK g \in Seq(S) : g = Tail(f) /\ Len(g) = m - 1 /\ \A i \in 1 .. m - 1 : g[i] = f[i + 1]
  <2>1. PICK g : g = Tail(f)
    OBVIOUS
  <2>2. g \in Seq(S) /\ Len(g) = Len(f) - 1 /\ \A i \in 1 .. Len(g) : g[i] = f[i + 1]
    BY <2>1, HeadTailProperties
  <2>. QED
    BY <1>2, <2>1, <2>2
<1>5. p[1] = f[1] /\ n >= 1 /\ m >= 1
  BY <1>1, <1>2
<1>6. IsPrefix(p, f) <=> n <= m /\ \A i \in 1 .. n : p[i] = f[i]
  BY <1>1, <1>2, PrefixIs
<1>7. IsPrefix(q, g) <=> n - 1 <= m - 1 /\ \A i \in 1 .. n - 1 : q[i] = g[i]
  <2>1. IsPrefix(q, g) <=> Len(q) <= Len(g) /\ \A i \in 1 .. Len(q) : q[i] = g[i]
    BY PrefixIs
  <2>. QED
    BY <1>3, <1>4, <2>1
<1>8. ASSUME n <= m
      PROVE  (\A i \in 1 .. n - 1 : q[i] = g[i]) <=> \A i \in 1 .. n : p[i] = f[i]
  <2>1. ASSUME \A i \in 1 .. n - 1 : q[i] = g[i], NEW i \in 1 .. n
        PROVE  p[i] = f[i]
    <3>1. CASE i = 1
      BY <1>5, <3>1
    <3>2. CASE i # 1
      <4>1. PICK j \in 1 .. n - 1 : j + 1 = i
        <5>1. i - 1 \in 1 .. n - 1 /\ i - 1 + 1 = i
          BY <3>2
        <5>. QED
          BY <5>1
      <4>2. j \in 1 .. m - 1
        BY <1>8
      <4>. QED
        BY <1>3, <1>4, <2>1, <4>1, <4>2
    <3>. QED
      BY <3>1, <3>2
  <2>2. ASSUME \A i \in 1 .. n : p[i] = f[i], NEW i \in 1 .. n - 1
        PROVE  q[i] = g[i]
    <3>1. i + 1 \in 1 .. n /\ i \in 1 .. m - 1
      BY <1>8
    <3>. QED
      BY <1>3, <1>4, <2>2, <3>1
  <2>. QED
    BY <2>1, <2>2
<1>. QED
  BY <1>3, <1>4, <1>6, <1>7, <1>8

LEMMA PathIs ==
  ASSUME NEW q, At(q).kind # "missing"
  PROVE  At(q).path \in Seq(Char) /\ At(q).path # << >> /\ Head(At(q).path) = "/"
<1>1. q \in DOMAIN RealPath
  BY DEF At, Missing
<1>. QED
  BY <1>1, ConfigAssumption, TextAssumption

LEMMA AboveIs ==
  ASSUME NEW S, NEW p \in Seq(S), NEW f \in Seq(S), p # << >>, "/" \in S
  PROVE  IsPrefix(p \o <<"/">>, f) <=> p \in Above(f)
<1>1. PICK n \in Nat : n = Len(p)
  OBVIOUS
<1>2. PICK m \in Nat : m = Len(f)
  OBVIOUS
<1>3. n >= 1
  BY <1>1
<1>4. <<"/">> \in Seq(S) /\ Len(<<"/">>) = 1 /\ <<"/">>[1] = "/"
  OBVIOUS
<1>5. PICK q \in Seq(S) : q = p \o <<"/">>
  BY <1>4, ConcatProperties
<1>6. Len(q) = n + 1 /\ q[n + 1] = "/" /\ \A i \in 1 .. n : q[i] = p[i]
  <2>1. PICK t \in Seq(S) : t = <<"/">> /\ Len(t) = 1 /\ t[1] = "/"
    BY <1>4
  <2>2. /\ Len(p \o t) = n + 1
        /\ \A i \in 1 .. n + 1 : (p \o t)[i] = IF i <= n THEN p[i] ELSE t[i - n]
    BY <1>1, <2>1, ConcatProperties
  <2>3. n + 1 - n = 1 /\ n + 1 \in 1 .. n + 1 /\ ~(n + 1 <= n) /\ \A i \in 1 .. n : i \in 1 .. n + 1 /\ i <= n
    OBVIOUS
  <2>4. q = p \o t
    BY <1>5, <2>1
  <2>. QED
    BY <2>1, <2>2, <2>3, <2>4
<1>7. IsPrefix(q, f) <=> n + 1 <= m /\ \A i \in 1 .. n + 1 : q[i] = f[i]
  <2>1. IsPrefix(q, f) <=> Len(q) <= Len(f) /\ \A i \in 1 .. Len(q) : q[i] = f[i]
    BY PrefixIs
  <2>. QED
    BY <1>2, <1>6, <2>1
<1>8. ASSUME NEW j \in 2 .. m
      PROVE  SubSeq(f, 1, j - 1) \in Seq(S) /\ Len(SubSeq(f, 1, j - 1)) = j - 1
             /\ \A i \in 1 .. j - 1 : SubSeq(f, 1, j - 1)[i] = f[i]
  <2>1. 1 \in 1 .. Len(f) + 1 /\ j \in 1 .. Len(f) + 1
    BY <1>2
  <2>2. \A i \in 1 .. j - 1 : 1 + i - 1 = i
    OBVIOUS
  <2>. QED
    BY <2>1, <2>2, CutOut
<1>9. ASSUME IsPrefix(q, f)
      PROVE  p \in Above(f)
  <2>1. PICK j \in 2 .. m : j = n + 1
    BY <1>3, <1>7, <1>9
  <2>2. j - 1 = n
    BY <2>1
  <2>3. f[j] = "/" /\ \A i \in 1 .. n : f[i] = p[i]
    BY <1>6, <1>7, <1>9, <2>1
  <2>4. PICK t : t = SubSeq(f, 1, j - 1)
    OBVIOUS
  <2>5. t \in Seq(S) /\ Len(t) = n /\ \A i \in 1 .. n : t[i] = p[i]
    BY <1>8, <2>2, <2>3, <2>4
  <2>6. t = p
    BY <1>1, <2>5, SeqEqual
  <2>7. j \in 2 .. Len(f)
    BY <1>2
  <2>. QED
    BY <2>3, <2>4, <2>6, <2>7 DEF Above
<1>10. ASSUME p \in Above(f)
       PROVE  IsPrefix(q, f)
  <2>1. PICK j \in 2 .. Len(f) : f[j] = "/" /\ p = SubSeq(f, 1, j - 1)
    BY <1>10 DEF Above
  <2>2. j \in 2 .. m
    BY <1>2, <2>1
  <2>3. n = j - 1 /\ \A i \in 1 .. n : p[i] = f[i]
    BY <1>1, <1>8, <2>1, <2>2
  <2>4. n + 1 = j /\ n + 1 <= m
    BY <2>2, <2>3
  <2>5. \A i \in 1 .. n + 1 : i = n + 1 \/ i \in 1 .. n
    OBVIOUS
  <2>. QED
    BY <1>6, <1>7, <2>1, <2>3, <2>4, <2>5
<1>. QED
  BY <1>5, <1>9, <1>10

\* The files that the code's prefix of a rule matches.
Reaches(where, f) ==
  /\ ~IsPackage(where)
  /\ IF IsDirRule(where) THEN At(Stem(where)).kind = "dir" /\ At(Stem(where)).path \in Above(f)
     ELSE At(where).kind = "file" /\ IsPrefix(At(where).path, f)

LEMMA RuleMatches ==
  ASSUME NEW where, ~IsPackage(where), ~BadWhere(where), ~Unresolvable(Stem(where)),
         At(Stem(where)).kind # "missing", NEW f \in Files
  PROVE  IsPrefix(PrefixOf(where), Tail(f)) <=> Reaches(where, f)
<1>1. PICK p : p = At(Stem(where)).path
  OBVIOUS
<1>2. p \in Seq(Char) /\ p # << >> /\ Head(p) = "/"
  BY <1>1, PathIs
<1>3. f \in Seq(Char) /\ f # << >> /\ Head(f) = "/"
  BY ConfigAssumption, TextAssumption DEF Files
<1>4. PICK S : S = Char \cup {"/"}
  OBVIOUS
<1>5. p \in Seq(S) /\ f \in Seq(S) /\ "/" \in S
  BY <1>2, <1>3, <1>4, SeqMonotonic
<1>6. At(Stem(where)).kind = IF IsDirRule(where) THEN "dir" ELSE "file"
  BY DEF BadWhere, Unresolvable
<1>7. CASE IsDirRule(where)
  <2>1. PrefixOf(where) = Tail(p \o <<"/">>)
    BY <1>1, <1>7 DEF PrefixOf
  <2>2. Reaches(where, f) <=> p \in Above(f)
    BY <1>1, <1>6, <1>7 DEF Reaches
  <2>3. <<"/">> \in Seq(S) /\ <<"/">> # << >>
    BY <1>5
  <2>4. PICK t \in Seq(S) : t = <<"/">> /\ t # << >>
    BY <2>3
  <2>5. PICK q : q = p \o t
    OBVIOUS
  <2>6. q \in Seq(S) /\ q # << >> /\ Head(q) = "/"
    <3>1. PICK n \in Nat : n = Len(p)
      BY <1>5
    <3>2. n >= 1 /\ p[1] = "/"
      BY <1>2, <3>1
    <3>3. PICK m \in Nat : m = Len(t)
      OBVIOUS
    <3>4. q \in Seq(S) /\ Len(q) = n + m /\ \A i \in 1 .. n + m : q[i] = IF i <= n THEN p[i] ELSE t[i - n]
      BY <1>5, <2>5, <3>1, <3>3, ConcatProperties
    <3>5. 1 \in 1 .. n + m
      BY <3>2
    <3>6. q[1] = "/"
      BY <3>2, <3>4, <3>5
    <3>. QED
      BY <3>2, <3>4, <3>6
  <2>7. IsPrefix(Tail(q), Tail(f)) <=> IsPrefix(q, f)
    BY <1>3, <1>5, <2>6, PrefixNames
  <2>8. IsPrefix(p \o <<"/">>, f) <=> p \in Above(f)
    BY <1>2, <1>5, AboveIs
  <2>. QED
    BY <2>1, <2>2, <2>4, <2>5, <2>7, <2>8
<1>8. CASE ~IsDirRule(where)
  <2>1. Stem(where) = where
    BY <1>8 DEF Stem
  <2>2. PrefixOf(where) = Tail(p \o << >>)
    BY <1>1, <1>8 DEF PrefixOf
  <2>3. p \o << >> = p
    BY <1>2, ConcatEmptySeq
  <2>4. Reaches(where, f) <=> IsPrefix(p, f)
    BY <1>1, <1>6, <1>8, <2>1 DEF Reaches
  <2>5. IsPrefix(Tail(p), Tail(f)) <=> IsPrefix(p, f)
    BY <1>2, <1>3, PrefixNames
  <2>. QED
    BY <2>2, <2>3, <2>4, <2>5
<1>. QED
  BY <1>7, <1>8

\* A rule of what does not exist, or of a package, is for no file.
LEMMA NoRuleMatches ==
  ASSUME NEW where, IsPackage(where) \/ At(Stem(where)).kind = "missing", NEW f
  PROVE  ~Reaches(where, f)
<1>1. CASE IsPackage(where)
  BY <1>1 DEF Reaches
<1>2. CASE At(Stem(where)).kind = "missing"
  BY <1>2 DEF Reaches, Stem
<1>. QED
  BY <1>1, <1>2

\* What was read so far.
Handled(k) ==
  IF Parsing THEN {n \in With(k) : n < line.no}
  ELSE IF pc = "configured" /\ HasFile THEN With(k) ELSE {}
Saying(k, word) == {n \in Handled(k) : First(n) = word}
RuleKeys == {"addOptDepend", "removeOptDepend", "addLibPath"}

DependsInv ==
  /\ MapsTo(addOptDepends, Deps) /\ \A w : LinesIn(addOptDepends, w) = Sorted(Saying("addOptDepend", w))
  /\ MapsTo(removeOptDepends, Deps) /\ \A w : LinesIn(removeOptDepends, w) = Sorted(Saying("removeOptDepend", w))
PathRulesInv ==
  /\ MapsTo(packageRules, Rules)
  /\ \A w : IsPackage(w) => LinesIn(packageRules, w) = Sorted(Saying("addLibPath", w))
  /\ MapsTo(prefixRules, Rules)
  /\ \A f \in Files : Applying(f) = {n \in Handled("addLibPath") : Reaches(First(n), f)}
RulesInv == pc # "exit2" => DependsInv /\ PathRulesInv

LEMMA RulesAre ==
  ASSUME RulesInv
  PROVE  RulesExact
<1>. SUFFICES ASSUME pc = "configured", HasFile PROVE RulesExact
  BY DEF RulesExact
<1>1. \A k : Handled(k) = With(k)
  BY DEF Handled, Parsing
<1>2. \A k, w : Saying(k, w) = WithFirst(k, w)
  BY <1>1 DEF Saying, WithFirst
<1>3. DependsInv /\ PathRulesInv
  BY DEF RulesInv
<1>4. \A f \in Files : Applying(f) = {n \in With("addLibPath") : Reaches(First(n), f)}
  BY <1>1, <1>3 DEF PathRulesInv
<1>5. ASSUME NEW n \in SettingNos
      PROVE  /\ n \in With("addLibPath") /\ IsPackage(First(n)) =>
                  LinesIn(packageRules, First(n)) = Sorted(WithFirst("addLibPath", First(n)))
             /\ n \in With("addOptDepend") =>
                  LinesIn(addOptDepends, First(n)) = Sorted(WithFirst("addOptDepend", First(n)))
             /\ n \in With("removeOptDepend") =>
                  LinesIn(removeOptDepends, First(n)) = Sorted(WithFirst("removeOptDepend", First(n)))
  BY <1>2, <1>3 DEF DependsInv, PathRulesInv
<1>6. ASSUME NEW f \in Files, NEW n \in With("addLibPath"), ~IsPackage(First(n)), IsDirRule(First(n))
      PROVE  n \in Applying(f) <=> At(Stem(First(n))).kind = "dir" /\ At(Stem(First(n))).path \in Above(f)
  BY <1>4, <1>6 DEF Reaches
<1>7. ASSUME NEW f \in Files, NEW n \in With("addLibPath"), ~IsPackage(First(n)), ~IsDirRule(First(n)),
             At(Stem(First(n))).kind = "file", At(Stem(First(n))).path = f
      PROVE  n \in Applying(f)
  <2>1. Stem(First(n)) = First(n)
    BY <1>7 DEF Stem
  <2>2. f \in Seq(Char)
    BY ConfigAssumption, TextAssumption DEF Files
  <2>3. IsPrefix(f, f)
    BY <2>2, PrefixIs
  <2>4. Reaches(First(n), f)
    BY <1>7, <2>1, <2>3 DEF Reaches
  <2>. QED
    BY <1>4, <2>4
<1>8. \A f \in Files : Applying(f) \subseteq {n \in With("addLibPath") : ~IsPackage(First(n))}
  BY <1>4 DEF Reaches
<1>9. ASSUME NEW f \in Files, NEW n \in With("addLibPath")
      PROVE  LET where == First(n)
                 known == At(Stem(where))
             IN  ~IsPackage(where) =>
                   /\ IsDirRule(where) /\ known.path # <<"/">> /\ Stem(where) # << >> =>
                        (n \in Applying(f) <=> known.kind = "dir" /\ known.path \in Above(f))
                   /\ ~IsDirRule(where) /\ known.kind = "file" /\ known.path = f => n \in Applying(f)
  BY <1>6, <1>7
<1>. QED
  BY <1>5, <1>8, <1>9 DEF RulesExact

LEMMA RulesKept ==
  ASSUME RulesInv, pc # "exit2", input' = input, addOptDepends' = addOptDepends, removeOptDepends' = removeOptDepends,
         packageRules' = packageRules, prefixRules' = prefixRules, \A k \in RuleKeys : Handled(k)' = Handled(k)
  PROVE  RulesInv'
<1>1. \A n : First(n)' = First(n)
  BY SameFile DEF First
<1>2. \A k \in RuleKeys : \A w : Saying(k, w)' = Saying(k, w)
  BY <1>1 DEF Saying
<1>3. DependsInv'
  <2>1. DependsInv
    BY DEF RulesInv
  <2>. QED
    BY <1>2, <2>1 DEF DependsInv, RuleKeys
<1>4. \A f \in Files : Applying(f)' = Applying(f)
  BY DEF Applying
<1>5. PathRulesInv'
  <2>1. PathRulesInv
    BY DEF RulesInv
  <2>2. MapsTo(packageRules, Rules)' /\ MapsTo(prefixRules, Rules)'
    BY <2>1 DEF PathRulesInv
  <2>3. ASSUME NEW w, IsPackage(w)
        PROVE  LinesIn(packageRules', w) = Sorted(Saying("addLibPath", w)')
    BY <1>2, <2>1, <2>3 DEF PathRulesInv, RuleKeys
  <2>4. ASSUME NEW f \in Files
        PROVE  Applying(f)' = {n \in Handled("addLibPath")' : Reaches(First(n)', f)}
    BY <1>1, <1>4, <2>1 DEF PathRulesInv, RuleKeys
  <2>. QED
    BY <2>2, <2>3, <2>4 DEF PathRulesInv
<1>. QED
  BY <1>3, <1>5 DEF RulesInv

LEMMA HandledLine ==
  ASSUME input' = input, Parsing, Parsing', line'.no = line.no, NEW k
  PROVE  Handled(k)' = Handled(k)
<1>1. With(k)' = With(k)
  BY SameFile
<1>. QED
  BY <1>1 DEF Handled

LEMMA HandledNext ==
  ASSUME TextInv, input' = input, Parsing, Parsing', line'.no = line.no + 1, NEW k
  PROVE  /\ line.no \in With(k) => Handled(k)' = Handled(k) \cup {line.no}
         /\ line.no \notin With(k) => Handled(k)' = Handled(k)
<1>1. HasFile
  BY DEF TextInv
<1>2. With(k)' = With(k) /\ \A n \in With(k) : n \in Nat
  BY <1>1, SameFile, LinesType DEF With, SettingNos
<1>3. PICK l \in Nat : l = line.no
  BY DEF TextInv, LineIs
<1>4. PICK W : W = With(k)
  OBVIOUS
<1>5. Handled(k) = {n \in W : n < l} /\ Handled(k)' = {n \in W : n < l + 1}
  BY <1>2, <1>3, <1>4 DEF Handled
<1>6. \A n \in W : n < l + 1 <=> n < l \/ n = l
  BY <1>2, <1>4
<1>. QED
  BY <1>3, <1>4, <1>5, <1>6

\* A line that says nothing of rules.
LEMMA RulesNextLine ==
  ASSUME TextInv, RulesInv, input' = input, Parsing, pc' = "parse", line'.no = line.no + 1,
         addOptDepends' = addOptDepends, removeOptDepends' = removeOptDepends,
         packageRules' = packageRules, prefixRules' = prefixRules,
         \A k \in RuleKeys : line.no \notin With(k)
  PROVE  RulesInv'
<1>1. Parsing' /\ pc # "exit2"
  BY DEF Parsing
<1>2. \A k \in RuleKeys : Handled(k)' = Handled(k)
  BY <1>1, HandledNext
<1>. QED
  BY <1>1, <1>2, RulesKept

Early == {"args", "bins", "libs", "environment", "open"}

\* Before the configuration is opened there are no rules.
LEMMA EarlyKeeps ==
  ASSUME pc \in Early, ReadArgument \/ EndOfArguments \/ AppendDefaultBin \/ EndOfBins \/ AppendDefaultLib
                        \/ ReadEnvironment \/ EnvironmentPart \/ EndOfEnvironment
  PROVE  /\ input' = input /\ pc' \in Early \cup {"exit2"} /\ ignoreFiles' = ignoreFiles
         /\ addOptDepends' = addOptDepends /\ removeOptDepends' = removeOptDepends
         /\ packageRules' = packageRules /\ prefixRules' = prefixRules
<1>0. input' = input /\ pc' \in Early \cup {"exit2"} /\ ruleVars' = ruleVars
  <2>1. CASE ReadArgument
    BY <2>1 DEF ReadArgument, Exit2, settingVars, Early
  <2>2. CASE EndOfArguments
    BY <2>2 DEF EndOfArguments, Exit2, settingVars, Early
  <2>3. CASE AppendDefaultBin
    BY <2>3 DEF AppendDefaultBin, AppendDefault, Exit2, settingVars, Early
  <2>4. CASE EndOfBins
    BY <2>4 DEF EndOfBins, settingVars, Early
  <2>5. CASE AppendDefaultLib
    BY <2>5 DEF AppendDefaultLib, AppendDefault, Exit2, settingVars, Early
  <2>6. CASE ReadEnvironment
    BY <2>6 DEF ReadEnvironment, settingVars, Early
  <2>7. CASE EnvironmentPart
    BY <2>7 DEF EnvironmentPart, PartsOf, Exit2, settingVars, Early
  <2>8. CASE EndOfEnvironment
    BY <2>8 DEF EndOfEnvironment, settingVars, Early
  <2>. QED
    BY <2>1, <2>2, <2>3, <2>4, <2>5, <2>6, <2>7, <2>8
<1>. QED
  BY <1>0 DEF ruleVars

LEMMA RulesEarly ==
  ASSUME RulesInv, pc \in Early, ReadArgument \/ EndOfArguments \/ AppendDefaultBin \/ EndOfBins \/ AppendDefaultLib
                        \/ ReadEnvironment \/ EnvironmentPart \/ EndOfEnvironment
  PROVE  RulesInv'
<1>1. /\ input' = input /\ pc' \in Early \cup {"exit2"}
      /\ addOptDepends' = addOptDepends /\ removeOptDepends' = removeOptDepends
      /\ packageRules' = packageRules /\ prefixRules' = prefixRules
  BY EarlyKeeps
<1>3. CASE pc' = "exit2"
  BY <1>3 DEF RulesInv
<1>4. CASE pc' \in Early
  <2>1. \A k \in RuleKeys : Handled(k)' = Handled(k)
    BY <1>4 DEF Early, Handled, Parsing
  <2>2. pc # "exit2"
    BY DEF Early
  <2>. QED
    BY <1>1, <2>1, <2>2, RulesKept
<1>. QED
  BY <1>1, <1>3, <1>4

LEMMA RulesOpenConfig ==
  ASSUME TextInv, RulesInv, OpenConfig
  PROVE  RulesInv'
<1>1. pc = "open" /\ input' = input /\ pc' \in {"parse", "configured", "exit2"} /\ ruleVars' = ruleVars
  BY DEF OpenConfig, Exit2, settingVars
<1>2. /\ addOptDepends' = addOptDepends /\ removeOptDepends' = removeOptDepends
      /\ packageRules' = packageRules /\ prefixRules' = prefixRules
  BY <1>1 DEF ruleVars
<1>3. CASE pc' = "exit2"
  BY <1>3 DEF RulesInv
<1>4. CASE pc' = "configured"
  <2>1. ~HasFile
    <3>1. File = Absent \/ File = Unreadable
      BY <1>4 DEF OpenConfig, File
    <3>. QED
      BY <3>1 DEF HasFile
  <2>2. ~HasFile'
    BY <1>1, <2>1, SameFile
  <2>3. \A k \in RuleKeys : Handled(k)' = Handled(k)
    BY <1>1, <1>4, <2>2 DEF Handled, Parsing
  <2>. QED
    BY <1>1, <1>2, <2>3, RulesKept
<1>5. CASE pc' = "parse"
  <2>1. line'.no = 1 /\ HasFile
    BY <1>5, TextOpenConfig
  <2>2. \A k \in RuleKeys : Handled(k)' = Handled(k)
    <3>. SUFFICES ASSUME NEW k \in RuleKeys PROVE Handled(k)' = Handled(k)
      OBVIOUS
    <3>1. With(k)' = With(k) /\ \A n \in With(k) : n \in Nat /\ n # 0
      BY <1>1, <2>1, SameFile, LinesType DEF With, SettingNos
    <3>2. {n \in With(k) : n < 1} = {}
      BY <3>1
    <3>3. Handled(k)' = {n \in With(k) : n < 1}
      BY <1>5, <2>1, <3>1 DEF Handled, Parsing
    <3>4. Handled(k) = {}
      BY <1>1 DEF Handled, Parsing
    <3>. QED
      BY <3>2, <3>3, <3>4
  <2>. QED
    BY <1>1, <1>2, <2>2, RulesKept
<1>. QED
  BY <1>1, <1>3, <1>4, <1>5

LEMMA RulesParserStep ==
  ASSUME TextInv, RulesInv, ParserStep
  PROVE  RulesInv'
<1>1. pc = "parse" /\ pc' = pc /\ input' = input /\ ruleVars' = ruleVars /\ (SkipLine \/ ParseLine)
  BY DEF ParserStep, settingVars
<1>2. /\ addOptDepends' = addOptDepends /\ removeOptDepends' = removeOptDepends
      /\ packageRules' = packageRules /\ prefixRules' = prefixRules
  BY <1>1 DEF ruleVars
<1>3. CASE SkipLine
  <2>1. line'.no = line.no + 1 /\ line.no \notin LineNos
    BY <1>1, <1>3, TextSkip
  <2>2. \A k \in RuleKeys : line.no \notin With(k)
    BY <2>1 DEF With, SettingNos
  <2>. QED
    BY <1>1, <1>2, <2>1, <2>2, RulesNextLine DEF Parsing
<1>4. CASE ParseLine
  <2>1. line' = line
    BY <1>4 DEF ParseLine
  <2>2. Parsing /\ Parsing' /\ line'.no = line.no
    BY <1>1, <2>1 DEF Parsing
  <2>3. \A k \in RuleKeys : Handled(k)' = Handled(k)
    BY <1>1, <2>2, HandledLine
  <2>. QED
    BY <1>1, <1>2, <2>3, RulesKept
<1>. QED
  BY <1>1, <1>3, <1>4

LEMMA RulesConfigured ==
  ASSUME TextInv, RulesInv, Configured
  PROVE  RulesInv'
<1>1. pc = "parse" /\ AtEnd /\ pc' = "configured" /\ input' = input /\ ruleVars' = ruleVars
  BY DEF Configured, EndOfFile, settingVars
<1>2. /\ addOptDepends' = addOptDepends /\ removeOptDepends' = removeOptDepends
      /\ packageRules' = packageRules /\ prefixRules' = prefixRules
  BY <1>1 DEF ruleVars
<1>3. HasFile /\ \A n \in LineNos : n < line.no
  BY <1>1, AllLinesRead
<1>4. \A k \in RuleKeys : Handled(k)' = Handled(k)
  <2>. SUFFICES ASSUME NEW k \in RuleKeys PROVE Handled(k)' = Handled(k)
    OBVIOUS
  <2>1. With(k)' = With(k) /\ HasFile'
    BY <1>1, <1>3, SameFile
  <2>2. {n \in With(k) : n < line.no} = With(k)
    BY <1>3 DEF With, SettingNos
  <2>. QED
    BY <1>1, <2>1, <2>2 DEF Handled, Parsing
<1>. QED
  BY <1>1, <1>2, <1>4, RulesKept

LEMMA RulesScan ==
  ASSUME TextInv, RulesInv, ScanMore \/ ScanPart
  PROVE  RulesInv'
<1>1. pc \in {"parse", "parts"} /\ input' = input /\ line' = line /\ ruleVars' = ruleVars /\ pc' \in {"parts", "exit2"}
  <2>1. CASE ScanMore
    BY <2>1 DEF ScanMore, OnLine, settingVars
  <2>2. CASE ScanPart
    BY <2>2 DEF ScanPart, PartsOf, Exit2, settingVars, parserVars
  <2>. QED
    BY <2>1, <2>2
<1>2. /\ addOptDepends' = addOptDepends /\ removeOptDepends' = removeOptDepends
      /\ packageRules' = packageRules /\ prefixRules' = prefixRules
  BY <1>1 DEF ruleVars
<1>3. CASE pc' = "exit2"
  BY <1>3 DEF RulesInv
<1>4. CASE pc' # "exit2"
  <2>1. Parsing /\ Parsing' /\ line'.no = line.no
    BY <1>1, <1>4 DEF Parsing
  <2>2. \A k \in RuleKeys : Handled(k)' = Handled(k)
    BY <1>1, <2>1, HandledLine
  <2>3. pc # "exit2"
    BY <1>1
  <2>. QED
    BY <1>1, <1>2, <2>2, <2>3, RulesKept
<1>. QED
  BY <1>3, <1>4

LEMMA RulesEndOfParts ==
  ASSUME TextInv, ErrorInv, RulesInv, EndOfParts
  PROVE  RulesInv'
<1>1. pc = "parts" /\ pc' = "parse" /\ input' = input /\ ruleVars' = ruleVars
  BY DEF EndOfParts, settingVars
<1>2. /\ addOptDepends' = addOptDepends /\ removeOptDepends' = removeOptDepends
      /\ packageRules' = packageRules /\ prefixRules' = prefixRules
  BY <1>1 DEF ruleVars
<1>3. line'.no = line.no + 1
  BY TextEndOfParts
<1>4. PICK j \in ScanKeys : line.no \in With(j)
  BY <1>1 DEF ErrorInv, LinesInv
<1>5. ScanKeys \cap RuleKeys = {}
  BY DEF ScanKeys, RuleKeys
<1>6. \A k \in RuleKeys : line.no \notin With(k)
  BY <1>4, <1>5, KeysDiffer
<1>. QED
  BY <1>1, <1>2, <1>3, <1>6, RulesNextLine DEF Parsing

LEMMA RulesIgnoreFiles ==
  ASSUME TextInv, RulesInv, IgnoreFiles
  PROVE  RulesInv'
<1>1. pc = "parse" /\ at = "onLine" /\ OnLine({"ignoreFiles"}) /\ (Reject \/ Accept)
  BY DEF IgnoreFiles, OnLine
<1>2. CASE pc' = "exit2"
  BY <1>2 DEF RulesInv
<1>3. CASE pc' # "exit2"
  <2>1. /\ Accept /\ addOptDepends' = addOptDepends /\ removeOptDepends' = removeOptDepends
        /\ packageRules' = packageRules /\ prefixRules' = prefixRules
    BY <1>3 DEF IgnoreFiles, Reject, Exit2
  <2>2. pc' = "parse" /\ input' = input
    BY <1>1, <2>1 DEF Accept
  <2>3. line'.no = line.no + 1
    BY <1>1, <2>1, TextAccept
  <2>4. line.no \in With("ignoreFiles")
    BY <1>1, KeyLine
  <2>5. \A k \in RuleKeys : line.no \notin With(k)
    BY <2>4, KeysDiffer DEF RuleKeys
  <2>. QED
    BY <1>1, <2>1, <2>2, <2>3, <2>5, RulesNextLine DEF Parsing
<1>. QED
  BY <1>2, <1>3

LEMMA RangeMore ==
  ASSUME NEW S, NEW s \in Seq(S), NEW e \in S
  PROVE  Range(Append(s, e)) = Range(s) \cup {e}
<1>1. PICK n \in Nat : n = Len(s)
  OBVIOUS
<1>2. PICK t : t = Append(s, e)
  OBVIOUS
<1>3. DOMAIN t = 1 .. n + 1 /\ t[n + 1] = e /\ (\A i \in 1 .. n : t[i] = s[i]) /\ DOMAIN s = 1 .. n
  BY <1>1, <1>2, AppendProperties
<1>4. ASSUME NEW v
      PROVE  v \in Range(t) <=> v \in Range(s) \cup {e}
  <2>1. v \in Range(t) <=> \E i \in 1 .. n + 1 : v = t[i]
    BY <1>3 DEF Range
  <2>2. v \in Range(s) <=> \E i \in 1 .. n : v = s[i]
    BY <1>3 DEF Range
  <2>3. \A i \in 1 .. n + 1 : i \in 1 .. n \/ i = n + 1
    OBVIOUS
  <2>4. n + 1 \in 1 .. n + 1 /\ \A i \in 1 .. n : i \in 1 .. n + 1
    OBVIOUS
  <2>. QED
    BY <1>3, <2>1, <2>2, <2>3, <2>4
<1>. QED
  BY <1>2, <1>4

\* A new rule applies where its prefix matches.
LEMMA ApplyingMore ==
  ASSUME MapsTo(prefixRules, Rules), NEW k, NEW x \in Rules, prefixRules' = Pushed(prefixRules, k, x), NEW f
  PROVE  Applying(f)' = Applying(f) \cup (IF IsPrefix(k, Tail(f)) THEN {x.line} ELSE {})
<1>1. ASSUME NEW map, NEW v
      PROVE  v \in UNION {Range(LinesIn(map, j)) : j \in {p \in DOMAIN map : IsPrefix(p, Tail(f))}}
             <=> \E j : IsPrefix(j, Tail(f)) /\ v \in Range(LinesIn(map, j))
  <2>1. \A j : j \notin DOMAIN map => Range(LinesIn(map, j)) = {}
    BY DEF LinesIn, Range
  <2>. QED
    BY <2>1
<1>2. PICK new : new = Pushed(prefixRules, k, x)
  OBVIOUS
<1>3. LinesIn(new, k) = Append(LinesIn(prefixRules, k), x.line) /\ \A j : j # k => LinesIn(new, j) = LinesIn(prefixRules, j)
  BY <1>2, PushedIs DEF PushedBehind
<1>4. LinesIn(prefixRules, k) \in Seq(Nat) /\ x.line \in Nat
  BY LinesInType DEF MapsTo
<1>5. Range(LinesIn(new, k)) = Range(LinesIn(prefixRules, k)) \cup {x.line}
  BY <1>3, <1>4, RangeMore
<1>6. ASSUME NEW v
      PROVE  v \in Applying(f)' <=> v \in Applying(f) \cup (IF IsPrefix(k, Tail(f)) THEN {x.line} ELSE {})
  <2>1. v \in Applying(f)' <=> \E j : IsPrefix(j, Tail(f)) /\ v \in Range(LinesIn(new, j))
    BY <1>1, <1>2 DEF Applying
  <2>2. v \in Applying(f) <=> \E j : IsPrefix(j, Tail(f)) /\ v \in Range(LinesIn(prefixRules, j))
    BY <1>1 DEF Applying
  <2>3. \A j : v \in Range(LinesIn(new, j)) <=> v \in Range(LinesIn(prefixRules, j)) \/ (j = k /\ v = x.line)
    BY <1>3, <1>5
  <2>. QED
    BY <2>1, <2>2, <2>3
<1>. QED
  BY <1>6

LEMMA SortedSaying ==
  ASSUME TextInv, Parsing, NEW k, NEW w
  PROVE  Sorted(Saying(k, w) \cup {line.no}) = Append(Sorted(Saying(k, w)), line.no)
<1>1. HasFile
  BY DEF TextInv
<1>2. PICK m \in Nat : LineNos \in SUBSET (0 .. m)
  BY <1>1, LinesType
<1>3. Saying(k, w) \in SUBSET (0 .. m) /\ \A n \in Saying(k, w) : n < line.no
  BY <1>2 DEF Saying, Handled, With, SettingNos
<1>4. line.no \in Nat
  BY DEF TextInv, LineIs
<1>. QED
  BY <1>2, <1>3, <1>4, SortedNew

\* What the line at hand adds.
LEMMA SayingNext ==
  ASSUME TextInv, input' = input, Parsing, Parsing', line'.no = line.no + 1, NEW k
  PROVE  /\ line.no \in With(k) =>
              /\ Handled(k)' = Handled(k) \cup {line.no}
              /\ \A w : Saying(k, w)' = IF w = First(line.no) THEN Saying(k, w) \cup {line.no} ELSE Saying(k, w)
         /\ line.no \notin With(k) => Handled(k)' = Handled(k) /\ \A w : Saying(k, w)' = Saying(k, w)
<1>1. \A n : First(n)' = First(n)
  BY SameFile DEF First
<1>2. /\ line.no \in With(k) => Handled(k)' = Handled(k) \cup {line.no}
      /\ line.no \notin With(k) => Handled(k)' = Handled(k)
  BY HandledNext
<1>3. PICK l : l = line.no
  OBVIOUS
<1>4. PICK first : first = First(l)
  OBVIOUS
<1>5. PICK H : H = Handled(k)
  OBVIOUS
<1>6. \A w : Saying(k, w) = {n \in H : First(n) = w} /\ Saying(k, w)' = {n \in Handled(k)' : First(n) = w}
  BY <1>1, <1>5 DEF Saying
<1>7. CASE l \in With(k)
  <2>1. Handled(k)' = H \cup {l}
    BY <1>2, <1>3, <1>5, <1>7
  <2>2. \A w : Saying(k, w)' = {n \in H \cup {l} : First(n) = w}
    BY <1>6, <2>1
  <2>3. Saying(k, first)' = Saying(k, first) \cup {l}
    BY <1>4, <1>6, <2>2
  <2>4. \A w : w # first => Saying(k, w)' = Saying(k, w)
    BY <1>4, <1>6, <2>2
  <2>. QED
    BY <1>3, <1>4, <1>5, <1>7, <2>1, <2>3, <2>4
<1>8. CASE l \notin With(k)
  BY <1>2, <1>3, <1>5, <1>6, <1>8
<1>. QED
  BY <1>7, <1>8

LEMMA PairIs ==
  ASSUME TextInv, pc = "parse", at = "onLine", NEW p \in Pairs(Value)
  PROVE  p[1] = First(line.no) /\ p[1] \in Seq(Char) /\ p[2] \in Seq(Char)
<1>1. Value = ValueOf(line.no) /\ Solids(Value)
  BY KeyLine
<1>2. PICK v \in Seq(Char) : v = Value /\ Solids(v)
  BY <1>1 DEF Solids
<1>3. p[1] = Words(v, Spaces)[1] /\ p[2] = Words(v, Spaces)[2] /\ Len(Words(v, Spaces)) = 2
  BY <1>2, PairsAre
<1>4. Words(v, Spaces) \in Seq(Seq(Char))
  BY <1>2, WordsType
<1>5. PICK w \in Seq(Seq(Char)) : w = Words(v, Spaces) /\ Len(w) = 2
  BY <1>3, <1>4
<1>6. \A i \in 1 .. Len(w) : w[i] \in Seq(Char)
  BY TakenMore
<1>7. 1 \in 1 .. Len(w) /\ 2 \in 1 .. Len(w)
  BY <1>5
<1>. QED
  BY <1>1, <1>2, <1>3, <1>5, <1>6, <1>7 DEF First

\* A line for one of two maps of dependencies: map is handled, the others are not.
LEMMA DependsMore ==
  ASSUME TextInv, NEW k, NEW map, MapsTo(map, Deps), \A w : LinesIn(map, w) = Sorted(Saying(k, w)),
         Parsing, Parsing', input' = input, line'.no = line.no + 1, line.no \in With(k),
         NEW name \in Seq(Char)
  PROVE  LET new == Pushed(map, First(line.no), [name |-> name, line |-> line.no])
         IN  MapsTo(new, Deps) /\ \A w : LinesIn(new, w) = Sorted(Saying(k, w)')
<1>1. PICK dep : dep = [name |-> name, line |-> line.no]
  OBVIOUS
<1>2. dep \in Deps /\ dep.line = line.no
  <2>1. line.no \in Nat
    BY DEF TextInv, LineIs
  <2>. QED
    BY <1>1, <2>1 DEF Deps
<1>3. PICK first : first = First(line.no)
  OBVIOUS
<1>4. PICK new : new = Pushed(map, first, dep)
  OBVIOUS
<1>5. /\ MapsTo(new, Deps) /\ LinesIn(new, first) = Append(LinesIn(map, first), line.no)
      /\ \A j : j # first => LinesIn(new, j) = LinesIn(map, j)
  <2>1. PushedBehind(Deps, map, first, dep)
    BY <1>2, PushedIs
  <2>. QED
    BY <1>2, <1>4, <2>1 DEF PushedBehind
<1>6. \A w : Saying(k, w)' = IF w = first THEN Saying(k, w) \cup {line.no} ELSE Saying(k, w)
  BY <1>3, SayingNext
<1>7. Sorted(Saying(k, first) \cup {line.no}) = Append(Sorted(Saying(k, first)), line.no)
  BY SortedSaying
<1>8. \A w : LinesIn(new, w) = Sorted(Saying(k, w)')
  <2>. SUFFICES ASSUME NEW w PROVE LinesIn(new, w) = Sorted(Saying(k, w)')
    OBVIOUS
  <2>1. CASE w = first
    BY <1>5, <1>6, <1>7, <2>1
  <2>2. CASE w # first
    BY <1>5, <1>6, <2>2
  <2>. QED
    BY <2>1, <2>2
<1>. QED
  BY <1>1, <1>3, <1>4, <1>5, <1>8

\* A rule's line, for a map that it is not for.
LEMMA SayingSame ==
  ASSUME TextInv, Parsing, Parsing', input' = input, line'.no = line.no + 1, NEW k, line.no \notin With(k)
  PROVE  Handled(k)' = Handled(k) /\ \A w : Saying(k, w)' = Saying(k, w)
BY SayingNext

LEMMA PathRulesKept ==
  ASSUME PathRulesInv, input' = input, packageRules' = packageRules, prefixRules' = prefixRules,
         Handled("addLibPath")' = Handled("addLibPath")
  PROVE  PathRulesInv'
<1>1. \A n : First(n)' = First(n)
  BY SameFile DEF First
<1>2. \A w : Saying("addLibPath", w)' = Saying("addLibPath", w)
  BY <1>1 DEF Saying
<1>3. \A f \in Files : Applying(f)' = Applying(f)
  BY DEF Applying
<1>4. MapsTo(packageRules, Rules)' /\ MapsTo(prefixRules, Rules)'
  BY DEF PathRulesInv
<1>5. ASSUME NEW w, IsPackage(w)
      PROVE  LinesIn(packageRules', w) = Sorted(Saying("addLibPath", w)')
  BY <1>2, <1>5 DEF PathRulesInv
<1>6. ASSUME NEW f \in Files
      PROVE  Applying(f)' = {n \in Handled("addLibPath")' : Reaches(First(n)', f)}
  BY <1>1, <1>3 DEF PathRulesInv
<1>. QED
  BY <1>4, <1>5, <1>6 DEF PathRulesInv

LEMMA RulesOptDepend ==
  ASSUME TextInv, RulesInv, OptDepend
  PROVE  RulesInv'
<1>1. pc = "parse" /\ at = "onLine" /\ OnLine({"addOptDepend", "removeOptDepend"})
  BY DEF OptDepend, OnLine
<1>2. CASE pc' = "exit2"
  BY <1>2 DEF RulesInv
<1>3. CASE pc' # "exit2"
  <2>1. PICK p \in Pairs(Value) :
          LET dep == [name |-> p[2], line |-> line.no]
          IN  /\ IF IsAdd
                 THEN addOptDepends' = Pushed(addOptDepends, p[1], dep) /\ UNCHANGED removeOptDepends
                 ELSE removeOptDepends' = Pushed(removeOptDepends, p[1], dep) /\ UNCHANGED addOptDepends
              /\ Accept /\ UNCHANGED <<ignoreFiles, packageRules, prefixRules>>
    BY <1>3 DEF OptDepend, Reject, Exit2
  <2>2. Accept /\ packageRules' = packageRules /\ prefixRules' = prefixRules
    BY <2>1
  <2>3. input' = input /\ line'.no = line.no + 1 /\ pc' = "parse"
    BY <1>1, <2>2, TextAccept DEF Accept
  <2>4. Parsing /\ Parsing'
    BY <1>1, <2>3 DEF Parsing
  <2>5. p[1] = First(line.no) /\ p[2] \in Seq(Char)
    BY <1>1, PairIs
  <2>6. PICK name \in Seq(Char) : name = p[2]
    BY <2>5
  <2>7. PICK k \in {"addOptDepend", "removeOptDepend"} : line.no \in With(k)
    BY <1>1, KeyLine
  <2>8. \A j : j # k => line.no \notin With(j)
    BY <2>7, KeysDiffer
  <2>9. IsAdd <=> k = "addOptDepend"
    <3>1. SubSeq(buf, key.begin, key.end - 1) = KeyOf(line.no)
      BY <1>1, <2>4, OnLineIs
    <3>2. KeyOf(line.no) = <<k>>
      BY <2>7 DEF With
    <3>3. <<k>> = <<"addOptDepend">> <=> k = "addOptDepend"
      <4>1. <<k>>[1] = k /\ <<"addOptDepend">>[1] = "addOptDepend"
        OBVIOUS
      <4>. QED
        BY <4>1
    <3>. QED
      BY <3>1, <3>2, <3>3 DEF IsAdd
  <2>10. DependsInv /\ PathRulesInv
    BY <1>1 DEF RulesInv
  <2>11. PathRulesInv'
    <3>1. line.no \notin With("addLibPath")
      BY <2>7, <2>8
    <3>2. Handled("addLibPath")' = Handled("addLibPath")
      BY <2>3, <2>4, <3>1, SayingSame
    <3>. QED
      BY <2>2, <2>3, <2>10, <3>2, PathRulesKept
  <2>12. CASE k = "addOptDepend"
    <3>1. /\ addOptDepends' = Pushed(addOptDepends, First(line.no), [name |-> name, line |-> line.no])
          /\ removeOptDepends' = removeOptDepends
      BY <2>1, <2>5, <2>6, <2>9, <2>12
    <3>2. \A w : Saying("removeOptDepend", w)' = Saying("removeOptDepend", w)
      <4>1. line.no \notin With("removeOptDepend")
        BY <2>8, <2>12
      <4>. QED
        BY <2>3, <2>4, <4>1, SayingSame
    <3>3. MapsTo(addOptDepends, Deps) /\ \A w : LinesIn(addOptDepends, w) = Sorted(Saying("addOptDepend", w))
      BY <2>10 DEF DependsInv
    <3>4. PICK map : map = addOptDepends
      OBVIOUS
    <3>5. MapsTo(map, Deps) /\ \A w : LinesIn(map, w) = Sorted(Saying(k, w))
      BY <2>12, <3>3, <3>4
    <3>6. LET new == Pushed(map, First(line.no), [name |-> name, line |-> line.no])
          IN  MapsTo(new, Deps) /\ \A w : LinesIn(new, w) = Sorted(Saying(k, w)')
      BY <2>3, <2>4, <2>7, <3>5, DependsMore
    <3>7. MapsTo(addOptDepends', Deps) /\ \A w : LinesIn(addOptDepends', w) = Sorted(Saying("addOptDepend", w)')
      BY <2>12, <3>1, <3>4, <3>6
    <3>8. DependsInv'
      <4>1. MapsTo(removeOptDepends', Deps) /\ \A w : LinesIn(removeOptDepends', w) = Sorted(Saying("removeOptDepend", w)')
        BY <2>10, <3>1, <3>2 DEF DependsInv
      <4>. QED
        BY <3>7, <4>1 DEF DependsInv
    <3>. QED
      BY <2>11, <3>8 DEF RulesInv
  <2>13. CASE k = "removeOptDepend"
    <3>1. /\ removeOptDepends' = Pushed(removeOptDepends, First(line.no), [name |-> name, line |-> line.no])
          /\ addOptDepends' = addOptDepends
      BY <2>1, <2>5, <2>6, <2>9, <2>13
    <3>2. \A w : Saying("addOptDepend", w)' = Saying("addOptDepend", w)
      <4>1. line.no \notin With("addOptDepend")
        BY <2>8, <2>13
      <4>. QED
        BY <2>3, <2>4, <4>1, SayingSame
    <3>3. MapsTo(removeOptDepends, Deps) /\ \A w : LinesIn(removeOptDepends, w) = Sorted(Saying("removeOptDepend", w))
      BY <2>10 DEF DependsInv
    <3>4. PICK map : map = removeOptDepends
      OBVIOUS
    <3>5. MapsTo(map, Deps) /\ \A w : LinesIn(map, w) = Sorted(Saying(k, w))
      BY <2>13, <3>3, <3>4
    <3>6. LET new == Pushed(map, First(line.no), [name |-> name, line |-> line.no])
          IN  MapsTo(new, Deps) /\ \A w : LinesIn(new, w) = Sorted(Saying(k, w)')
      BY <2>3, <2>4, <2>7, <3>5, DependsMore
    <3>7. MapsTo(removeOptDepends', Deps) /\ \A w : LinesIn(removeOptDepends', w) = Sorted(Saying("removeOptDepend", w)')
      BY <2>13, <3>1, <3>4, <3>6
    <3>8. DependsInv'
      <4>1. MapsTo(addOptDepends', Deps) /\ \A w : LinesIn(addOptDepends', w) = Sorted(Saying("addOptDepend", w)')
        BY <2>10, <3>1, <3>2 DEF DependsInv
      <4>. QED
        BY <3>7, <4>1 DEF DependsInv
    <3>. QED
      BY <2>11, <3>8 DEF RulesInv
  <2>. QED
    BY <2>12, <2>13
<1>. QED
  BY <1>2, <1>3

LEMMA RuleIs ==
  ASSUME TextInv, Parsing, NEW what \in Seq(Char)
  PROVE  RuleFor(what) \in Rules /\ RuleFor(what).line = line.no
<1>1. line.no \in Nat
  BY DEF TextInv, LineIs
<1>. QED
  BY <1>1 DEF RuleFor, Rules

LEMMA PackageRulesMore ==
  ASSUME TextInv, PathRulesInv, Parsing, Parsing', input' = input, line'.no = line.no + 1, line.no \in With("addLibPath"),
         NEW x \in Rules, x.line = line.no,
         packageRules' = IF IsPackage(First(line.no)) THEN Pushed(packageRules, First(line.no), x) ELSE packageRules
  PROVE  /\ MapsTo(packageRules', Rules)
         /\ \A w : IsPackage(w) => LinesIn(packageRules', w) = Sorted(Saying("addLibPath", w)')
<1>1. PICK first : first = First(line.no)
  OBVIOUS
<1>2. PICK map : map = packageRules
  OBVIOUS
<1>3. PICK k : k = "addLibPath"
  OBVIOUS
<1>4. MapsTo(map, Rules) /\ \A w : IsPackage(w) => LinesIn(map, w) = Sorted(Saying(k, w))
  BY <1>2, <1>3 DEF PathRulesInv
<1>5. \A w : Saying(k, w)' = IF w = first THEN Saying(k, w) \cup {line.no} ELSE Saying(k, w)
  <2>1. line.no \in With(k)
    BY <1>3
  <2>. QED
    BY <1>1, <2>1, SayingNext
<1>6. Sorted(Saying(k, first) \cup {line.no}) = Append(Sorted(Saying(k, first)), line.no)
  BY SortedSaying
<1>7. CASE IsPackage(first)
  <2>1. PICK new : new = Pushed(map, first, x)
    OBVIOUS
  <2>2. packageRules' = new
    BY <1>1, <1>2, <1>7, <2>1
  <2>3. PushedBehind(Rules, map, first, x)
    BY <1>4, PushedIs
  <2>4. /\ MapsTo(new, Rules) /\ LinesIn(new, first) = Append(LinesIn(map, first), line.no)
        /\ \A j : j # first => LinesIn(new, j) = LinesIn(map, j)
    BY <2>1, <2>3 DEF PushedBehind
  <2>5. ASSUME NEW w, IsPackage(w)
        PROVE  LinesIn(new, w) = Sorted(Saying(k, w)')
    <3>1. CASE w = first
      BY <1>4, <1>5, <1>6, <1>7, <2>4, <3>1
    <3>2. CASE w # first
      BY <1>4, <1>5, <2>4, <2>5, <3>2
    <3>. QED
      BY <3>1, <3>2
  <2>. QED
    BY <1>3, <2>2, <2>4, <2>5
<1>8. CASE ~IsPackage(first)
  <2>1. packageRules' = map
    BY <1>1, <1>2, <1>8
  <2>2. ASSUME NEW w, IsPackage(w)
        PROVE  LinesIn(map, w) = Sorted(Saying(k, w)')
    <3>1. w # first
      BY <1>8, <2>2
    <3>. QED
      BY <1>4, <1>5, <2>2, <3>1
  <2>. QED
    BY <1>3, <1>4, <2>1, <2>2
<1>. QED
  BY <1>7, <1>8

LEMMA PrefixRulesMore ==
  ASSUME TextInv, PathRulesInv, Parsing, Parsing', input' = input, line'.no = line.no + 1, line.no \in With("addLibPath"),
         NEW x \in Rules, x.line = line.no, ~BadWhere(First(line.no)),
         ~IsPackage(First(line.no)) => ~Unresolvable(Stem(First(line.no))),
         prefixRules' = IF ~IsPackage(First(line.no)) /\ At(Stem(First(line.no))).kind # "missing"
                        THEN Pushed(prefixRules, PrefixOf(First(line.no)), x) ELSE prefixRules
  PROVE  /\ MapsTo(prefixRules', Rules)
         /\ \A f \in Files : Applying(f)' = {n \in Handled("addLibPath")' : Reaches(First(n)', f)}
<1>1. PICK first : first = First(line.no)
  OBVIOUS
<1>2. \A n : First(n)' = First(n)
  BY SameFile DEF First
<1>3. PICK H : H = Handled("addLibPath")
  OBVIOUS
<1>4. Handled("addLibPath")' = H \cup {line.no}
  BY <1>3, SayingNext
<1>5. MapsTo(prefixRules, Rules) /\ \A f \in Files : Applying(f) = {n \in H : Reaches(First(n), f)}
  BY <1>3 DEF PathRulesInv
<1>6. ASSUME NEW f \in Files, Applying(f)' = Applying(f) \cup (IF Reaches(first, f) THEN {line.no} ELSE {})
      PROVE  Applying(f)' = {n \in Handled("addLibPath")' : Reaches(First(n)', f)}
  <2>1. {n \in Handled("addLibPath")' : Reaches(First(n)', f)} = {n \in H \cup {line.no} : Reaches(First(n), f)}
    BY <1>2, <1>4
  <2>2. PICK l : l = line.no
    OBVIOUS
  <2>3. PICK A : A = Applying(f)
    OBVIOUS
  <2>4. A = {n \in H : Reaches(First(n), f)} /\ first = First(l)
    BY <1>1, <1>5, <2>2, <2>3
  <2>5. {n \in H \cup {l} : Reaches(First(n), f)} = A \cup (IF Reaches(first, f) THEN {l} ELSE {})
    BY <2>4
  <2>. QED
    BY <1>6, <2>1, <2>2, <2>3, <2>5
<1>7. CASE ~IsPackage(first) /\ At(Stem(first)).kind # "missing"
  <2>1. PICK prefix : prefix = PrefixOf(first)
    OBVIOUS
  <2>2. prefixRules' = Pushed(prefixRules, prefix, x)
    BY <1>1, <1>7, <2>1
  <2>3. MapsTo(prefixRules', Rules)
    <3>1. PICK map : map = prefixRules
      OBVIOUS
    <3>2. PushedBehind(Rules, map, prefix, x)
      BY <1>5, <3>1, PushedIs
    <3>. QED
      BY <2>2, <3>1, <3>2 DEF PushedBehind
  <2>4. ASSUME NEW f \in Files
        PROVE  Applying(f)' = Applying(f) \cup (IF Reaches(first, f) THEN {line.no} ELSE {})
    <3>1. Applying(f)' = Applying(f) \cup (IF IsPrefix(prefix, Tail(f)) THEN {x.line} ELSE {})
      BY <1>5, <2>2, ApplyingMore
    <3>2. ~BadWhere(first) /\ ~Unresolvable(Stem(first))
      BY <1>1, <1>7
    <3>3. IsPrefix(PrefixOf(first), Tail(f)) <=> Reaches(first, f)
      BY <1>7, <3>2, RuleMatches
    <3>. QED
      BY <2>1, <3>1, <3>3
  <2>. QED
    BY <1>6, <2>3, <2>4
<1>8. CASE ~(~IsPackage(first) /\ At(Stem(first)).kind # "missing")
  <2>1. prefixRules' = prefixRules
    BY <1>1, <1>8
  <2>2. \A f : ~Reaches(first, f)
    BY <1>8, NoRuleMatches
  <2>3. ASSUME NEW f \in Files
        PROVE  Applying(f)' = Applying(f) \cup (IF Reaches(first, f) THEN {line.no} ELSE {})
    BY <2>1, <2>2 DEF Applying
  <2>. QED
    BY <1>5, <1>6, <2>1, <2>3
<1>. QED
  BY <1>7, <1>8

LEMMA RulesAddLibPath ==
  ASSUME TextInv, RulesInv, AddLibPath
  PROVE  RulesInv'
<1>1. pc = "parse" /\ at = "onLine" /\ OnLine({"addLibPath"})
  BY DEF AddLibPath, OnLine
<1>2. CASE pc' = "exit2"
  BY <1>2 DEF RulesInv
<1>3. CASE pc' # "exit2"
  <2>1. PICK p \in Pairs(Value) :
          /\ ~RealPathFails(p[1], p[2]) /\ ~(BadWhat(p[2]) \/ BadWhere(p[1]))
          /\ packageRules' = IF IsPackage(p[1]) THEN Pushed(packageRules, p[1], RuleFor(p[2])) ELSE packageRules
          /\ prefixRules' = IF ~IsPackage(p[1]) /\ At(Stem(p[1])).kind # "missing"
                            THEN Pushed(prefixRules, PrefixOf(p[1]), RuleFor(p[2])) ELSE prefixRules
          /\ Accept /\ UNCHANGED <<ignoreFiles, addOptDepends, removeOptDepends>>
    BY <1>3 DEF AddLibPath, Reject, Exit2
  <2>2. Accept /\ addOptDepends' = addOptDepends /\ removeOptDepends' = removeOptDepends
    BY <2>1
  <2>3. input' = input /\ line'.no = line.no + 1 /\ pc' = "parse"
    BY <1>1, <2>2, TextAccept DEF Accept
  <2>4. Parsing /\ Parsing'
    BY <1>1, <2>3 DEF Parsing
  <2>5. p[1] = First(line.no) /\ p[2] \in Seq(Char)
    BY <1>1, PairIs
  <2>6. PICK x \in Rules : x = RuleFor(p[2]) /\ x.line = line.no
    BY <2>4, <2>5, RuleIs
  <2>7. line.no \in With("addLibPath")
    BY <1>1, KeyLine
  <2>8. DependsInv /\ PathRulesInv
    BY <1>1 DEF RulesInv
  <2>9. packageRules' = IF IsPackage(First(line.no)) THEN Pushed(packageRules, First(line.no), x) ELSE packageRules
    BY <2>1, <2>5, <2>6
  <2>10. prefixRules' = IF ~IsPackage(First(line.no)) /\ At(Stem(First(line.no))).kind # "missing"
                        THEN Pushed(prefixRules, PrefixOf(First(line.no)), x) ELSE prefixRules
    BY <2>1, <2>5, <2>6
  <2>11. ~BadWhere(First(line.no)) /\ (~IsPackage(First(line.no)) => ~Unresolvable(Stem(First(line.no))))
    BY <2>1, <2>5 DEF RealPathFails
  <2>12. /\ MapsTo(packageRules', Rules)
         /\ \A w : IsPackage(w) => LinesIn(packageRules', w) = Sorted(Saying("addLibPath", w)')
    BY <2>3, <2>4, <2>6, <2>7, <2>8, <2>9, PackageRulesMore
  <2>13. /\ MapsTo(prefixRules', Rules)
         /\ \A f \in Files : Applying(f)' = {n \in Handled("addLibPath")' : Reaches(First(n)', f)}
    BY <2>3, <2>4, <2>6, <2>7, <2>8, <2>10, <2>11, PrefixRulesMore
  <2>14. PathRulesInv'
    BY <2>12, <2>13 DEF PathRulesInv
  <2>15. DependsInv'
    <3>1. line.no \notin With("addOptDepend") /\ line.no \notin With("removeOptDepend")
      BY <2>7, KeysDiffer
    <3>2. /\ \A w : Saying("addOptDepend", w)' = Saying("addOptDepend", w)
          /\ \A w : Saying("removeOptDepend", w)' = Saying("removeOptDepend", w)
      BY <2>3, <2>4, <3>1, SayingSame
    <3>. QED
      BY <2>2, <2>8, <3>2 DEF DependsInv
  <2>. QED
    BY <2>14, <2>15 DEF RulesInv
<1>. QED
  BY <1>2, <1>3

LEMMA RulesSame ==
  ASSUME RulesInv, UNCHANGED vars
  PROVE  RulesInv'
<1>1. /\ input' = input /\ pc' = pc /\ line' = line
      /\ addOptDepends' = addOptDepends /\ removeOptDepends' = removeOptDepends
      /\ packageRules' = packageRules /\ prefixRules' = prefixRules
  BY DEF vars, progressVars, parserVars, settingVars, ruleVars
<1>2. CASE pc = "exit2"
  BY <1>1, <1>2 DEF RulesInv
<1>3. CASE pc # "exit2"
  <2>1. (HasFile' <=> HasFile) /\ (Parsing' <=> Parsing) /\ \A k : With(k)' = With(k)
    BY <1>1, SameFile DEF Parsing
  <2>2. \A k \in RuleKeys : Handled(k)' = Handled(k)
    BY <1>1, <2>1 DEF Handled
  <2>. QED
    BY <1>1, <1>3, <2>2, RulesKept
<1>. QED
  BY <1>2, <1>3

\* Every step keeps a rule for each line that it passes, and no others.
LEMMA RuleStep == TextInv /\ ErrorInv /\ RulesInv /\ [Next]_vars => RulesInv'
<1>. SUFFICES ASSUME TextInv, ErrorInv, RulesInv, [Next]_vars PROVE RulesInv'
  OBVIOUS
<1>1. CASE UNCHANGED vars
  BY <1>1, RulesSame
<1>2. CASE Syntax \/ OtherKey
  <2>1. pc' = "exit2"
    BY <1>2 DEF Syntax, OtherKey
  <2>. QED
    BY <2>1 DEF RulesInv
<1>3. CASE \/ ReadArgument \/ EndOfArguments \/ AppendDefaultBin \/ EndOfBins \/ AppendDefaultLib
           \/ ReadEnvironment \/ EnvironmentPart \/ EndOfEnvironment
  <2>1. pc \in Early
    BY <1>3 DEF ReadArgument, EndOfArguments, AppendDefaultBin, EndOfBins, AppendDefaultLib,
                ReadEnvironment, EnvironmentPart, EndOfEnvironment, Early
  <2>. QED
    BY <1>3, <2>1, RulesEarly
<1>. QED
  BY <1>1, <1>2, <1>3, RulesOpenConfig, RulesParserStep, RulesConfigured, RulesScan, RulesEndOfParts,
     RulesIgnoreFiles, RulesOptDepend, RulesAddLibPath
  DEF Next, Handler, Stopped

LEMMA RuleAlways == Spec => []RulesInv
<1>1. Init => RulesInv
  <2>. SUFFICES ASSUME Init PROVE RulesInv
    OBVIOUS
  <2>1. pc = "args" /\ addOptDepends = << >> /\ removeOptDepends = << >> /\ packageRules = << >> /\ prefixRules = << >>
    BY DEF Init
  <2>2. \A k, w : Handled(k) = {} /\ Saying(k, w) = {}
    BY <2>1 DEF Handled, Saying, Parsing
  <2>3. /\ \A k : LinesIn(<< >>, k) = << >>
        /\ MapsTo(<< >>, Rules) /\ MapsTo(<< >>, Deps)
    <3>1. DOMAIN << >> = {}
      OBVIOUS
    <3>2. \A r \in Rules : r.line \in Nat
      BY DEF Rules
    <3>3. \A r \in Deps : r.line \in Nat
      BY DEF Deps
    <3>. QED
      BY <3>1, <3>2, <3>3 DEF LinesIn, MapsTo
  <2>4. \A f : Applying(f) = {}
    <3>1. DOMAIN prefixRules = {}
      BY <2>1
    <3>. QED
      BY <3>1 DEF Applying
  <2>. QED
    BY <2>1, <2>2, <2>3, <2>4, SortedNone DEF RulesInv, DependsInv, PathRulesInv
<1>. QED
  BY <1>1, RuleStep, TextAlways, ErrorAlways, PTL DEF Spec

\* A rule of a directory that exists applies to the files below it and to no
\* others, a rule of a file at least to that, and nothing else applies.  Rules and
\* dependencies of a package are kept in the order of the file.
THEOREM AlwaysRulesExact == Spec => []RulesExact
BY RulesAre, RuleAlways, PTL
-----------------------------------------------------------------------------
(* Wildcards.                                                              *)

Allows(a, s, b, e) ==
  b <= e /\ (Repeats(a) \/ e = b + 1) /\ \A j \in b .. e - 1 : Takes(a, s[j])

\* A path is cut in l pieces: <<b, e>> \in ways[k] if the k-th may be from b to
\* e.  Where the first i can end.
CutsOf(l, m) == [1 .. l + 1 -> 1 .. m + 1]
CutFits(ways, c, i) == c[1] = 1 /\ \A k \in 1 .. i : <<c[k], c[k + 1]>> \in ways[k]
ReachedBy(ways, l, m, i) == {e \in 1 .. m + 1 : \E c \in CutsOf(l, m) : CutFits(ways, c, i) /\ c[i + 1] = e}
OneMore(ways, m, from, i) == {e \in 1 .. m + 1 : \E b \in from : <<b, e>> \in ways[i]}

\* The pieces of one atom more.
LEMMA ReachedMore ==
  ASSUME NEW ways, NEW l \in Nat, NEW m \in Nat, NEW i \in 1 .. l
  PROVE  ReachedBy(ways, l, m, i) = OneMore(ways, m, ReachedBy(ways, l, m, i - 1), i)
<1>0. i \in Nat /\ i >= 1 /\ i \in 1 .. l + 1 /\ i + 1 \in 1 .. l + 1 /\ i - 1 + 1 = i
  OBVIOUS
<1>. SUFFICES ASSUME NEW e \in 1 .. m + 1
              PROVE  (\E c \in CutsOf(l, m) : CutFits(ways, c, i) /\ c[i + 1] = e)
                     <=> \E b \in ReachedBy(ways, l, m, i - 1) : <<b, e>> \in ways[i]
  BY DEF ReachedBy, OneMore
<1>1. ASSUME NEW c \in CutsOf(l, m), CutFits(ways, c, i), c[i + 1] = e
      PROVE  \E b \in ReachedBy(ways, l, m, i - 1) : <<b, e>> \in ways[i]
  <2>1. PICK b \in 1 .. m + 1 : b = c[i]
    BY <1>0 DEF CutsOf
  <2>2. <<b, e>> \in ways[i]
    <3>1. <<c[i], c[i + 1]>> \in ways[i]
      BY <1>0, <1>1 DEF CutFits
    <3>. QED
      BY <1>1, <2>1, <3>1
  <2>3. CutFits(ways, c, i - 1)
    <3>1. \A k \in 1 .. i - 1 : k \in 1 .. i
      OBVIOUS
    <3>. QED
      BY <1>1, <3>1 DEF CutFits
  <2>4. c[i - 1 + 1] = b
    BY <1>0, <2>1
  <2>5. b \in ReachedBy(ways, l, m, i - 1)
    BY <2>1, <2>3, <2>4 DEF ReachedBy
  <2>. QED
    BY <2>2, <2>5
<1>2. ASSUME NEW b \in ReachedBy(ways, l, m, i - 1), <<b, e>> \in ways[i]
      PROVE  \E c \in CutsOf(l, m) : CutFits(ways, c, i) /\ c[i + 1] = e
  <2>1. PICK c \in CutsOf(l, m) : CutFits(ways, c, i - 1) /\ c[i - 1 + 1] = b
    BY <1>2 DEF ReachedBy
  <2>2. PICK d : d = [k \in 1 .. l + 1 |-> IF k = i + 1 THEN e ELSE c[k]]
    OBVIOUS
  <2>3. d \in CutsOf(l, m)
    <3>1. \A k \in 1 .. l + 1 : c[k] \in 1 .. m + 1
      BY <2>1 DEF CutsOf
    <3>. QED
      BY <2>2, <3>1 DEF CutsOf
  <2>4. d[i + 1] = e /\ \A k \in 1 .. i : d[k] = c[k]
    <3>1. \A k \in 1 .. i : k \in 1 .. l + 1 /\ k # i + 1
      OBVIOUS
    <3>. QED
      BY <1>0, <2>2, <3>1
  <2>5. c[i] = b /\ c[1] = 1
    BY <1>0, <2>1 DEF CutFits
  <2>6. ASSUME NEW k \in 1 .. i
        PROVE  <<d[k], d[k + 1]>> \in ways[k]
    <3>1. CASE k = i
      <4>1. d[i] = b
        BY <1>0, <2>4, <2>5
      <4>. QED
        BY <1>2, <2>4, <3>1, <4>1
    <3>2. CASE k # i
      <4>1. k \in 1 .. i - 1 /\ k + 1 \in 1 .. i
        BY <3>2
      <4>2. <<c[k], c[k + 1]>> \in ways[k]
        BY <2>1, <4>1 DEF CutFits
      <4>. QED
        BY <2>4, <4>1, <4>2
    <3>. QED
      BY <3>1, <3>2
  <2>7. d[1] = 1
    BY <1>0, <2>4, <2>5
  <2>. QED
    BY <2>3, <2>4, <2>6, <2>7 DEF CutFits
<1>. QED
  BY <1>1, <1>2

LEMMA ReachedNone ==
  ASSUME NEW ways, NEW l \in Nat, NEW m \in Nat
  PROVE  ReachedBy(ways, l, m, 0) = {1}
<1>1. PICK c : c = [k \in 1 .. l + 1 |-> 1]
  OBVIOUS
<1>2. c \in CutsOf(l, m) /\ c[1] = 1 /\ c[0 + 1] = 1
  BY <1>1 DEF CutsOf
<1>3. 1 .. 0 = {} /\ 0 + 1 = 1 /\ 1 \in 1 .. m + 1
  OBVIOUS
<1>4. CutFits(ways, c, 0)
  BY <1>2, <1>3 DEF CutFits
<1>5. \A d : CutFits(ways, d, 0) => d[0 + 1] = 1
  BY <1>3 DEF CutFits
<1>6. 1 \in ReachedBy(ways, l, m, 0)
  BY <1>2, <1>3, <1>4 DEF ReachedBy
<1>7. \A e \in ReachedBy(ways, l, m, 0) : e = 1
  BY <1>5 DEF ReachedBy
<1>. QED
  BY <1>6, <1>7
\* regex_match() is about cuts of the path.
AllowedBy(atoms, s) ==
  [k \in 1 .. Len(atoms) |->
     {cut \in (1 .. Len(s) + 1) \X (1 .. Len(s) + 1) : Allows(atoms[k], s, cut[1], cut[2])}]

LEMMA MatchIs ==
  ASSUME NEW A, NEW atoms \in Seq(A), NEW s \in Seq(Char)
  PROVE  RegexMatch(atoms, s) <=> Len(s) + 1 \in ReachedBy(AllowedBy(atoms, s), Len(atoms), Len(s), Len(atoms))
<1>1. PICK l \in Nat : l = Len(atoms)
  OBVIOUS
<1>2. PICK m \in Nat : m = Len(s)
  OBVIOUS
<1>0. PICK ways : ways = AllowedBy(atoms, s)
  OBVIOUS
<1>. DEFINE Step(g, i) == IF i = 0 THEN {1} ELSE {e \in 1 .. m + 1 : \E b \in g[i - 1] : Allows(atoms[i], s, b, e)}
            reached[i \in 0 .. l] == Step(reached, i)
            w == [i \in 0 .. l |-> ReachedBy(ways, l, m, i)]
<1>3. RegexMatch(atoms, s) <=> m + 1 \in reached[l]
  BY <1>1, <1>2 DEF RegexMatch, Allows
<1>4. ReachedBy(ways, l, m, 0) = {1}
  BY ReachedNone
<1>5. \A i \in 0 .. l : w[i] = Step(w, i)
  <2>. SUFFICES ASSUME NEW i \in 0 .. l PROVE w[i] = Step(w, i)
    OBVIOUS
  <2>1. CASE i = 0
    BY <1>4, <2>1
  <2>2. CASE i # 0
    <3>1. i \in 1 .. l /\ i - 1 \in 0 .. l
      BY <2>2
    <3>2. ReachedBy(ways, l, m, i) = OneMore(ways, m, ReachedBy(ways, l, m, i - 1), i)
      BY <3>1, ReachedMore
    <3>3. \A b \in ReachedBy(ways, l, m, i - 1) : \A e \in 1 .. m + 1 : <<b, e>> \in ways[i] <=> Allows(atoms[i], s, b, e)
      <4>1. ways[i] = {cut \in (1 .. m + 1) \X (1 .. m + 1) : Allows(atoms[i], s, cut[1], cut[2])}
        BY <1>0, <1>1, <1>2, <3>1 DEF AllowedBy
      <4>2. \A b \in ReachedBy(ways, l, m, i - 1) : b \in 1 .. m + 1
        BY DEF ReachedBy
      <4>. QED
        BY <4>1, <4>2
    <3>4. OneMore(ways, m, ReachedBy(ways, l, m, i - 1), i)
          = {e \in 1 .. m + 1 : \E b \in ReachedBy(ways, l, m, i - 1) : Allows(atoms[i], s, b, e)}
      BY <3>3 DEF OneMore
    <3>. QED
      BY <2>2, <3>1, <3>2, <3>4
  <2>. QED
    BY <2>1, <2>2
<1>6. w = [i \in 0 .. l |-> Step(w, i)]
  <2>1. PICK h : h = [i \in 0 .. l |-> Step(w, i)]
    OBVIOUS
  <2>2. \A i \in 0 .. l : h[i] = w[i]
    BY <1>5, <2>1
  <2>3. w = [i \in 0 .. l |-> w[i]] /\ h = [i \in 0 .. l |-> h[i]]
    BY <2>1
  <2>. QED
    BY <2>1, <2>2, <2>3
<1>7. reached = [i \in 0 .. l |-> Step(reached, i)]
  BY <1>6
<1>8. \A i \in 0 .. l : w[i] = ReachedBy(ways, l, m, i)
  OBVIOUS
<1>. HIDE DEF reached, w
<1>. DEFINE Wrong == {i \in 0 .. l : reached[i] # w[i]}
<1>9. Wrong = {}
  <2>. SUFFICES ASSUME Wrong # {} PROVE FALSE
    OBVIOUS
  <2>1. PICK n \in Wrong : \A j \in Wrong : n <= j
    <3>1. Wrong \in SUBSET Nat
      OBVIOUS
    <3>. HIDE DEF Wrong
    <3>. QED
      BY <3>1, LeastElement
  <2>2. n \in 0 .. l /\ reached[n] = Step(reached, n) /\ w[n] = Step(w, n) /\ reached[n] # w[n]
    BY <1>5, <1>7
  <2>3. n # 0
    BY <2>2
  <2>4. n - 1 \in 0 .. l /\ ~(n <= n - 1)
    BY <2>2, <2>3
  <2>5. reached[n - 1] = w[n - 1]
    BY <2>1, <2>4
  <2>. QED
    BY <2>2, <2>3, <2>5
<1>10. reached[l] = ReachedBy(ways, l, m, l)
  <2>1. l \in 0 .. l /\ l \notin Wrong
    BY <1>9
  <2>. QED
    BY <1>8, <2>1
<1>. QED
  BY <1>0, <1>1, <1>2, <1>3, <1>10

\* The atoms of a pattern from its i-th character on, and where each is written.
After(p, i) == IF TwoStars(p, i) THEN i + 2 ELSE i + 1
AtomsOf(p) == {AtomAt(p, i) : i \in 1 .. Len(p)}
AtomsFrom(p, i, atoms, pos) ==
  /\ pos \in [1 .. Len(atoms) + 1 -> 1 .. Len(p) + 1] /\ pos[1] = i /\ pos[Len(atoms) + 1] = Len(p) + 1
  /\ \A k \in 1 .. Len(atoms) : pos[k] \in 1 .. Len(p) /\ atoms[k] = AtomAt(p, pos[k]) /\ pos[k + 1] = After(p, pos[k])

LEMMA AfterIs ==
  ASSUME NEW p \in Seq(Char), NEW i \in 1 .. Len(p)
  PROVE  After(p, i) \in i + 1 .. Len(p) + 1 /\ After(p, i) \in 1 .. Len(p) + 1
<1>1. PICK n \in Nat : n = Len(p) /\ DOMAIN p = 1 .. n
  OBVIOUS
<1>2. TwoStars(p, i) => i + 1 \in 1 .. n
  BY <1>1 DEF TwoStars, IsStar
<1>. QED
  BY <1>1, <1>2 DEF After

LEMMA InFront ==
  ASSUME NEW S, NEW a \in S, NEW t \in Seq(S)
  PROVE  /\ <<a>> \o t \in Seq(S) /\ Len(<<a>> \o t) = Len(t) + 1 /\ (<<a>> \o t)[1] = a
         /\ \A k \in 1 .. Len(t) : (<<a>> \o t)[k + 1] = t[k]
<1>1. PICK l \in Nat : l = Len(t)
  OBVIOUS
<1>2. PICK u \in Seq(S) : u = <<a>> /\ Len(u) = 1 /\ u[1] = a
  <2>1. <<a>> \in Seq(S)
    OBVIOUS
  <2>2. Len(<<a>>) = 1 /\ <<a>>[1] = a
    OBVIOUS
  <2>. QED
    BY <2>1, <2>2
<1>3. PICK x : x = u \o t
  OBVIOUS
<1>4. x \in Seq(S) /\ Len(x) = 1 + l /\ \A k \in 1 .. 1 + l : x[k] = IF k <= 1 THEN u[k] ELSE t[k - 1]
  BY <1>1, <1>2, <1>3, ConcatProperties
<1>5. 1 \in 1 .. 1 + l /\ \A k \in 1 .. l : k + 1 \in 1 .. 1 + l /\ ~(k + 1 <= 1) /\ k + 1 - 1 = k
  OBVIOUS
<1>6. x[1] = a
  BY <1>2, <1>4, <1>5
<1>7. \A k \in 1 .. l : x[k + 1] = t[k]
  BY <1>4, <1>5
<1>8. Len(x) = l + 1
  BY <1>4
<1>. QED
  BY <1>1, <1>2, <1>3, <1>4, <1>6, <1>7, <1>8

LEMMA AtomBefore ==
  ASSUME NEW p \in Seq(Char), NEW i \in 1 .. Len(p), NEW atoms \in Seq(AtomsOf(p)),
         NEW pos, AtomsFrom(p, After(p, i), atoms, pos)
  PROVE  /\ <<AtomAt(p, i)>> \o atoms \in Seq(AtomsOf(p))
         /\ \E q : AtomsFrom(p, i, <<AtomAt(p, i)>> \o atoms, q)
<1>1. PICK n \in Nat : n = Len(p)
  OBVIOUS
<1>2. PICK l \in Nat : l = Len(atoms)
  OBVIOUS
<1>. DEFINE A == AtomsOf(p)
<1>3. PICK a \in A : a = AtomAt(p, i)
  BY DEF AtomsOf
<1>4. atoms \in Seq(A)
  OBVIOUS
<1>. HIDE DEF A
<1>5. PICK x \in Seq(A) : x = <<a>> \o atoms
  BY <1>4, InFront
<1>6. Len(x) = l + 1 /\ x[1] = a /\ \A k \in 1 .. l : x[k + 1] = atoms[k]
  BY <1>2, <1>4, <1>5, InFront
<1>7. /\ pos \in [1 .. l + 1 -> 1 .. n + 1] /\ pos[1] = After(p, i) /\ pos[l + 1] = n + 1
      /\ \A k \in 1 .. l : pos[k] \in 1 .. n /\ atoms[k] = AtomAt(p, pos[k]) /\ pos[k + 1] = After(p, pos[k])
  BY <1>1, <1>2 DEF AtomsFrom
<1>8. PICK q : q = [k \in 1 .. l + 2 |-> IF k = 1 THEN i ELSE pos[k - 1]]
  OBVIOUS
<1>9. i \in 1 .. n
  BY <1>1
<1>10. q \in [1 .. l + 2 -> 1 .. n + 1] /\ q[1] = i /\ \A k \in 1 .. l + 1 : q[k + 1] = pos[k]
  <2>1. ASSUME NEW k \in 1 .. l + 2
        PROVE  (IF k = 1 THEN i ELSE pos[k - 1]) \in 1 .. n + 1
    <3>1. CASE k = 1
      BY <1>9, <3>1
    <3>2. CASE k # 1
      <4>1. k - 1 \in 1 .. l + 1
        BY <3>2
      <4>. QED
        BY <1>7, <3>2, <4>1
    <3>. QED
      BY <3>1, <3>2
  <2>2. q \in [1 .. l + 2 -> 1 .. n + 1]
    BY <1>8, <2>1
  <2>3. 1 \in 1 .. l + 2 /\ \A k \in 1 .. l + 1 : k + 1 \in 1 .. l + 2 /\ k + 1 # 1 /\ k + 1 - 1 = k
    OBVIOUS
  <2>. QED
    BY <1>8, <2>2, <2>3
<1>11. q[l + 2] = n + 1
  <2>1. l + 1 \in 1 .. l + 1 /\ l + 1 + 1 = l + 2
    OBVIOUS
  <2>. QED
    BY <1>7, <1>10, <2>1
<1>12. ASSUME NEW k \in 1 .. l + 1
       PROVE  q[k] \in 1 .. n /\ x[k] = AtomAt(p, q[k]) /\ q[k + 1] = After(p, q[k])
  <2>1. CASE k = 1
    <3>1. 1 \in 1 .. l + 1
      OBVIOUS
    <3>. QED
      BY <1>3, <1>6, <1>7, <1>9, <1>10, <2>1, <3>1
  <2>2. CASE k # 1
    <3>1. PICK j \in 1 .. l : j + 1 = k
      <4>1. k - 1 \in 1 .. l /\ k - 1 + 1 = k
        BY <2>2
      <4>. QED
        BY <4>1
    <3>2. j \in 1 .. l + 1 /\ q[k] = pos[j] /\ q[k + 1] = pos[j + 1]
      <4>1. j \in 1 .. l + 1 /\ j + 1 \in 1 .. l + 1
        OBVIOUS
      <4>. QED
        BY <1>10, <3>1, <4>1
    <3>3. x[k] = atoms[j]
      BY <1>6, <3>1
    <3>. QED
      BY <1>7, <3>2, <3>3
  <2>. QED
    BY <2>1, <2>2
<1>13. l + 1 + 1 = l + 2
  OBVIOUS
<1>14. AtomsFrom(p, i, x, q)
  BY <1>1, <1>6, <1>10, <1>11, <1>12, <1>13 DEF AtomsFrom
<1>. QED
  BY <1>3, <1>5, <1>14 DEF A

\* What pathWildcardsToRegex() makes of a pattern.
LEMMA CompiledIs ==
  ASSUME NEW p \in Seq(Char)
  PROVE  Compiled(p) \in Seq(AtomsOf(p)) /\ \E pos : AtomsFrom(p, 1, Compiled(p), pos)
<1>1. PICK n \in Nat : n = Len(p)
  OBVIOUS
<1>2. PICK A : A = AtomsOf(p)
  OBVIOUS
<1>. DEFINE Step(g, i) == IF i > n THEN << >> ELSE <<AtomAt(p, i)>> \o g[IF TwoStars(p, i) THEN i + 2 ELSE i + 1]
            from[i \in 1 .. n + 1] == Step(from, i)
            Bad == {k \in 0 .. n : ~ \E g \in [1 .. n + 1 -> Seq(A)] : \A i \in n + 1 - k .. n + 1 : g[i] = Step(g, i)}
<1>3. Compiled(p) = from[1]
  BY <1>1 DEF Compiled
<1>4. ASSUME NEW g, NEW i \in 1 .. n
      PROVE  Step(g, i) = <<AtomAt(p, i)>> \o g[After(p, i)]
  <2>1. ~(i > n)
    OBVIOUS
  <2>. QED
    BY <2>1 DEF After
<1>5. \A i \in 1 .. n : After(p, i) \in i + 1 .. n + 1 /\ After(p, i) \in 1 .. n + 1 /\ AtomAt(p, i) \in A
  BY <1>1, <1>2, AfterIs DEF AtomsOf
<1>6. \A g : Step(g, n + 1) = << >>
  OBVIOUS
<1>. HIDE DEF Step
<1>7. Bad = {}
  <2>. SUFFICES ASSUME Bad # {} PROVE FALSE
    OBVIOUS
  <2>1. PICK k \in Bad : \A j \in Bad : k <= j
    <3>1. Bad \in SUBSET Nat
      OBVIOUS
    <3>. HIDE DEF Bad
    <3>. QED
      BY <3>1, LeastElement
  <2>2. k \in 0 .. n /\ ~ \E g \in [1 .. n + 1 -> Seq(A)] : \A i \in n + 1 - k .. n + 1 : g[i] = Step(g, i)
    OBVIOUS
  <2>3. CASE k = 0
    <3>1. PICK g : g = [i \in 1 .. n + 1 |-> << >>]
      OBVIOUS
    <3>2. g \in [1 .. n + 1 -> Seq(A)] /\ g[n + 1] = << >>
      BY <3>1
    <3>3. \A i \in n + 1 - 0 .. n + 1 : i = n + 1
      OBVIOUS
    <3>. QED
      BY <1>6, <2>2, <2>3, <3>2, <3>3
  <2>4. CASE k # 0
    <3>1. k - 1 \in 0 .. n /\ k - 1 \notin Bad
      <4>1. k - 1 \in 0 .. n /\ ~(k <= k - 1)
        BY <2>2, <2>4
      <4>. QED
        BY <2>1, <4>1
    <3>2. PICK g \in [1 .. n + 1 -> Seq(A)] : \A i \in n + 1 - (k - 1) .. n + 1 : g[i] = Step(g, i)
      BY <3>1
    <3>3. PICK lo \in 1 .. n : lo = n + 1 - k
      BY <2>2, <2>4
    <3>4. PICK v : v = Step(g, lo)
      OBVIOUS
    <3>5. v \in Seq(A)
      <4>1. PICK t \in Seq(A) : t = g[After(p, lo)]
        BY <1>5
      <4>2. PICK a \in A : a = AtomAt(p, lo)
        BY <1>5
      <4>3. v = <<a>> \o t
        BY <1>4, <3>4, <4>1, <4>2
      <4>. QED
        BY <4>3
    <3>6. PICK h : h = [i \in 1 .. n + 1 |-> IF i = lo THEN v ELSE g[i]]
      OBVIOUS
    <3>7. h \in [1 .. n + 1 -> Seq(A)] /\ h[lo] = v /\ \A i \in lo + 1 .. n + 1 : h[i] = g[i]
      BY <3>5, <3>6
    <3>8. \A i \in lo + 1 .. n + 1 : i \in 1 .. n \/ i = n + 1
      OBVIOUS
    <3>9. ASSUME NEW i \in lo .. n + 1
          PROVE  Step(h, i) = Step(g, i)
      <4>1. CASE i = n + 1
        BY <1>6, <4>1
      <4>2. CASE i # n + 1
        <5>1. i \in 1 .. n
          BY <4>2
        <5>2. After(p, i) \in lo + 1 .. n + 1
          BY <1>5, <5>1
        <5>. QED
          <6>1. PICK a : a = After(p, i) /\ h[a] = g[a]
            BY <3>7, <5>2
          <6>2. Step(h, i) = <<AtomAt(p, i)>> \o h[a] /\ Step(g, i) = <<AtomAt(p, i)>> \o g[a]
            BY <1>4, <5>1, <6>1
          <6>. QED
            BY <6>1, <6>2
      <4>. QED
        BY <4>1, <4>2
    <3>10. ASSUME NEW i \in n + 1 - k .. n + 1
           PROVE  h[i] = Step(h, i)
      <4>1. CASE i = lo
        BY <3>4, <3>7, <3>9, <4>1
      <4>2. CASE i # lo
        <5>1. i \in lo .. n + 1 /\ i \in lo + 1 .. n + 1 /\ i \in n + 1 - (k - 1) .. n + 1
          BY <3>3, <4>2
        <5>. QED
          BY <3>2, <3>7, <3>9, <5>1
      <4>. QED
        BY <4>1, <4>2
    <3>. QED
      BY <2>2, <3>7, <3>10
  <2>. QED
    BY <2>3, <2>4
<1>8. PICK g \in [1 .. n + 1 -> Seq(A)] : \A i \in 1 .. n + 1 : g[i] = Step(g, i)
  <2>1. n \in 0 .. n /\ n + 1 - n = 1
    OBVIOUS
  <2>2. n \notin Bad
    BY <1>7, Zenon
  <2>. QED
    BY <2>1, <2>2
<1>9. g = [i \in 1 .. n + 1 |-> Step(g, i)]
  <2>1. PICK h : h = [i \in 1 .. n + 1 |-> Step(g, i)]
    OBVIOUS
  <2>2. \A i \in 1 .. n + 1 : h[i] = g[i]
    BY <1>8, <2>1
  <2>3. g = [i \in 1 .. n + 1 |-> g[i]] /\ h = [i \in 1 .. n + 1 |-> h[i]]
    BY <2>1
  <2>. QED
    BY <2>1, <2>2, <2>3
<1>10. from = [i \in 1 .. n + 1 |-> Step(from, i)]
  BY <1>9
<1>. HIDE DEF from
<1>11. \A i \in 1 .. n + 1 : from[i] = Step(from, i)
  BY <1>10
<1>. DEFINE Right(i) == from[i] \in Seq(A) /\ \E pos : AtomsFrom(p, i, from[i], pos)
            Wrong == {k \in 0 .. n : ~Right(n + 1 - k)}
<1>12. Right(n + 1)
  <2>1. PICK x : x = from[n + 1]
    OBVIOUS
  <2>2. x = << >> /\ Len(x) = 0
    BY <1>6, <1>11, <2>1
  <2>3. PICK pos : pos = [k \in 1 .. 1 |-> n + 1]
    OBVIOUS
  <2>4. pos \in [1 .. 0 + 1 -> 1 .. n + 1] /\ pos[1] = n + 1 /\ pos[0 + 1] = n + 1 /\ 1 .. 0 = {}
    BY <2>3
  <2>5. AtomsFrom(p, n + 1, x, pos)
    BY <1>1, <2>2, <2>4 DEF AtomsFrom
  <2>6. x \in Seq(A)
    BY <2>2
  <2>. QED
    BY <2>1, <2>5, <2>6
<1>13. ASSUME NEW i \in 1 .. n, Right(After(p, i))
       PROVE  Right(i)
  <2>1. PICK t \in Seq(A) : t = from[After(p, i)] /\ \E pos : AtomsFrom(p, After(p, i), t, pos)
    BY <1>13
  <2>2. from[i] = <<AtomAt(p, i)>> \o t
    <3>1. i \in 1 .. n + 1
      OBVIOUS
    <3>2. from[i] = Step(from, i)
      BY <1>11, <3>1
    <3>3. Step(from, i) = <<AtomAt(p, i)>> \o from[After(p, i)]
      BY <1>4
    <3>. QED
      BY <2>1, <3>2, <3>3
  <2>3. PICK pos : AtomsFrom(p, After(p, i), t, pos)
    BY <2>1
  <2>4. <<AtomAt(p, i)>> \o t \in Seq(A) /\ \E q : AtomsFrom(p, i, <<AtomAt(p, i)>> \o t, q)
    BY <1>1, <1>2, <2>3, AtomBefore
  <2>. QED
    BY <2>2, <2>4
<1>. HIDE DEF Right
<1>14. Wrong = {}
  <2>. SUFFICES ASSUME Wrong # {} PROVE FALSE
    OBVIOUS
  <2>1. PICK k \in Wrong : \A j \in Wrong : k <= j
    <3>1. Wrong \in SUBSET Nat
      OBVIOUS
    <3>. HIDE DEF Wrong
    <3>. QED
      BY <3>1, LeastElement
  <2>2. k \in 0 .. n /\ ~Right(n + 1 - k)
    OBVIOUS
  <2>3. k # 0
    BY <1>12, <2>2
  <2>4. PICK i \in 1 .. n : i = n + 1 - k
    BY <2>2, <2>3
  <2>5. PICK a \in i + 1 .. n + 1 : a = After(p, i)
    BY <1>5
  <2>6. PICK j \in 0 .. n : n + 1 - j = a /\ j < k
    <3>1. n + 1 - a \in 0 .. n /\ n + 1 - (n + 1 - a) = a /\ n + 1 - a < k
      BY <2>2, <2>4
    <3>. QED
      BY <3>1
  <2>7. j \notin Wrong
    BY <2>1, <2>2, <2>6
  <2>8. Right(a)
    BY <2>6, <2>7
  <2>. QED
    BY <1>13, <2>2, <2>4, <2>5, <2>8
<1>15. Right(1)
  <2>1. n \in 0 .. n /\ n + 1 - n = 1
    OBVIOUS
  <2>2. n \notin Wrong
    BY <1>14, Zenon
  <2>. QED
    BY <2>1, <2>2
<1>. QED
  BY <1>2, <1>3, <1>15 DEF Right

\* What the description of wildcards says of one character of a pattern.
InRun(p, i) == IsStar(p, i) /\ (IsStar(p, i - 1) \/ IsStar(p, i + 1))
Fits(p, i, c) ==
  /\ (IsStar(p, i) /\ ~InRun(p, i)) \/ p[i] = "?" => c # "/"
  /\ ~IsStar(p, i) /\ p[i] # "?" => c = p[i]
Piece(p, s, i, b, e) == b <= e /\ (IsStar(p, i) \/ e = b + 1) /\ \A j \in b .. e - 1 : Fits(p, i, s[j])
DescribedBy(p, s) ==
  [i \in 1 .. Len(p) |->
     {cut \in (1 .. Len(s) + 1) \X (1 .. Len(s) + 1) : Piece(p, s, i, cut[1], cut[2])}]

LEMMA DescribedIs ==
  ASSUME NEW p \in Seq(Char), NEW s \in Seq(Char)
  PROVE  Described(p, s) <=> Len(s) + 1 \in ReachedBy(DescribedBy(p, s), Len(p), Len(s), Len(p))
<1>1. PICK n \in Nat : n = Len(p) /\ DOMAIN p = 1 .. n
  OBVIOUS
<1>2. PICK m \in Nat : m = Len(s)
  OBVIOUS
<1>. DEFINE stars == {i \in DOMAIN p : p[i] = "*"}
            double == {i \in stars : i - 1 \in stars \/ i + 1 \in stars}
            Says(cut, i) ==
              /\ cut[i] <= cut[i + 1]
              /\ i \notin stars => cut[i + 1] = cut[i] + 1
              /\ \A j \in cut[i] .. cut[i + 1] - 1 :
                   /\ i \in stars \ double \/ p[i] = "?" => s[j] # "/"
                   /\ i \notin stars /\ p[i] # "?" => s[j] = p[i]
<1>3. Described(p, s) <=> \E cut \in CutsOf(n, m) : cut[1] = 1 /\ cut[n + 1] = m + 1 /\ \A i \in 1 .. n : Says(cut, i)
  BY <1>1, <1>2 DEF Described, CutsOf
<1>4. \A i : (i \in stars <=> IsStar(p, i)) /\ (i \in stars \ double <=> IsStar(p, i) /\ ~InRun(p, i))
  BY DEF IsStar, InRun
<1>. HIDE DEF stars, double
<1>5. PICK ways : ways = DescribedBy(p, s)
  OBVIOUS
<1>6. ASSUME NEW cut \in CutsOf(n, m), NEW i \in 1 .. n
      PROVE  Says(cut, i) <=> <<cut[i], cut[i + 1]>> \in ways[i]
  <2>1. PICK b \in 1 .. m + 1 : b = cut[i]
    BY DEF CutsOf
  <2>2. PICK e \in 1 .. m + 1 : e = cut[i + 1]
    <3>1. i + 1 \in 1 .. n + 1
      OBVIOUS
    <3>. QED
      BY <3>1 DEF CutsOf
  <2>3. ways[i] = {c \in (1 .. m + 1) \X (1 .. m + 1) : Piece(p, s, i, c[1], c[2])}
    BY <1>1, <1>2, <1>5 DEF DescribedBy
  <2>4. <<b, e>> \in ways[i] <=> Piece(p, s, i, b, e)
    BY <2>3
  <2>5. Says(cut, i) <=> Piece(p, s, i, b, e)
    BY <1>4, <2>1, <2>2 DEF Piece, Fits
  <2>. QED
    BY <2>1, <2>2, <2>4, <2>5
<1>. HIDE DEF Says
<1>7. ReachedBy(ways, n, m, n) = {e \in 1 .. m + 1 : \E c \in CutsOf(n, m) : CutFits(ways, c, n) /\ c[n + 1] = e}
  BY DEF ReachedBy
<1>8. m + 1 \in ReachedBy(ways, n, m, n) <=> \E c \in CutsOf(n, m) : CutFits(ways, c, n) /\ c[n + 1] = m + 1
  BY <1>7
<1>9. \A c \in CutsOf(n, m) : CutFits(ways, c, n) <=> c[1] = 1 /\ \A i \in 1 .. n : Says(c, i)
  BY <1>6 DEF CutFits
<1>. QED
  BY <1>1, <1>2, <1>3, <1>5, <1>8, <1>9

\* What an atom takes.
LEMMA AtomIs ==
  ASSUME NEW p \in Seq(Char), NEW i \in 1 .. Len(p), NEW a, a = AtomAt(p, i), NEW c, c \notin LineBreaks
  PROVE  /\ Repeats(a) <=> IsStar(p, i)
         /\ TwoStars(p, i) => Takes(a, c)
         /\ IsStar(p, i) /\ ~TwoStars(p, i) => (Takes(a, c) <=> c # "/")
         /\ ~IsStar(p, i) => (Takes(a, c) <=> Fits(p, i, c))
<1>1. i \in DOMAIN p
  OBVIOUS
<1>0. IsStar(p, i) => p[i] # "?"
  BY DEF IsStar
<1>2. CASE TwoStars(p, i)
  <2>1. a = Atom(".*") /\ IsStar(p, i)
    <3>1. IsStar(p, i) /\ IsStar(p, i + 1) /\ p[i] # "?"
      BY <1>0, <1>2 DEF TwoStars
    <3>. QED
      BY <1>2, <3>1 DEF AtomAt
  <2>2. a.atom = ".*"
    BY <2>1 DEF Atom
  <2>. QED
    BY <1>2, <2>1, <2>2 DEF Repeats, Takes
<1>3. CASE IsStar(p, i) /\ ~TwoStars(p, i)
  <2>1. a = Atom("[^/]*")
    <3>1. IsStar(p, i) /\ ~IsStar(p, i + 1) /\ p[i] # "?"
      BY <1>0, <1>3 DEF TwoStars
    <3>. QED
      BY <1>3, <3>1 DEF AtomAt
  <2>2. a.atom = "[^/]*"
    BY <2>1 DEF Atom
  <2>. QED
    BY <1>3, <2>2 DEF Repeats, Takes
<1>4. CASE ~IsStar(p, i) /\ p[i] = "?"
  <2>1. a = Atom("[^/]")
    BY <1>4 DEF AtomAt, TwoStars
  <2>2. a.atom = "[^/]"
    BY <2>1 DEF Atom
  <2>. QED
    BY <1>4, <2>2 DEF Repeats, Takes, Fits, TwoStars
<1>5. CASE ~IsStar(p, i) /\ p[i] # "?"
  <2>1. a = Literal(p[i])
    BY <1>5 DEF AtomAt, TwoStars
  <2>2. a.atom = "literal" /\ a.char = p[i]
    BY <2>1 DEF Literal
  <2>. QED
    BY <1>5, <2>2 DEF Repeats, Takes, Fits, TwoStars
<1>. QED
  BY <1>2, <1>3, <1>4, <1>5

LEMMA WildcardPiece ==
  ASSUME NEW p \in Seq(Char), NEW s \in Seq(Char), Range(s) \cap LineBreaks = {}, NEW i \in 1 .. Len(p),
         NEW a, a = AtomAt(p, i), NEW b \in 1 .. Len(s) + 1, NEW e \in 1 .. Len(s) + 1
  PROVE  /\ InRun(p, i) => (Piece(p, s, i, b, e) <=> b <= e)
         /\ TwoStars(p, i) => (Allows(a, s, b, e) <=> b <= e)
         /\ ~InRun(p, i) => (Piece(p, s, i, b, e) <=> Allows(a, s, b, e))
         /\ IsStar(p, i) => Allows(a, s, b, b)
         /\ Allows(a, s, b, e) => b <= e
<1>1. ASSUME NEW j \in b .. e - 1
      PROVE  s[j] \notin LineBreaks
  <2>1. j \in DOMAIN s
    OBVIOUS
  <2>2. s[j] \in Range(s)
    BY <2>1 DEF Range
  <2>. QED
    BY <2>2
<1>2. /\ Repeats(a) <=> IsStar(p, i)
      /\ \A j \in b .. e - 1 :
           /\ TwoStars(p, i) => Takes(a, s[j])
           /\ IsStar(p, i) /\ ~TwoStars(p, i) => (Takes(a, s[j]) <=> s[j] # "/")
           /\ ~IsStar(p, i) => (Takes(a, s[j]) <=> Fits(p, i, s[j]))
  <2>1. "a" \notin LineBreaks
    BY DEF LineBreaks
  <2>2. Repeats(a) <=> IsStar(p, i)
    BY <2>1, AtomIs
  <2>3. ASSUME NEW j \in b .. e - 1
        PROVE  /\ TwoStars(p, i) => Takes(a, s[j])
               /\ IsStar(p, i) /\ ~TwoStars(p, i) => (Takes(a, s[j]) <=> s[j] # "/")
               /\ ~IsStar(p, i) => (Takes(a, s[j]) <=> Fits(p, i, s[j]))
    <3>1. PICK c : c = s[j] /\ c \notin LineBreaks
      BY <1>1
    <3>. QED
      BY <3>1, AtomIs
  <2>. QED
    BY <2>2, <2>3
<1>3. IsStar(p, i) => p[i] # "?"
  BY DEF IsStar
<1>4. InRun(p, i) => IsStar(p, i) /\ \A c : Fits(p, i, c)
  BY <1>3 DEF InRun, Fits
<1>5. IsStar(p, i) /\ ~InRun(p, i) => ~TwoStars(p, i) /\ \A c : Fits(p, i, c) <=> c # "/"
  BY <1>3 DEF InRun, Fits, TwoStars
<1>6. TwoStars(p, i) => IsStar(p, i)
  BY DEF TwoStars
<1>7. InRun(p, i) => (Piece(p, s, i, b, e) <=> b <= e)
  BY <1>4 DEF Piece
<1>8. TwoStars(p, i) => (Allows(a, s, b, e) <=> b <= e)
  BY <1>2, <1>6 DEF Allows
<1>9. ASSUME ~InRun(p, i)
      PROVE  Piece(p, s, i, b, e) <=> Allows(a, s, b, e)
  <2>1. \A j \in b .. e - 1 : Takes(a, s[j]) <=> Fits(p, i, s[j])
    BY <1>2, <1>5, <1>9
  <2>. QED
    BY <1>2, <2>1 DEF Piece, Allows
<1>10. IsStar(p, i) => Allows(a, s, b, b)
  <2>1. b .. b - 1 = {} /\ b <= b
    OBVIOUS
  <2>. QED
    BY <1>2, <2>1 DEF Allows
<1>11. Allows(a, s, b, e) => b <= e
  BY DEF Allows
<1>. QED
  BY <1>7, <1>8, <1>9, <1>10, <1>11

Up(X, m) == {e \in 1 .. m + 1 : \E b \in X : b <= e}

LEMMA UpTwice ==
  ASSUME NEW m \in Nat, NEW X \in SUBSET (1 .. m + 1)
  PROVE  Up(Up(X, m), m) = Up(X, m) /\ X \subseteq Up(X, m)
<1>1. ASSUME NEW e \in Up(Up(X, m), m)
      PROVE  e \in Up(X, m)
  <2>1. PICK d \in Up(X, m) : d <= e /\ e \in 1 .. m + 1
    BY <1>1 DEF Up
  <2>2. PICK b \in X : b <= d /\ d \in 1 .. m + 1
    BY <2>1 DEF Up
  <2>3. b <= e
    BY <2>1, <2>2
  <2>. QED
    BY <2>1, <2>2, <2>3 DEF Up
<1>2. \A e \in 1 .. m + 1 : e <= e
  OBVIOUS
<1>3. X \subseteq Up(X, m)
  BY <1>2 DEF Up
<1>4. \A e \in Up(X, m) : e \in 1 .. m + 1
  BY DEF Up
<1>5. Up(X, m) \subseteq Up(Up(X, m), m)
  BY <1>2, <1>4 DEF Up
<1>. QED
  BY <1>1, <1>3, <1>5

ReachIs(p, s, D) ==
  /\ D \in [0 .. Len(p) -> SUBSET (1 .. Len(s) + 1)]
  /\ \A k \in 1 .. Len(p) : D[k] = {e \in 1 .. Len(s) + 1 : \E b \in D[k - 1] : Piece(p, s, k, b, e)}

\* The third star of three: what is written before it took all that it could take.
LEMMA StepReach ==
  ASSUME NEW p \in Seq(Char), NEW s \in Seq(Char), Range(s) \cap LineBreaks = {}, NEW i \in 1 .. Len(p),
         NEW D, ReachIs(p, s, D),
         NEW a, a = AtomAt(p, i)
  PROVE  D[After(p, i) - 1] = {e \in 1 .. Len(s) + 1 : \E b \in D[i - 1] : Allows(a, s, b, e)}
<1>1. PICK n \in Nat : n = Len(p) /\ DOMAIN p = 1 .. n
  OBVIOUS
<1>2. PICK m \in Nat : m = Len(s)
  OBVIOUS
<1>3. /\ D \in [0 .. n -> SUBSET (1 .. m + 1)] /\ i \in 1 .. n /\ i - 1 \in 0 .. n
      /\ \A k \in 1 .. n : D[k] = {e \in 1 .. m + 1 : \E b \in D[k - 1] : Piece(p, s, k, b, e)}
  BY <1>1, <1>2 DEF ReachIs
<1>4. PICK X \in SUBSET (1 .. m + 1) : X = D[i - 1]
  BY <1>3
<1>5. \A b \in X : b \in 1 .. m + 1
  OBVIOUS
<1>6. ASSUME NEW k \in 1 .. n, InRun(p, k)
      PROVE  D[k] = Up(D[k - 1], m)
  <2>1. k - 1 \in 0 .. n
    OBVIOUS
  <2>2. \A b \in D[k - 1] : b \in 1 .. m + 1
    BY <1>3, <2>1
  <2>3. \A b \in 1 .. m + 1 : \A e \in 1 .. m + 1 : Piece(p, s, k, b, e) <=> b <= e
    BY <1>1, <1>2, <1>6, WildcardPiece
  <2>4. \A e \in 1 .. m + 1 : (\E b \in D[k - 1] : Piece(p, s, k, b, e)) <=> \E b \in D[k - 1] : b <= e
    BY <2>2, <2>3
  <2>. QED
    BY <1>3, <2>4 DEF Up
<1>7. /\ \A b \in 1 .. m + 1 : \A e \in 1 .. m + 1 :
           /\ TwoStars(p, i) => (Allows(a, s, b, e) <=> b <= e)
           /\ ~InRun(p, i) => (Piece(p, s, i, b, e) <=> Allows(a, s, b, e))
           /\ IsStar(p, i) => Allows(a, s, b, b)
           /\ Allows(a, s, b, e) => b <= e
  BY <1>1, <1>2, WildcardPiece
<1>8. PICK Y : Y = {e \in 1 .. m + 1 : \E b \in X : Allows(a, s, b, e)}
  OBVIOUS
<1>9. CASE TwoStars(p, i)
  <2>1. IsStar(p, i) /\ IsStar(p, i + 1) /\ i + 1 \in 1 .. n /\ i + 1 - 1 = i /\ After(p, i) - 1 = i + 1
    BY <1>1, <1>9 DEF TwoStars, IsStar, After
  <2>2. InRun(p, i) /\ InRun(p, i + 1)
    BY <2>1 DEF InRun
  <2>3. D[i] = Up(X, m) /\ D[i + 1] = Up(D[i], m)
    BY <1>3, <1>4, <1>6, <2>1, <2>2
  <2>4. D[i + 1] = Up(X, m)
    BY <2>3, UpTwice
  <2>5. Y = Up(X, m)
    BY <1>5, <1>7, <1>8, <1>9 DEF Up
  <2>. QED
    BY <1>2, <1>4, <1>8, <2>1, <2>4, <2>5
<1>10. CASE ~TwoStars(p, i) /\ ~InRun(p, i)
  <2>1. After(p, i) - 1 = i
    BY <1>3, <1>10 DEF After
  <2>2. D[i] = {e \in 1 .. m + 1 : \E b \in X : Piece(p, s, i, b, e)}
    BY <1>3, <1>4
  <2>3. D[i] = Y
    BY <1>5, <1>7, <1>8, <1>10, <2>2
  <2>. QED
    BY <1>2, <1>4, <1>8, <2>1, <2>3
<1>11. CASE ~TwoStars(p, i) /\ InRun(p, i)
  <2>1. After(p, i) - 1 = i
    BY <1>3, <1>11 DEF After
  <2>2. IsStar(p, i) /\ IsStar(p, i - 1)
    BY <1>11 DEF InRun, TwoStars
  <2>3. i - 1 \in 1 .. n /\ i - 1 + 1 = i /\ i - 1 - 1 \in 0 .. n
    BY <1>1, <1>3, <2>2 DEF IsStar
  <2>4. InRun(p, i - 1)
    BY <2>2, <2>3 DEF InRun
  <2>5. PICK W \in SUBSET (1 .. m + 1) : W = D[i - 1 - 1]
    BY <1>3, <2>3
  <2>6. X = Up(W, m)
    BY <1>4, <1>6, <2>3, <2>4, <2>5
  <2>7. Up(X, m) = X
    BY <2>6, UpTwice
  <2>8. D[i] = X
    BY <1>3, <1>4, <1>6, <1>11, <2>7
  <2>9. ASSUME NEW e \in 1 .. m + 1
        PROVE  (\E b \in X : Allows(a, s, b, e)) <=> e \in X
    <3>1. ASSUME NEW b \in X, Allows(a, s, b, e)
          PROVE  e \in X
      <4>1. b <= e
        BY <1>5, <1>7, <3>1
      <4>2. e \in Up(X, m)
        BY <3>1, <4>1 DEF Up
      <4>. QED
        BY <2>7, <4>2
    <3>2. e \in X => Allows(a, s, e, e)
      BY <1>7, <2>2
    <3>. QED
      BY <3>1, <3>2
  <2>10. Y = X
    BY <1>8, <2>9
  <2>. QED
    BY <1>2, <1>4, <1>8, <2>1, <2>8, <2>10
<1>. QED
  BY <1>9, <1>10, <1>11

LEMMA ReachOfMatch ==
  ASSUME NEW A, NEW atoms \in Seq(A), NEW s \in Seq(Char), NEW k \in 1 .. Len(atoms)
  PROVE  ReachedBy(AllowedBy(atoms, s), Len(atoms), Len(s), k)
         = {e \in 1 .. Len(s) + 1 : \E b \in ReachedBy(AllowedBy(atoms, s), Len(atoms), Len(s), k - 1) : Allows(atoms[k], s, b, e)}
<1>1. PICK l \in Nat : l = Len(atoms)
  OBVIOUS
<1>2. PICK m \in Nat : m = Len(s)
  OBVIOUS
<1>3. PICK ways : ways = AllowedBy(atoms, s)
  OBVIOUS
<1>4. k \in 1 .. l
  BY <1>1
<1>5. ReachedBy(ways, l, m, k) = OneMore(ways, m, ReachedBy(ways, l, m, k - 1), k)
  BY <1>4, ReachedMore
<1>6. ways[k] = {cut \in (1 .. m + 1) \X (1 .. m + 1) : Allows(atoms[k], s, cut[1], cut[2])}
  BY <1>1, <1>2, <1>3, <1>4 DEF AllowedBy
<1>7. \A b \in ReachedBy(ways, l, m, k - 1) : b \in 1 .. m + 1
  BY DEF ReachedBy
<1>8. \A b \in ReachedBy(ways, l, m, k - 1) : \A e \in 1 .. m + 1 : <<b, e>> \in ways[k] <=> Allows(atoms[k], s, b, e)
  BY <1>6, <1>7
<1>9. ReachedBy(ways, l, m, k) = {e \in 1 .. m + 1 : \E b \in ReachedBy(ways, l, m, k - 1) : Allows(atoms[k], s, b, e)}
  BY <1>5, <1>8 DEF OneMore
<1>. QED
  BY <1>1, <1>2, <1>3, <1>9

LEMMA ReachOfDescription ==
  ASSUME NEW p \in Seq(Char), NEW s \in Seq(Char), NEW k \in 1 .. Len(p)
  PROVE  ReachedBy(DescribedBy(p, s), Len(p), Len(s), k)
         = {e \in 1 .. Len(s) + 1 : \E b \in ReachedBy(DescribedBy(p, s), Len(p), Len(s), k - 1) : Piece(p, s, k, b, e)}
<1>1. PICK l \in Nat : l = Len(p)
  OBVIOUS
<1>2. PICK m \in Nat : m = Len(s)
  OBVIOUS
<1>3. PICK ways : ways = DescribedBy(p, s)
  OBVIOUS
<1>4. k \in 1 .. l
  BY <1>1
<1>5. ReachedBy(ways, l, m, k) = OneMore(ways, m, ReachedBy(ways, l, m, k - 1), k)
  BY <1>4, ReachedMore
<1>6. ways[k] = {cut \in (1 .. m + 1) \X (1 .. m + 1) : Piece(p, s, k, cut[1], cut[2])}
  BY <1>1, <1>2, <1>3, <1>4 DEF DescribedBy
<1>7. \A b \in ReachedBy(ways, l, m, k - 1) : b \in 1 .. m + 1
  BY DEF ReachedBy
<1>8. \A b \in ReachedBy(ways, l, m, k - 1) : \A e \in 1 .. m + 1 : <<b, e>> \in ways[k] <=> Piece(p, s, k, b, e)
  BY <1>6, <1>7
<1>9. ReachedBy(ways, l, m, k) = {e \in 1 .. m + 1 : \E b \in ReachedBy(ways, l, m, k - 1) : Piece(p, s, k, b, e)}
  BY <1>5, <1>8 DEF OneMore
<1>. QED
  BY <1>1, <1>2, <1>3, <1>9

\* The expression made of a pattern matches the names that the pattern's
\* description describes, whatever the runs of stars in it.
THEOREM WildcardsMatch ==
  ASSUME NEW p \in Seq(Char), NEW s \in Seq(Char), Range(s) \cap LineBreaks = {}
  PROVE  RegexMatch(Compiled(p), s) <=> Described(p, s)
<1>1. PICK n \in Nat : n = Len(p)
  OBVIOUS
<1>2. PICK m \in Nat : m = Len(s)
  OBVIOUS
<1>3. PICK atoms \in Seq(AtomsOf(p)) : atoms = Compiled(p) /\ \E pos : AtomsFrom(p, 1, atoms, pos)
  BY CompiledIs
<1>4. PICK pos : AtomsFrom(p, 1, atoms, pos)
  BY <1>3
<1>5. PICK l \in Nat : l = Len(atoms)
  OBVIOUS
<1>6. /\ pos \in [1 .. l + 1 -> 1 .. n + 1] /\ pos[1] = 1 /\ pos[l + 1] = n + 1
      /\ \A k \in 1 .. l : pos[k] \in 1 .. n /\ atoms[k] = AtomAt(p, pos[k]) /\ pos[k + 1] = After(p, pos[k])
  BY <1>1, <1>4, <1>5 DEF AtomsFrom
<1>7. PICK R : R = [k \in 0 .. l |-> ReachedBy(AllowedBy(atoms, s), l, m, k)]
  OBVIOUS
<1>8. PICK D : D = [k \in 0 .. n |-> ReachedBy(DescribedBy(p, s), n, m, k)]
  OBVIOUS
<1>9. D \in [0 .. n -> SUBSET (1 .. m + 1)]
  BY <1>8 DEF ReachedBy
<1>10. ASSUME NEW k \in 1 .. n
       PROVE  D[k] = {e \in 1 .. m + 1 : \E b \in D[k - 1] : Piece(p, s, k, b, e)}
  <2>1. k \in 0 .. n /\ k - 1 \in 0 .. n
    OBVIOUS
  <2>2. ReachedBy(DescribedBy(p, s), n, m, k)
        = {e \in 1 .. m + 1 : \E b \in ReachedBy(DescribedBy(p, s), n, m, k - 1) : Piece(p, s, k, b, e)}
    BY <1>1, <1>2, ReachOfDescription
  <2>. QED
    BY <1>8, <2>1, <2>2
<1>11. ASSUME NEW k \in 1 .. l
       PROVE  R[k] = {e \in 1 .. m + 1 : \E b \in R[k - 1] : Allows(atoms[k], s, b, e)}
  <2>1. k \in 0 .. l /\ k - 1 \in 0 .. l
    OBVIOUS
  <2>2. ReachedBy(AllowedBy(atoms, s), l, m, k)
        = {e \in 1 .. m + 1 : \E b \in ReachedBy(AllowedBy(atoms, s), l, m, k - 1) : Allows(atoms[k], s, b, e)}
    BY <1>2, <1>5, ReachOfMatch
  <2>. QED
    BY <1>7, <2>1, <2>2
<1>12. R[0] = {1} /\ D[0] = {1}
  <2>1. 0 \in 0 .. l /\ 0 \in 0 .. n
    OBVIOUS
  <2>. QED
    BY <1>7, <1>8, <2>1, ReachedNone
<1>. DEFINE Wrong == {k \in 0 .. l : R[k] # D[pos[k + 1] - 1]}
<1>13. Wrong = {}
  <2>. SUFFICES ASSUME Wrong # {} PROVE FALSE
    OBVIOUS
  <2>1. PICK k \in Wrong : \A j \in Wrong : k <= j
    <3>1. Wrong \in SUBSET Nat
      OBVIOUS
    <3>. HIDE DEF Wrong
    <3>. QED
      BY <3>1, LeastElement
  <2>2. k \in 0 .. l /\ R[k] # D[pos[k + 1] - 1]
    OBVIOUS
  <2>3. k # 0
    <3>1. pos[0 + 1] - 1 = 0
      BY <1>6
    <3>. QED
      BY <1>12, <2>2, <3>1
  <2>4. k \in 1 .. l /\ k - 1 \in 0 .. l /\ ~(k <= k - 1) /\ k - 1 + 1 = k
    <3>1. k \in Nat /\ k >= 1 /\ k <= l
      BY <2>2, <2>3
    <3>. QED
      BY <3>1
  <2>5. R[k - 1] = D[pos[k] - 1]
    <3>1. k - 1 \notin Wrong
      BY <2>1, <2>4
    <3>. QED
      BY <2>4, <3>1
  <2>6. PICK i \in 1 .. n : i = pos[k]
    BY <1>6, <2>4
  <2>7. PICK a : a = atoms[k] /\ a = AtomAt(p, i)
    BY <1>6, <2>4, <2>6
  <2>8. D[After(p, i) - 1] = {e \in 1 .. m + 1 : \E b \in D[i - 1] : Allows(a, s, b, e)}
    <3>1. ReachIs(p, s, D)
      BY <1>1, <1>2, <1>9, <1>10 DEF ReachIs
    <3>2. a = AtomAt(p, i) /\ i \in 1 .. Len(p)
      BY <1>1, <2>7
    <3>3. D[After(p, i) - 1] = {e \in 1 .. Len(s) + 1 : \E b \in D[i - 1] : Allows(a, s, b, e)}
      BY <3>1, <3>2, StepReach
    <3>. QED
      BY <1>2, <3>3
  <2>9. R[k] = {e \in 1 .. m + 1 : \E b \in R[k - 1] : Allows(a, s, b, e)}
    <3>1. R[k] = {e \in 1 .. m + 1 : \E b \in R[k - 1] : Allows(atoms[k], s, b, e)}
      BY <1>11, <2>4
    <3>. QED
      BY <2>7, <3>1
  <2>10. pos[k + 1] = After(p, i)
    BY <1>6, <2>4, <2>6
  <2>. QED
    BY <2>2, <2>5, <2>6, <2>8, <2>9, <2>10
<1>14. R[l] = D[n]
  <2>1. l \in 0 .. l /\ n + 1 - 1 = n
    OBVIOUS
  <2>2. l \notin Wrong
    BY <1>13, Zenon
  <2>. QED
    BY <1>6, <2>1, <2>2
<1>15. RegexMatch(atoms, s) <=> m + 1 \in ReachedBy(AllowedBy(atoms, s), l, m, l)
  BY <1>2, <1>5, MatchIs
<1>16. Described(p, s) <=> m + 1 \in ReachedBy(DescribedBy(p, s), n, m, n)
  BY <1>1, <1>2, DescribedIs
<1>17. l \in 0 .. l /\ n \in 0 .. n
  OBVIOUS
<1>. QED
  BY <1>3, <1>7, <1>8, <1>14, <1>15, <1>16, <1>17

LEMMA DescribedCut ==
  ASSUME NEW p \in Seq(Char), NEW s \in Seq(Char)
  PROVE  Described(p, s) <=>
           \E c \in CutsOf(Len(p), Len(s)) :
             /\ c[1] = 1 /\ c[Len(p) + 1] = Len(s) + 1
             /\ \A i \in 1 .. Len(p) : Piece(p, s, i, c[i], c[i + 1])
<1>1. PICK n \in Nat : n = Len(p)
  OBVIOUS
<1>2. PICK m \in Nat : m = Len(s)
  OBVIOUS
<1>3. PICK ways : ways = DescribedBy(p, s)
  OBVIOUS
<1>4. Described(p, s) <=> m + 1 \in ReachedBy(ways, n, m, n)
  BY <1>1, <1>2, <1>3, DescribedIs
<1>5. m + 1 \in ReachedBy(ways, n, m, n) <=> \E c \in CutsOf(n, m) : CutFits(ways, c, n) /\ c[n + 1] = m + 1
  BY DEF ReachedBy
<1>6. ASSUME NEW c \in CutsOf(n, m)
      PROVE  CutFits(ways, c, n) <=> c[1] = 1 /\ \A i \in 1 .. n : Piece(p, s, i, c[i], c[i + 1])
  <2>1. ASSUME NEW i \in 1 .. n
        PROVE  <<c[i], c[i + 1]>> \in ways[i] <=> Piece(p, s, i, c[i], c[i + 1])
    <3>1. ways[i] = {cut \in (1 .. m + 1) \X (1 .. m + 1) : Piece(p, s, i, cut[1], cut[2])}
      BY <1>1, <1>2, <1>3 DEF DescribedBy
    <3>2. i \in 1 .. n + 1 /\ i + 1 \in 1 .. n + 1
      OBVIOUS
    <3>3. c[i] \in 1 .. m + 1 /\ c[i + 1] \in 1 .. m + 1
      BY <3>2 DEF CutsOf
    <3>. QED
      BY <3>1, <3>3
  <2>. QED
    BY <2>1 DEF CutFits
<1>. QED
  BY <1>1, <1>2, <1>4, <1>5, <1>6

\* A pattern and a path that begin with a slash, and what follows it.
LEMMA BehindSlash ==
  ASSUME NEW v \in Seq(Char), NEW f \in Seq(Char), v # << >>, Head(v) = "/", f # << >>, Head(f) = "/"
  PROVE  Described(v, f) <=> Described(Tail(v), Tail(f))
<1>1. PICK p : p = Tail(v)
  OBVIOUS
<1>2. PICK s : s = Tail(f)
  OBVIOUS
<1>3. /\ p \in Seq(Char) /\ Len(p) = Len(v) - 1 /\ \A i \in 1 .. Len(p) : p[i] = v[i + 1]
      /\ s \in Seq(Char) /\ Len(s) = Len(f) - 1 /\ \A i \in 1 .. Len(s) : s[i] = f[i + 1]
  BY <1>1, <1>2, HeadTailProperties
<1>4. v[1] = "/" /\ f[1] = "/" /\ Len(v) \in Nat /\ Len(f) \in Nat
  OBVIOUS
<1>m. PICK n, m \in Nat : n = Len(p) /\ m = Len(s)
  BY <1>3
<1>5. Len(v) = n + 1 /\ v[1] = "/" /\ DOMAIN p = 1 .. n /\ DOMAIN v = 1 .. n + 1 /\ \A i \in 1 .. n : v[i + 1] = p[i]
  BY <1>m, <1>3, <1>4
<1>6. Len(f) = m + 1 /\ f[1] = "/" /\ \A j \in 1 .. m : f[j + 1] = s[j]
  BY <1>m, <1>3, <1>4
<1>7. ASSUME NEW i \in 0 .. n + 1
      PROVE  IsStar(v, i + 1) <=> IsStar(p, i)
  <2>1. CASE i = 0
    <3>1. 0 \notin 1 .. n /\ 0 + 1 = 1
      OBVIOUS
    <3>. QED
      BY <1>5, <2>1, <3>1 DEF IsStar
  <2>2. CASE i \in 1 .. n
    <3>1. i + 1 \in 1 .. n + 1
      BY <2>2
    <3>. QED
      BY <1>5, <2>2, <3>1 DEF IsStar
  <2>3. CASE i = n + 1
    <3>1. n + 1 \notin 1 .. n /\ n + 1 + 1 \notin 1 .. n + 1
      OBVIOUS
    <3>. QED
      BY <1>5, <2>3, <3>1 DEF IsStar
  <2>4. i = 0 \/ i = n + 1 \/ i \in 1 .. n
    OBVIOUS
  <2>. QED
    BY <2>1, <2>2, <2>3, <2>4
<1>8. ASSUME NEW i \in 1 .. n, NEW c
      PROVE  Fits(v, i + 1, c) <=> Fits(p, i, c)
  <2>1. i - 1 \in 0 .. n + 1 /\ i \in 0 .. n + 1 /\ i + 1 \in 0 .. n + 1 /\ i - 1 + 1 = i /\ i + 1 - 1 = i
    OBVIOUS
  <2>2. (IsStar(v, i + 1) <=> IsStar(p, i)) /\ (IsStar(v, i + 1 + 1) <=> IsStar(p, i + 1)) /\ (IsStar(v, i) <=> IsStar(p, i - 1))
    BY <1>7, <2>1
  <2>3. InRun(v, i + 1) <=> InRun(p, i)
    BY <2>1, <2>2 DEF InRun
  <2>4. v[i + 1] = p[i]
    BY <1>5
  <2>. QED
    BY <2>2, <2>3, <2>4 DEF Fits
<1>9. ASSUME NEW i \in 1 .. n, NEW b \in 1 .. m + 1, NEW e \in 1 .. m + 1
      PROVE  Piece(v, f, i + 1, b + 1, e + 1) <=> Piece(p, s, i, b, e)
  <2>1. IsStar(v, i + 1) <=> IsStar(p, i)
    BY <1>7
  <2>2. (b + 1 <= e + 1 <=> b <= e) /\ (e + 1 = b + 1 + 1 <=> e = b + 1)
    OBVIOUS
  <2>3. ASSUME \A j \in b + 1 .. e + 1 - 1 : Fits(v, i + 1, f[j]), NEW j \in b .. e - 1
        PROVE  Fits(p, i, s[j])
    <3>1. j + 1 \in b + 1 .. e + 1 - 1 /\ j \in 1 .. m
      OBVIOUS
    <3>2. Fits(v, i + 1, f[j + 1]) /\ f[j + 1] = s[j]
      BY <1>6, <2>3, <3>1
    <3>3. Fits(v, i + 1, s[j])
      BY <3>2
    <3>. QED
      BY <1>8, <3>3
  <2>4. ASSUME \A j \in b .. e - 1 : Fits(p, i, s[j]), NEW j \in b + 1 .. e + 1 - 1
        PROVE  Fits(v, i + 1, f[j])
    <3>1. PICK k \in b .. e - 1 : k + 1 = j
      <4>1. j - 1 \in b .. e - 1 /\ j - 1 + 1 = j
        OBVIOUS
      <4>. QED
        BY <4>1
    <3>2. k \in 1 .. m
      OBVIOUS
    <3>3. Fits(p, i, s[k]) /\ f[j] = s[k]
      BY <1>6, <2>4, <3>1, <3>2
    <3>4. Fits(v, i + 1, s[k])
      BY <1>8, <3>3
    <3>. QED
      BY <3>3, <3>4
  <2>. QED
    BY <2>1, <2>2, <2>3, <2>4 DEF Piece
<1>10. ASSUME NEW e \in 1 .. m + 2
       PROVE  Piece(v, f, 1, 1, e) <=> e = 2
  <2>1. ~IsStar(v, 1)
    BY <1>5 DEF IsStar
  <2>2. Fits(v, 1, f[1])
    BY <1>5, <1>6, <2>1 DEF Fits
  <2>3. \A j \in 1 .. 2 - 1 : j = 1
    OBVIOUS
  <2>4. e = 2 => Piece(v, f, 1, 1, e)
    BY <2>2, <2>3 DEF Piece
  <2>5. Piece(v, f, 1, 1, e) => e = 1 + 1
    BY <2>1 DEF Piece
  <2>. QED
    BY <2>4, <2>5
<1>11. Described(p, s) <=> \E c \in CutsOf(n, m) : c[1] = 1 /\ c[n + 1] = m + 1 /\ \A i \in 1 .. n : Piece(p, s, i, c[i], c[i + 1])
  BY <1>3, <1>m, DescribedCut
<1>12. Described(v, f) <=>
         \E c \in CutsOf(n + 1, m + 1) : c[1] = 1 /\ c[n + 1 + 1] = m + 1 + 1 /\ \A i \in 1 .. n + 1 : Piece(v, f, i, c[i], c[i + 1])
  BY <1>5, <1>6, DescribedCut
<1>13. ASSUME NEW c \in CutsOf(n, m), c[1] = 1, c[n + 1] = m + 1, \A i \in 1 .. n : Piece(p, s, i, c[i], c[i + 1])
       PROVE  Described(v, f)
  <2>1. c \in [1 .. n + 1 -> 1 .. m + 1]
    BY DEF CutsOf
  <2>2. PICK d : d = [i \in 1 .. n + 2 |-> IF i = 1 THEN 1 ELSE c[i - 1] + 1]
    OBVIOUS
  <2>3. d[1] = 1 /\ \A i \in 1 .. n + 1 : d[i + 1] = c[i] + 1
    <3>1. 1 \in 1 .. n + 2 /\ \A i \in 1 .. n + 1 : i + 1 \in 1 .. n + 2 /\ i + 1 # 1 /\ i + 1 - 1 = i
      OBVIOUS
    <3>. QED
      BY <2>2, <3>1
  <2>4. \A i \in 1 .. n + 2 : (IF i = 1 THEN 1 ELSE c[i - 1] + 1) \in 1 .. m + 2
    <3>. SUFFICES ASSUME NEW i \in 1 .. n + 2, i # 1 PROVE c[i - 1] + 1 \in 1 .. m + 2
      OBVIOUS
    <3>1. i - 1 \in 1 .. n + 1
      OBVIOUS
    <3>2. PICK x \in 1 .. m + 1 : x = c[i - 1]
      BY <2>1, <3>1
    <3>3. x + 1 \in 1 .. m + 2
      OBVIOUS
    <3>. QED
      BY <3>2, <3>3
  <2>5. n + 1 + 1 = n + 2 /\ m + 1 + 1 = m + 2
    OBVIOUS
  <2>6. d \in CutsOf(n + 1, m + 1)
    BY <2>2, <2>4, <2>5 DEF CutsOf
  <2>7. d[n + 1 + 1] = m + 1 + 1
    <3>1. n + 1 \in 1 .. n + 1
      OBVIOUS
    <3>. QED
      BY <1>13, <2>3, <3>1
  <2>8. ASSUME NEW i \in 1 .. n + 1
        PROVE  Piece(v, f, i, d[i], d[i + 1])
    <3>1. CASE i = 1
      <4>1. 1 \in 1 .. n + 1
        OBVIOUS
      <4>2. d[1 + 1] = 2 /\ d[1] = 1
        BY <1>13, <2>3, <4>1
      <4>3. 2 \in 1 .. m + 2
        OBVIOUS
      <4>4. Piece(v, f, 1, 1, 2)
        BY <1>10, <4>3
      <4>. QED
        BY <3>1, <4>2, <4>4
    <3>2. CASE i # 1
      <4>1. PICK k \in 1 .. n : k + 1 = i
        <5>1. i - 1 \in 1 .. n /\ i - 1 + 1 = i
          BY <3>2
        <5>. QED
          BY <5>1
      <4>2. k \in 1 .. n + 1 /\ k + 1 \in 1 .. n + 1
        OBVIOUS
      <4>3. PICK b \in 1 .. m + 1 : b = c[k]
        BY <2>1, <4>2
      <4>4. PICK e \in 1 .. m + 1 : e = c[k + 1]
        BY <2>1, <4>2
      <4>5. Piece(p, s, k, b, e)
        BY <1>13, <4>3, <4>4
      <4>6. Piece(v, f, k + 1, b + 1, e + 1)
        BY <1>9, <4>5
      <4>7. d[k + 1] = b + 1 /\ d[k + 1 + 1] = e + 1
        BY <2>3, <4>2, <4>3, <4>4
      <4>. QED
        BY <4>1, <4>6, <4>7
    <3>. QED
      BY <3>1, <3>2
  <2>. QED
    BY <1>12, <2>3, <2>6, <2>7, <2>8
<1>14. ASSUME NEW d \in CutsOf(n + 1, m + 1), d[1] = 1, d[n + 1 + 1] = m + 1 + 1, \A i \in 1 .. n + 1 : Piece(v, f, i, d[i], d[i + 1])
       PROVE  Described(p, s)
  <2>1. d \in [1 .. n + 2 -> 1 .. m + 2]
    <3>1. n + 1 + 1 = n + 2 /\ m + 1 + 1 = m + 2
      OBVIOUS
    <3>. QED
      BY <3>1 DEF CutsOf
  <2>2. d[2] = 2
    <3>1. 1 \in 1 .. n + 1 /\ 1 + 1 = 2 /\ 2 \in 1 .. n + 2
      OBVIOUS
    <3>2. Piece(v, f, 1, d[1], d[2])
      BY <1>14, <3>1
    <3>3. PICK e \in 1 .. m + 2 : e = d[2]
      BY <2>1, <3>1
    <3>4. Piece(v, f, 1, 1, e)
      BY <1>14, <3>2, <3>3
    <3>. QED
      BY <1>10, <3>3, <3>4
  <2>3. \A i \in 1 .. n + 1 : d[i + 1] \in 2 .. m + 2
    <3>. SUFFICES ASSUME NEW i \in 1 .. n + 1, d[i + 1] = 1 PROVE FALSE
      <4>1. \A i \in 1 .. n + 1 : i + 1 \in 1 .. n + 2
        OBVIOUS
      <4>. QED
        BY <2>1, <4>1
    <3>. DEFINE ones == {k \in 2 .. n + 2 : d[k] = 1}
    <3>1. i + 1 \in ones
      OBVIOUS
    <3>2. PICK k \in ones : \A j \in ones : k <= j
      <4>0. i + 1 \in 2 .. n + 2 /\ \A k \in 2 .. n + 2 : k \in Nat
        OBVIOUS
      <4>1. ones \in SUBSET Nat /\ ones # {}
        BY <3>1, <4>0
      <4>. HIDE DEF ones
      <4>. QED
        BY <4>1, LeastElement
    <3>3. k \in 2 .. n + 2 /\ d[k] = 1 /\ k # 2
      BY <2>2
    <3>4. k - 1 \in 1 .. n + 1 /\ k - 1 + 1 = k /\ k - 1 \in 2 .. n + 2 /\ k - 1 \in 1 .. n + 2 /\ ~(k <= k - 1)
      BY <3>3
    <3>5. Piece(v, f, k - 1, d[k - 1], d[k])
      BY <1>14, <3>4
    <3>6. d[k - 1] <= 1
      BY <3>3, <3>5 DEF Piece
    <3>7. d[k - 1] = 1
      <4>1. PICK x \in 1 .. m + 2 : x = d[k - 1]
        BY <2>1, <3>4
      <4>2. x <= 1 => x = 1
        OBVIOUS
      <4>. QED
        BY <3>6, <4>1, <4>2
    <3>8. k - 1 \in ones
      BY <3>4, <3>7
    <3>. QED
      BY <3>2, <3>4, <3>8
  <2>4. PICK c : c = [i \in 1 .. n + 1 |-> d[i + 1] - 1]
    OBVIOUS
  <2>5. c \in [1 .. n + 1 -> 1 .. m + 1] /\ \A i \in 1 .. n + 1 : c[i] + 1 = d[i + 1]
    <3>1. ASSUME NEW i \in 1 .. n + 1
          PROVE  d[i + 1] - 1 \in 1 .. m + 1 /\ d[i + 1] - 1 + 1 = d[i + 1]
      <4>1. PICK x \in 2 .. m + 2 : x = d[i + 1]
        BY <2>3
      <4>2. x - 1 \in 1 .. m + 1 /\ x - 1 + 1 = x
        OBVIOUS
      <4>. QED
        BY <4>1, <4>2
    <3>. QED
      BY <2>4, <3>1
  <2>6. c[1] = 1 /\ c[n + 1] = m + 1
    <3>1. 1 \in 1 .. n + 1 /\ n + 1 \in 1 .. n + 1 /\ 1 + 1 = 2
      OBVIOUS
    <3>2. PICK x \in 1 .. m + 1 : x = c[1]
      BY <2>5, <3>1
    <3>3. PICK y \in 1 .. m + 1 : y = c[n + 1]
      BY <2>5, <3>1
    <3>4. x + 1 = 2
      BY <2>2, <2>5, <3>1, <3>2
    <3>5. y + 1 = m + 1 + 1
      BY <1>14, <2>5, <3>1, <3>3
    <3>6. x = 1 /\ y = m + 1
      BY <3>4, <3>5
    <3>. QED
      BY <3>2, <3>3, <3>6
  <2>7. ASSUME NEW i \in 1 .. n
        PROVE  Piece(p, s, i, c[i], c[i + 1])
    <3>1. i \in 1 .. n + 1 /\ i + 1 \in 1 .. n + 1
      OBVIOUS
    <3>2. PICK b \in 1 .. m + 1 : b = c[i] /\ d[i + 1] = b + 1
      BY <2>5, <3>1
    <3>3. PICK e \in 1 .. m + 1 : e = c[i + 1] /\ d[i + 1 + 1] = e + 1
      BY <2>5, <3>1
    <3>4. Piece(v, f, i + 1, d[i + 1], d[i + 1 + 1])
      BY <1>14, <3>1
    <3>5. Piece(v, f, i + 1, b + 1, e + 1)
      BY <3>2, <3>3, <3>4
    <3>6. Piece(p, s, i, b, e)
      BY <1>9, <3>5
    <3>. QED
      BY <3>2, <3>3, <3>6
  <2>8. c \in CutsOf(n, m)
    BY <2>5 DEF CutsOf
  <2>. QED
    BY <1>11, <2>6, <2>7, <2>8
<1>. QED
  BY <1>1, <1>2, <1>11, <1>12, <1>13, <1>14

-----------------------------------------------------------------------------
(* Ignored files.                                                          *)

Rooted(v) == v \in Seq(Char) /\ v # << >> /\ Head(v) = "/"
Patterns == [pattern : Seq(Char), line : Nat]
Ignored == {r.pattern : r \in Range(ignoreFiles)}
PatternsRead ==
  /\ ignoreFiles \in Seq(Patterns)
  /\ Ignored = {Tail(ValueOf(n)) : n \in Handled("ignoreFiles")}
  /\ \A n \in Handled("ignoreFiles") : Rooted(ValueOf(n))
IgnoresInv == pc # "exit2" => PatternsRead

LEMMA IgnoresAre ==
  ASSUME IgnoresInv
  PROVE  IgnoresExact
<1>. SUFFICES ASSUME pc = "configured", HasFile, NEW f \in Files, Range(f) \cap LineBreaks = {}
              PROVE  (\E i \in DOMAIN ignoreFiles : RegexMatch(Compiled(ignoreFiles[i].pattern), Tail(f)))
                     <=> \E n \in With("ignoreFiles") : Described(ValueOf(n), f)
  BY DEF IgnoresExact
<1>1. Handled("ignoreFiles") = With("ignoreFiles")
  BY DEF Handled, Parsing
<1>2. /\ Ignored = {Tail(ValueOf(n)) : n \in With("ignoreFiles")}
      /\ \A n \in With("ignoreFiles") : Rooted(ValueOf(n))
  BY <1>1 DEF IgnoresInv, PatternsRead
<1>3. f \in Seq(Char) /\ f # << >> /\ Head(f) = "/"
  BY ConfigAssumption, TextAssumption DEF Files
<1>4. PICK s : s = Tail(f)
  OBVIOUS
<1>5. s \in Seq(Char) /\ Range(s) \cap LineBreaks = {}
  <2>1. s \in Seq(Char) /\ Len(s) = Len(f) - 1 /\ \A i \in 1 .. Len(s) : s[i] = f[i + 1]
    BY <1>3, <1>4, HeadTailProperties
  <2>2. PICK m, l \in Nat : m = Len(s) /\ l = Len(f)
    BY <1>3, <2>1
  <2>3. \A i \in 1 .. m : i + 1 \in 1 .. l
    BY <2>1, <2>2
  <2>4. DOMAIN s = 1 .. m /\ DOMAIN f = 1 .. l
    BY <1>3, <2>1, <2>2
  <2>5. Range(s) \subseteq Range(f)
    BY <2>1, <2>2, <2>3, <2>4 DEF Range
  <2>. QED
    BY <2>1, <2>5
<1>6. ASSUME NEW n \in With("ignoreFiles")
      PROVE  RegexMatch(Compiled(Tail(ValueOf(n))), s) <=> Described(ValueOf(n), f)
  <2>1. PICK v : v = ValueOf(n)
    OBVIOUS
  <2>2. v \in Seq(Char) /\ v # << >> /\ Head(v) = "/"
    BY <1>2, <2>1 DEF Rooted
  <2>3. PICK p : p = Tail(v)
    OBVIOUS
  <2>4. p \in Seq(Char)
    BY <2>2, <2>3, HeadTailProperties
  <2>5. RegexMatch(Compiled(p), s) <=> Described(p, s)
    BY <1>5, <2>4, WildcardsMatch
  <2>6. Described(v, f) <=> Described(Tail(v), Tail(f))
    BY <1>3, <2>2, BehindSlash
  <2>. QED
    BY <1>4, <2>1, <2>3, <2>5, <2>6
<1>7. (\E i \in DOMAIN ignoreFiles : RegexMatch(Compiled(ignoreFiles[i].pattern), s))
      <=> \E p \in Ignored : RegexMatch(Compiled(p), s)
  BY DEF Ignored, Range
<1>8. (\E p \in Ignored : RegexMatch(Compiled(p), s))
      <=> \E n \in With("ignoreFiles") : RegexMatch(Compiled(Tail(ValueOf(n))), s)
  BY <1>2
<1>. QED
  BY <1>4, <1>6, <1>7, <1>8

LEMMA IgnoresKept ==
  ASSUME IgnoresInv, pc # "exit2", input' = input, ignoreFiles' = ignoreFiles, Handled("ignoreFiles")' = Handled("ignoreFiles")
  PROVE  IgnoresInv'
<1>1. \A n : ValueOf(n)' = ValueOf(n)
  BY SameFile
<1>2. PatternsRead
  BY DEF IgnoresInv
<1>3. Ignored' = Ignored
  BY DEF Ignored
<1>4. {Tail(ValueOf(n)') : n \in Handled("ignoreFiles")'} = {Tail(ValueOf(n)) : n \in Handled("ignoreFiles")}
  BY <1>1
<1>5. \A n \in Handled("ignoreFiles")' : Rooted(ValueOf(n)')
  BY <1>1, <1>2 DEF PatternsRead
<1>6. PatternsRead'
  BY <1>2, <1>3, <1>4, <1>5 DEF PatternsRead, Rooted
<1>. QED
  BY <1>6 DEF IgnoresInv

\* A line that says nothing of ignored files.
LEMMA IgnoresNextLine ==
  ASSUME TextInv, IgnoresInv, input' = input, Parsing, pc' = "parse", line'.no = line.no + 1,
         ignoreFiles' = ignoreFiles, line.no \notin With("ignoreFiles")
  PROVE  IgnoresInv'
<1>1. Parsing' /\ pc # "exit2"
  BY DEF Parsing
<1>2. Handled("ignoreFiles")' = Handled("ignoreFiles")
  BY <1>1, HandledNext
<1>. QED
  BY <1>1, <1>2, IgnoresKept

LEMMA IgnoresEarly ==
  ASSUME IgnoresInv, pc \in Early, ReadArgument \/ EndOfArguments \/ AppendDefaultBin \/ EndOfBins \/ AppendDefaultLib
                                   \/ ReadEnvironment \/ EnvironmentPart \/ EndOfEnvironment
  PROVE  IgnoresInv'
<1>1. input' = input /\ pc' \in Early \cup {"exit2"} /\ ignoreFiles' = ignoreFiles
  BY EarlyKeeps
<1>3. CASE pc' = "exit2"
  BY <1>3 DEF IgnoresInv
<1>4. CASE pc' \in Early
  <2>1. Handled("ignoreFiles")' = Handled("ignoreFiles")
    BY <1>4 DEF Early, Handled, Parsing
  <2>2. pc # "exit2"
    BY DEF Early
  <2>. QED
    BY <1>1, <2>1, <2>2, IgnoresKept
<1>. QED
  BY <1>1, <1>3, <1>4

LEMMA IgnoresOpenConfig ==
  ASSUME TextInv, IgnoresInv, OpenConfig
  PROVE  IgnoresInv'
<1>1. pc = "open" /\ input' = input /\ pc' \in {"parse", "configured", "exit2"} /\ ruleVars' = ruleVars
  BY DEF OpenConfig, Exit2, settingVars
<1>2. ignoreFiles' = ignoreFiles
  BY <1>1 DEF ruleVars
<1>3. CASE pc' = "exit2"
  BY <1>3 DEF IgnoresInv
<1>4. CASE pc' = "configured"
  <2>1. ~HasFile
    <3>1. File = Absent \/ File = Unreadable
      BY <1>4 DEF OpenConfig, File
    <3>. QED
      BY <3>1 DEF HasFile
  <2>2. ~HasFile'
    BY <1>1, <2>1, SameFile
  <2>3. Handled("ignoreFiles")' = Handled("ignoreFiles")
    BY <1>1, <1>4, <2>2 DEF Handled, Parsing
  <2>. QED
    BY <1>1, <1>2, <2>3, IgnoresKept
<1>5. CASE pc' = "parse"
  <2>1. line'.no = 1 /\ HasFile
    BY <1>5, TextOpenConfig
  <2>2. PICK k : k = "ignoreFiles"
    OBVIOUS
  <2>3. With(k)' = With(k) /\ \A n \in With(k) : n \in Nat /\ n # 0
    BY <1>1, <2>1, SameFile, LinesType DEF With, SettingNos
  <2>4. {n \in With(k) : n < 1} = {}
    BY <2>3
  <2>5. Handled(k)' = {n \in With(k) : n < 1}
    BY <1>5, <2>1, <2>3 DEF Handled, Parsing
  <2>6. Handled(k) = {}
    BY <1>1 DEF Handled, Parsing
  <2>. QED
    BY <1>1, <1>2, <2>2, <2>4, <2>5, <2>6, IgnoresKept
<1>. QED
  BY <1>1, <1>3, <1>4, <1>5

LEMMA IgnoresParserStep ==
  ASSUME TextInv, IgnoresInv, ParserStep
  PROVE  IgnoresInv'
<1>1. pc = "parse" /\ pc' = pc /\ input' = input /\ ruleVars' = ruleVars /\ (SkipLine \/ ParseLine)
  BY DEF ParserStep, settingVars
<1>2. ignoreFiles' = ignoreFiles
  BY <1>1 DEF ruleVars
<1>3. CASE SkipLine
  <2>1. line'.no = line.no + 1 /\ line.no \notin LineNos
    BY <1>1, <1>3, TextSkip
  <2>2. line.no \notin With("ignoreFiles")
    BY <2>1 DEF With, SettingNos
  <2>. QED
    BY <1>1, <1>2, <2>1, <2>2, IgnoresNextLine DEF Parsing
<1>4. CASE ParseLine
  <2>1. line' = line
    BY <1>4 DEF ParseLine
  <2>2. Parsing /\ Parsing' /\ line'.no = line.no
    BY <1>1, <2>1 DEF Parsing
  <2>3. Handled("ignoreFiles")' = Handled("ignoreFiles")
    BY <1>1, <2>2, HandledLine
  <2>. QED
    BY <1>1, <1>2, <2>3, IgnoresKept
<1>. QED
  BY <1>1, <1>3, <1>4

LEMMA IgnoresConfigured ==
  ASSUME TextInv, IgnoresInv, Configured
  PROVE  IgnoresInv'
<1>1. pc = "parse" /\ AtEnd /\ pc' = "configured" /\ input' = input /\ ruleVars' = ruleVars
  BY DEF Configured, EndOfFile, settingVars
<1>2. ignoreFiles' = ignoreFiles
  BY <1>1 DEF ruleVars
<1>3. HasFile /\ \A n \in LineNos : n < line.no
  BY <1>1, AllLinesRead
<1>4. PICK k : k = "ignoreFiles"
  OBVIOUS
<1>5. With(k)' = With(k) /\ HasFile'
  BY <1>1, <1>3, SameFile
<1>6. {n \in With(k) : n < line.no} = With(k)
  BY <1>3 DEF With, SettingNos
<1>7. Handled(k)' = Handled(k)
  BY <1>1, <1>5, <1>6 DEF Handled, Parsing
<1>. QED
  BY <1>1, <1>2, <1>4, <1>7, IgnoresKept

LEMMA IgnoresScan ==
  ASSUME TextInv, IgnoresInv, ScanMore \/ ScanPart
  PROVE  IgnoresInv'
<1>1. pc \in {"parse", "parts"} /\ input' = input /\ line' = line /\ ruleVars' = ruleVars /\ pc' \in {"parts", "exit2"}
  <2>1. CASE ScanMore
    BY <2>1 DEF ScanMore, OnLine, settingVars
  <2>2. CASE ScanPart
    BY <2>2 DEF ScanPart, PartsOf, Exit2, settingVars, parserVars
  <2>. QED
    BY <2>1, <2>2
<1>2. ignoreFiles' = ignoreFiles
  BY <1>1 DEF ruleVars
<1>3. CASE pc' = "exit2"
  BY <1>3 DEF IgnoresInv
<1>4. CASE pc' # "exit2"
  <2>1. Parsing /\ Parsing' /\ line'.no = line.no
    BY <1>1, <1>4 DEF Parsing
  <2>2. Handled("ignoreFiles")' = Handled("ignoreFiles")
    BY <1>1, <2>1, HandledLine
  <2>3. pc # "exit2"
    BY <1>1
  <2>. QED
    BY <1>1, <1>2, <2>2, <2>3, IgnoresKept
<1>. QED
  BY <1>3, <1>4

LEMMA IgnoresEndOfParts ==
  ASSUME TextInv, ErrorInv, IgnoresInv, EndOfParts
  PROVE  IgnoresInv'
<1>1. pc = "parts" /\ pc' = "parse" /\ input' = input /\ ruleVars' = ruleVars
  BY DEF EndOfParts, settingVars
<1>2. ignoreFiles' = ignoreFiles
  BY <1>1 DEF ruleVars
<1>3. line'.no = line.no + 1
  BY TextEndOfParts
<1>4. PICK j \in ScanKeys : line.no \in With(j)
  BY <1>1 DEF ErrorInv, LinesInv
<1>5. line.no \notin With("ignoreFiles")
  BY <1>4, KeysDiffer DEF ScanKeys
<1>. QED
  BY <1>1, <1>2, <1>3, <1>5, IgnoresNextLine DEF Parsing

\* A handler of rules leaves the patterns alone.
LEMMA IgnoresRule ==
  ASSUME TextInv, IgnoresInv, OptDepend \/ AddLibPath
  PROVE  IgnoresInv'
<1>1. PICK k \in RuleKeys : /\ pc = "parse" /\ at = "onLine" /\ line.no \in With(k)
                            /\ pc' = "exit2" \/ (Accept /\ ignoreFiles' = ignoreFiles)
  <2>1. CASE OptDepend
    <3>1. pc = "parse" /\ at = "onLine" /\ OnLine({"addOptDepend", "removeOptDepend"})
      BY <2>1 DEF OptDepend, OnLine
    <3>2. pc' = "exit2" \/ (Accept /\ ignoreFiles' = ignoreFiles)
      BY <2>1 DEF OptDepend, Reject, Exit2
    <3>. QED
      BY <3>1, <3>2, KeyLine DEF RuleKeys
  <2>2. CASE AddLibPath
    <3>1. pc = "parse" /\ at = "onLine" /\ OnLine({"addLibPath"})
      BY <2>2 DEF AddLibPath, OnLine
    <3>2. pc' = "exit2" \/ (Accept /\ ignoreFiles' = ignoreFiles)
      BY <2>2 DEF AddLibPath, Reject, Exit2
    <3>. QED
      BY <3>1, <3>2, KeyLine DEF RuleKeys
  <2>. QED
    BY <2>1, <2>2
<1>2. CASE pc' = "exit2"
  BY <1>2 DEF IgnoresInv
<1>3. CASE Accept /\ ignoreFiles' = ignoreFiles
  <2>1. line'.no = line.no + 1 /\ pc' = "parse" /\ input' = input
    BY <1>1, <1>3, TextAccept DEF Accept
  <2>2. line.no \notin With("ignoreFiles")
    BY <1>1, KeysDiffer DEF RuleKeys
  <2>. QED
    BY <1>1, <1>3, <2>1, <2>2, IgnoresNextLine DEF Parsing
<1>. QED
  BY <1>1, <1>2, <1>3

LEMMA IgnoresIgnoreFiles ==
  ASSUME TextInv, IgnoresInv, IgnoreFiles
  PROVE  IgnoresInv'
<1>1. pc = "parse" /\ at = "onLine" /\ OnLine({"ignoreFiles"})
  BY DEF IgnoreFiles, OnLine
<1>2. CASE pc' = "exit2"
  BY <1>2 DEF IgnoresInv
<1>3. CASE pc' # "exit2"
  <2>1. /\ IsPrefix(<<"/">>, Value) /\ Accept
        /\ ignoreFiles' = Append(ignoreFiles, [pattern |-> Tail(Value), line |-> line.no])
    BY <1>3 DEF IgnoreFiles, Reject, Exit2
  <2>2. input' = input /\ line'.no = line.no + 1 /\ pc' = "parse"
    BY <1>1, <2>1, TextAccept DEF Accept
  <2>3. Parsing /\ Parsing'
    BY <1>1, <2>2 DEF Parsing
  <2>4. line.no \in With("ignoreFiles") /\ Value = ValueOf(line.no) /\ Solids(Value)
    BY <1>1, KeyLine
  <2>5. PICK v \in Seq(Char) : v = Value
    BY <2>4 DEF Solids
  <2>6. v # << >> /\ Head(v) = "/"
    BY <2>1, <2>5, SlashFirst
  <2>7. PICK l \in Nat : l = line.no
    BY <2>3 DEF TextInv, LineIs
  <2>8. PICK p \in Seq(Char) : p = Tail(v)
    BY <2>6, HeadTailProperties
  <2>9. PICK r \in Patterns : r = [pattern |-> p, line |-> l]
    BY DEF Patterns
  <2>10. PatternsRead
    BY <1>1 DEF IgnoresInv
  <2>11. ignoreFiles' = Append(ignoreFiles, r)
    BY <2>1, <2>5, <2>7, <2>8, <2>9
  <2>12. Range(ignoreFiles') = Range(ignoreFiles) \cup {r} /\ ignoreFiles' \in Seq(Patterns)
    <3>1. PICK s \in Seq(Patterns) : s = ignoreFiles
      BY <2>10 DEF PatternsRead
    <3>2. Range(Append(s, r)) = Range(s) \cup {r}
      BY RangeMore
    <3>3. Append(s, r) \in Seq(Patterns)
      OBVIOUS
    <3>. QED
      BY <2>11, <3>1, <3>2, <3>3
  <2>13. Ignored' = Ignored \cup {p}
    <3>1. r.pattern = p
      BY <2>9
    <3>. QED
      BY <2>12, <3>1 DEF Ignored
  <2>14. Handled("ignoreFiles")' = Handled("ignoreFiles") \cup {l}
    BY <2>2, <2>3, <2>4, <2>7, HandledNext
  <2>15. \A n : ValueOf(n)' = ValueOf(n)
    BY <2>2, SameFile
  <2>16. v = ValueOf(l)
    BY <2>4, <2>5, <2>7
  <2>17. {Tail(ValueOf(n)') : n \in Handled("ignoreFiles")'} = {Tail(ValueOf(n)) : n \in Handled("ignoreFiles")} \cup {p}
    BY <2>8, <2>14, <2>15, <2>16
  <2>18. \A n \in Handled("ignoreFiles")' : Rooted(ValueOf(n)')
    BY <2>6, <2>10, <2>14, <2>15, <2>16 DEF PatternsRead, Rooted
  <2>19. PatternsRead'
    BY <2>10, <2>12, <2>13, <2>17, <2>18 DEF PatternsRead, Rooted
  <2>. QED
    BY <2>19 DEF IgnoresInv
<1>. QED
  BY <1>2, <1>3

LEMMA IgnoresSame ==
  ASSUME IgnoresInv, UNCHANGED vars
  PROVE  IgnoresInv'
<1>1. input' = input /\ pc' = pc /\ line' = line /\ ignoreFiles' = ignoreFiles
  BY DEF vars, progressVars, parserVars, settingVars, ruleVars
<1>2. CASE pc = "exit2"
  BY <1>1, <1>2 DEF IgnoresInv
<1>3. CASE pc # "exit2"
  <2>1. (HasFile' <=> HasFile) /\ (Parsing' <=> Parsing) /\ \A k : With(k)' = With(k)
    BY <1>1, SameFile DEF Parsing
  <2>2. Handled("ignoreFiles")' = Handled("ignoreFiles")
    BY <1>1, <2>1 DEF Handled
  <2>. QED
    BY <1>1, <1>3, <2>2, IgnoresKept
<1>. QED
  BY <1>2, <1>3

\* Every step keeps a pattern for each line that it passes, and no others.
LEMMA IgnoreStep == TextInv /\ ErrorInv /\ IgnoresInv /\ [Next]_vars => IgnoresInv'
<1>. SUFFICES ASSUME TextInv, ErrorInv, IgnoresInv, [Next]_vars PROVE IgnoresInv'
  OBVIOUS
<1>1. CASE UNCHANGED vars
  BY <1>1, IgnoresSame
<1>2. CASE Syntax \/ OtherKey
  <2>1. pc' = "exit2"
    BY <1>2 DEF Syntax, OtherKey
  <2>. QED
    BY <2>1 DEF IgnoresInv
<1>3. CASE \/ ReadArgument \/ EndOfArguments \/ AppendDefaultBin \/ EndOfBins \/ AppendDefaultLib
           \/ ReadEnvironment \/ EnvironmentPart \/ EndOfEnvironment
  <2>1. pc \in Early
    BY <1>3 DEF ReadArgument, EndOfArguments, AppendDefaultBin, EndOfBins, AppendDefaultLib,
                ReadEnvironment, EnvironmentPart, EndOfEnvironment, Early
  <2>. QED
    BY <1>3, <2>1, IgnoresEarly
<1>. QED
  BY <1>1, <1>2, <1>3, IgnoresOpenConfig, IgnoresParserStep, IgnoresConfigured, IgnoresScan, IgnoresEndOfParts,
     IgnoresIgnoreFiles, IgnoresRule
  DEF Next, Handler, Stopped

LEMMA IgnoreAlways == Spec => []IgnoresInv
<1>1. Init => IgnoresInv
  <2>. SUFFICES ASSUME Init PROVE IgnoresInv
    OBVIOUS
  <2>1. pc = "args" /\ ignoreFiles = << >>
    BY DEF Init
  <2>2. Handled("ignoreFiles") = {}
    BY <2>1 DEF Handled, Parsing
  <2>3. Ignored = {} /\ ignoreFiles \in Seq(Patterns)
    <3>1. DOMAIN ignoreFiles = {}
      BY <2>1
    <3>. QED
      BY <2>1, <3>1 DEF Ignored, Range
  <2>. QED
    BY <2>2, <2>3 DEF IgnoresInv, PatternsRead
<1>. QED
  BY <1>1, IgnoreStep, TextAlways, ErrorAlways, PTL DEF Spec

\* A file is ignored if and only if conf.sample's description of wildcards says
\* so of some ignoreFiles line.  (A ** does not match a name with a line break.)
THEOREM AlwaysIgnoresExact == Spec => []IgnoresExact
BY IgnoresAre, IgnoreAlways, PTL
=============================================================================
