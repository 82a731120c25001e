------------------------------ MODULE UtilProofs ------------------------------
(***************************************************************************)
(* Three functions of util: normalizePath() stays inside its buffers and   *)
(* its result is normal, for paths of any length over any alphabet;        *)
(* ThreadPool::groupTasks(), for any number of tasks, any argument and any *)
(* number of threads; and forkExecStdCapture(), for pipes, buffers and     *)
(* output of any size.                                                     *)
(* No statement is about more than one of them.                            *)
(***************************************************************************)
EXTENDS NormalizePath, GroupTasks, ForkExec, SequenceTheorems, TLAPS, WellFoundedInduction

\* The first k bytes of buf, when the last of them is a '/'.
LEMMA KeptEndsWithSlash ==
  ASSUME TypeOK, NEW k \in 0..Len(buf), k > 0 => buf[k] = "/"
  PROVE  /\ Kept(k) \in Seq(Char) /\ Len(Kept(k)) = k
         /\ Kept(k) = << >> \/ Kept(k)[Len(Kept(k))] = "/"
<1>1. buf \in Seq(Char)
  BY DEF TypeOK
<1>2. CASE k = 0
  BY <1>1, <1>2 DEF Kept
<1>3. CASE k > 0
  <2>1. Kept(k) \in Seq(Char) /\ Len(Kept(k)) = k /\ Kept(k)[k] = buf[k]
    BY <1>1, <1>3, SubSeqProperties DEF Kept
  <2> QED
    BY <2>1, <1>3
<1> QED
  BY <1>2, <1>3

\* Appending a part of path to buf: what that does to length and last byte.
LEMMA CopyAppends ==
  ASSUME TypeOK, NEW k \in (pi - 1)..Len(path)
  PROVE  LET new == buf \o SubSeq(path, pi, k)
         IN  /\ new \in Seq(Char) /\ Len(new) = Len(buf) + k - pi + 1
             /\ k >= pi => new[Len(new)] = path[k]
<1> DEFINE part == SubSeq(path, pi, k)
           new == buf \o part
<1>1. buf \in Seq(Char) /\ path \in Seq(Char) /\ pi \in 1..(Len(path) + 1)
  BY DEF TypeOK
<1>2. part \in Seq(Char) /\ Len(part) = k - pi + 1 /\ (k >= pi => part[Len(part)] = path[k])
  <2>1. pi \in 1..(Len(path) + 1) /\ k \in (pi - 1)..Len(path) /\ Len(path) \in Nat
    BY <1>1
  <2>2. CASE k = pi - 1
    BY <1>1, <2>1, <2>2
  <2>3. CASE k >= pi
    <3>1. \A i \in pi..k : path[i] \in Char
      BY <1>1, <2>1
    <3>2. /\ part \in Seq(Char) /\ Len(part) = k - pi + 1
          /\ \A i \in 1..(k - pi + 1) : part[i] = path[pi + i - 1]
      <4>1. pi \in Int /\ k \in Int
        BY <2>1
      <4> HIDE DEF part
      <4> QED
        BY <2>1, <2>3, <3>1, <4>1, SubSeqProperties DEF part
    <3>3. k - pi + 1 \in 1..(k - pi + 1) /\ pi + (k - pi + 1) - 1 = k
      BY <2>1, <2>3
    <3> HIDE DEF part
    <3> QED
      BY <3>2, <3>3
  <2> QED
    BY <2>1, <2>2, <2>3
<1>3. new \in Seq(Char) /\ Len(new) = Len(buf) + Len(part)
  BY <1>1, <1>2, ConcatProperties
<1>4. k >= pi => new[Len(new)] = part[Len(part)]
  BY <1>1, <1>2, <1>3, ConcatProperties
<1>5. Len(buf) \in Nat /\ k \in Int /\ pi \in Int
  BY <1>1
<1>6. Len(new) = Len(buf) + k - pi + 1
  <2> HIDE DEF part, new
  <2> QED
    BY <1>2, <1>3, <1>5
<1>7. k >= pi => new[Len(new)] = path[k]
  <2> HIDE DEF part, new
  <2> QED
    BY <1>2, <1>4
<1> QED
  BY <1>3, <1>6, <1>7

\* Every step keeps the bytes written below the bytes read, and the '/' at the
\* end of buf.
LEMMA Invariance == Spec => []IInv
<1>1. Init => IInv
  BY LengthAssumption DEF Init, IInv, StartInv, TypeOK, FitsBuffer, EndsWithSlash
<1>2. IInv /\ [Next]_vars => IInv'
  <2> SUFFICES ASSUME IInv, [Next]_vars PROVE IInv'
    OBVIOUS
  <2>1. TypeOK /\ StartInv /\ Len(buf) <= pi - 1 /\ EndsWithSlash
    BY DEF IInv, FitsBuffer
  <2>2. buf \in Seq(Char) /\ path \in Seq(Char) /\ pi \in 1..(Len(path) + 1) /\ Len(path) \in Nat /\ Len(buf) \in Nat
    BY <2>1 DEF TypeOK
  <2>3. \A k \in Int : At(k) # End => k \in 1..Len(path)
    BY <2>2 DEF At
  <2>4. "/" # End /\ "." # End
    BY DEF End
  <2>5. CASE Absolute
    <3>1. CASE At(1) = "/"
      <4>1. 1 \in 1..Len(path) /\ buf' = <<"/">> /\ pi' = 2 /\ path' = path /\ pc' = "component"
        BY <2>3, <2>4, <2>5, <3>1 DEF Absolute
      <4>2. buf' \in Seq(Char) /\ Len(buf') = 1 /\ buf'[1] = "/"
        BY <4>1 DEF Char
      <4> QED
        BY <2>2, <4>1, <4>2 DEF IInv, TypeOK, StartInv, FitsBuffer, EndsWithSlash
    <3>2. CASE At(1) # "/"
      <4>1. buf' = buf /\ pi' = pi /\ path' = path /\ pc' = "component" /\ pc = "start"
        BY <2>5, <3>2 DEF Absolute
      <4>3. buf = << >>
        BY <2>1, <4>1 DEF StartInv
      <4> QED
        BY <2>1, <2>2, <4>1, <4>3 DEF IInv, TypeOK, StartInv, FitsBuffer, EndsWithSlash
    <3> QED
      BY <3>1, <3>2
  <2>6. CASE SkipSlash
    BY <2>1, <2>2, <2>3, <2>4, <2>6 DEF SkipSlash, IInv, TypeOK, StartInv, FitsBuffer, EndsWithSlash
  <2>7. CASE Dot
    BY <2>1, <2>2, <2>3, <2>4, <2>7 DEF Dot, IsDot, IInv, TypeOK, StartInv, FitsBuffer, EndsWithSlash
  <2>8. CASE DotDot
    <3>1. CASE BeyondRoot
      BY <2>1, <2>8, <3>1 DEF DotDot, IInv, TypeOK, StartInv, FitsBuffer, EndsWithSlash
    <3>2. CASE ~BeyondRoot
      <4>1. PICK k \in 0..(Len(buf) - 1) : IsParent(k) /\ buf' = Kept(k)
        BY <2>8, <3>2 DEF DotDot
      <4>2. buf' \in Seq(Char) /\ Len(buf') = k /\ (buf' = << >> \/ buf'[Len(buf')] = "/")
        BY <2>1, <2>2, <4>1, KeptEndsWithSlash DEF IsParent
      <4>3. path' = path /\ pc' \in {"component", "trim"} /\ pi' \in 1..(Len(path) + 1) /\ pi' >= pi
        BY <2>2, <2>3, <2>4, <2>8, <3>2 DEF DotDot, IsDotDot
      <4>4. TypeOK'
        BY <2>2, <4>2, <4>3 DEF TypeOK
      <4>5. FitsBuffer'
        <5>1. Len(buf') = k /\ pi' >= pi /\ k <= Len(buf) - 1 /\ Len(buf) <= pi - 1
          BY <2>1, <2>2, <4>2, <4>3
        <5>2. k \in Int /\ Len(buf) \in Int /\ pi \in Int /\ pi' \in Int
          BY <2>2, <4>3
        <5>3. k <= pi' - 1
          <6>1. \A a, b, c, d \in Int : a <= b - 1 /\ b <= c - 1 /\ d >= c => a <= d - 1
            OBVIOUS
          <6> QED
            BY <5>1, <5>2, <6>1
        <5>4. Len(buf') <= pi' - 1
          BY <5>1, <5>3
        <5> QED
          BY <5>4 DEF FitsBuffer
      <4>6. StartInv' /\ EndsWithSlash'
        BY <4>2, <4>3 DEF StartInv, EndsWithSlash
      <4> QED
        BY <4>4, <4>5, <4>6 DEF IInv
    <3> QED
      BY <3>1, <3>2
  <2>9. CASE Copy
    <3>1. CASE \E k \in pi..Len(path) : CopyEnd(k) /\ buf' = buf \o SubSeq(path, pi, k) /\ pi' = k + 1 /\ pc' = pc
      <4>1. PICK k \in pi..Len(path) : CopyEnd(k) /\ buf' = buf \o SubSeq(path, pi, k) /\ pi' = k + 1 /\ pc' = pc
        BY <3>1
      <4>2. buf' \in Seq(Char) /\ Len(buf') = Len(buf) + k - pi + 1 /\ buf'[Len(buf')] = path[k]
        BY <2>1, <2>2, <4>1, CopyAppends
      <4>3. path' = path /\ pc = "component" /\ path[k] = "/"
        BY <2>9, <4>1 DEF Copy, CopyEnd
      <4> QED
        BY <2>1, <2>2, <4>1, <4>2, <4>3 DEF IInv, TypeOK, StartInv, FitsBuffer, EndsWithSlash
    <3>2. CASE buf' = buf \o SubSeq(path, pi, Len(path)) /\ pi' = Len(path) + 1 /\ pc' = "done"
      <4>1. buf' \in Seq(Char) /\ Len(buf') = Len(buf) + Len(path) - pi + 1
        BY <2>1, <2>2, <3>2, CopyAppends
      <4>2. path' = path
        BY <2>9 DEF Copy
      <4> QED
        BY <2>1, <2>2, <3>2, <4>1, <4>2 DEF IInv, TypeOK, StartInv, FitsBuffer, EndsWithSlash
    <3> QED
      BY <2>9, <3>1, <3>2 DEF Copy
  <2>10. CASE Trim
    <3>1. CASE Len(buf) > 1
      <4>1. buf' = SubSeq(buf, 1, Len(buf) - 1) /\ path' = path /\ pi' = pi /\ pc' = "done"
        BY <2>10, <3>1 DEF Trim
      <4>2. buf' \in Seq(Char) /\ Len(buf') = Len(buf) - 1
        BY <2>2, <3>1, <4>1, SubSeqProperties
      <4> QED
        BY <2>1, <2>2, <4>1, <4>2 DEF IInv, TypeOK, StartInv, FitsBuffer, EndsWithSlash
    <3>2. CASE ~(Len(buf) > 1)
      BY <2>1, <2>10, <3>2 DEF Trim, IInv, TypeOK, StartInv, FitsBuffer, EndsWithSlash
    <3> QED
      BY <3>1, <3>2
  <2>11. CASE UNCHANGED vars
    BY <2>1, <2>11 DEF vars, IInv, TypeOK, StartInv, FitsBuffer, EndsWithSlash, At
  <2> QED
    BY <2>5, <2>6, <2>7, <2>8, <2>9, <2>10, <2>11 DEF Next, Terminated
<1> QED
  BY <1>1, <1>2, PTL DEF Spec

\* normalizePath() writes no byte beyond a buffer that is as long as the path
\* with its terminating null: bi stays below pi.
THEOREM StaysInBuffer == Spec => []FitsBuffer
<1>1. IInv => FitsBuffer
  BY DEF IInv
<1> QED
  BY <1>1, Invariance, PTL

\* ".." always starts from a '/' at the end of buf, which is what the code's
\* unconditional bi-- relies on.
THEOREM StepsBackFromSlash == Spec => []EndsWithSlash
<1>1. IInv => EndsWithSlash
  BY DEF IInv
<1> QED
  BY <1>1, Invariance, PTL
-----------------------------------------------------------------------------
(* Sequences of components.                                                *)

\* Every set of numbers that is not empty has a least element.
LEMMA LeastElement ==
  ASSUME NEW S \in SUBSET Nat, S # {}
  PROVE  \E i \in S : \A j \in S : i <= j
<1>1. PICK i \in S : \A j \in S : ~ (<<j, i>> \in OpToRel(<, Nat))
  BY NatLessThanWellFounded, WFMin, Zenon
<1>2. ASSUME NEW j \in S
      PROVE  i <= j
  <2>1. i \in Nat /\ j \in Nat
    OBVIOUS
  <2>2. <<j, i>> \in Nat \X Nat
    BY <2>1
  <2>3. ~ (j < i)
    BY <1>1, <2>2, Zenon DEF OpToRel
  <2>. QED
    BY <2>1, <2>3
<1>. QED
  BY <1>2

\* g[n] is the first n of seqs, one after the other.
Flattening(seqs, g, n) == \A i \in 1..n : g[i] = IF i = 1 THEN seqs[i] ELSE g[i - 1] \o seqs[i]

\* What FlattenSeq computes.  Its recursive function exists by induction: at a
\* least i where it did not, the one before it could be extended.
LEMMA FlattenedBy ==
  ASSUME NEW S, NEW seqs \in Seq(Seq(S)), Len(seqs) # 0
  PROVE  \E g \in [1..Len(seqs) -> Seq(S)] : Flattening(seqs, g, Len(seqs)) /\ FlattenSeq(seqs) = g[Len(seqs)]
<1>. DEFINE Good(g, n) == \A i \in 1..n : g[i] = IF i = 1 THEN seqs[i] ELSE g[i - 1] \o seqs[i]
            Bad == {n \in 1..Len(seqs) : ~ \E g \in [1..n -> Seq(S)] : Good(g, n)}
<1>1. Len(seqs) \in Nat \ {0} /\ \A i \in 1..Len(seqs) : seqs[i] \in Seq(S)
  OBVIOUS
<1>2. Bad = {}
  <2>. SUFFICES ASSUME Bad # {} PROVE FALSE
    OBVIOUS
  <2>1. PICK n \in Bad : \A j \in Bad : n <= j
    <3>1. Bad \in SUBSET Nat
      BY <1>1
    <3>. HIDE DEF Bad
    <3>. QED
      BY <3>1, LeastElement
  <2>2. n \in 1..Len(seqs) /\ ~ \E g \in [1..n -> Seq(S)] : Good(g, n)
    OBVIOUS
  <2>3. CASE n = 1
    <3>1. [i \in 1..1 |-> seqs[i]] \in [1..1 -> Seq(S)]
      BY <1>1
    <3>2. Good([i \in 1..1 |-> seqs[i]], 1)
      OBVIOUS
    <3>. QED
      BY <2>2, <2>3, <3>1, <3>2
  <2>4. CASE n # 1
    <3>0. n - 1 \in 1..Len(seqs) /\ ~(n <= n - 1)
      BY <1>1, <2>2, <2>4
    <3>1. n - 1 \in 1..Len(seqs) /\ n - 1 \notin Bad
      BY <2>1, <3>0, Zenon
    <3>2. PICK g \in [1..(n - 1) -> Seq(S)] : Good(g, n - 1)
      BY <3>1
    <3>. DEFINE h == [i \in 1..n |-> IF i = n THEN g[n - 1] \o seqs[n] ELSE g[i]]
    <3>3. g[n - 1] \in Seq(S) /\ seqs[n] \in Seq(S)
      BY <1>1, <2>2, <3>1
    <3>4. g[n - 1] \o seqs[n] \in Seq(S)
      BY <3>3, ConcatProperties
    <3>5. h \in [1..n -> Seq(S)]
      BY <1>1, <2>2, <3>4
    <3>6. ASSUME NEW i \in 1..n
          PROVE  h[i] = IF i = 1 THEN seqs[i] ELSE h[i - 1] \o seqs[i]
      <4>1. CASE i = n
        <5>1. n \in 1..n /\ n - 1 \in 1..n /\ n - 1 # n
          BY <1>1, <2>2, <2>4
        <5>2. h[n] = g[n - 1] \o seqs[n] /\ h[n - 1] = g[n - 1]
          BY <5>1
        <5>. QED
          BY <2>4, <4>1, <5>2
      <4>2. CASE i # n
        <5>1. i \in 1..(n - 1) /\ h[i] = g[i]
          BY <1>1, <2>2, <4>2
        <5>2. i # 1 => i - 1 \in 1..n /\ i - 1 # n /\ h[i - 1] = g[i - 1]
          BY <1>1, <2>2, <5>1
        <5>. QED
          BY <3>2, <5>1, <5>2
      <4>. QED
        BY <4>1, <4>2
    <3>7. Good(h, n)
      BY <3>6
    <3>. QED
      BY <2>2, <3>5, <3>7
  <2>. QED
    BY <2>3, <2>4
<1>3. PICK g \in [1..Len(seqs) -> Seq(S)] : Good(g, Len(seqs))
  <2>1. Len(seqs) \in 1..Len(seqs)
    BY <1>1
  <2>2. Len(seqs) \notin Bad
    BY <1>2, Zenon
  <2>. QED
    BY <2>1, <2>2
<1>. DEFINE flatten[i \in 1..Len(seqs)] == IF i = 1 THEN seqs[i] ELSE flatten[i - 1] \o seqs[i]
<1>4. g = [i \in 1..Len(seqs) |-> IF i = 1 THEN seqs[i] ELSE g[i - 1] \o seqs[i]]
  BY <1>3
<1>5. flatten = [i \in 1..Len(seqs) |-> IF i = 1 THEN seqs[i] ELSE flatten[i - 1] \o seqs[i]]
  BY <1>4
<1>6. FlattenSeq(seqs) = flatten[Len(seqs)]
  BY DEF FlattenSeq
<1>. HIDE DEF flatten
<1>. DEFINE Wrong == {i \in 1..Len(seqs) : flatten[i] \notin Seq(S)}
<1>7. Wrong = {}
  <2>. SUFFICES ASSUME Wrong # {} PROVE FALSE
    OBVIOUS
  <2>1. PICK n \in Wrong : \A j \in Wrong : n <= j
    <3>1. Wrong \in SUBSET Nat
      BY <1>1
    <3>. HIDE DEF Wrong
    <3>. QED
      BY <3>1, LeastElement
  <2>2. n # 1
    BY <1>1, <1>5
  <2>3. n - 1 \in 1..Len(seqs) /\ n - 1 \notin Wrong
    BY <1>1, <2>1, <2>2
  <2>4. flatten[n - 1] \in Seq(S) /\ seqs[n] \in Seq(S)
    BY <1>1, <2>3
  <2>5. flatten[n] = flatten[n - 1] \o seqs[n]
    BY <1>5, <2>2
  <2>6. flatten[n - 1] \o seqs[n] \in Seq(S)
    BY <2>4, ConcatProperties
  <2>. QED
    BY <2>5, <2>6
<1>8. flatten \in [1..Len(seqs) -> Seq(S)]
  BY <1>5, <1>7
<1>9. Flattening(seqs, flatten, Len(seqs))
  BY <1>5 DEF Flattening
<1>. QED
  BY <1>6, <1>8, <1>9

LEMMA FlattenedNone == ASSUME NEW seqs, Len(seqs) = 0 PROVE FlattenSeq(seqs) = seqs
BY DEF FlattenSeq

LEMMA Flattened ==
  ASSUME NEW S, NEW seqs \in Seq(Seq(S))
  PROVE  FlattenSeq(seqs) \in Seq(S)
<1>1. CASE Len(seqs) = 0
  <2>1. seqs = << >>
    BY <1>1
  <2>2. FlattenSeq(seqs) = seqs
    BY <1>1, FlattenedNone, Zenon
  <2>3. << >> \in Seq(S)
    OBVIOUS
  <2>. QED
    BY <2>1, <2>2, <2>3, Zenon
<1>2. CASE Len(seqs) # 0
  <2>1. PICK g \in [1..Len(seqs) -> Seq(S)] : FlattenSeq(seqs) = g[Len(seqs)]
    BY <1>2, FlattenedBy
  <2>2. Len(seqs) \in 1..Len(seqs)
    BY <1>2
  <2>. QED
    BY <2>1, <2>2
<1>. QED
  BY <1>1, <1>2

\* One more sequence behind those that were flattened.
LEMMA FlattenedMore ==
  ASSUME NEW S, NEW seqs \in Seq(Seq(S)), NEW last \in Seq(S)
  PROVE  FlattenSeq(Append(seqs, last)) = FlattenSeq(seqs) \o last
<1>. DEFINE more == Append(seqs, last)
<1>1. PICK n \in Nat : n = Len(seqs)
  OBVIOUS
<1>2. /\ more \in Seq(Seq(S)) /\ Len(more) = n + 1 /\ more[n + 1] = last /\ \A i \in 1..n : more[i] = seqs[i]
  BY <1>1
<1>. HIDE DEF more
<1>3. PICK h \in [1..(n + 1) -> Seq(S)] : Flattening(more, h, n + 1) /\ FlattenSeq(more) = h[n + 1]
  <2>1. Len(more) # 0
    BY <1>2
  <2>2. \E h \in [1..Len(more) -> Seq(S)] : Flattening(more, h, Len(more)) /\ FlattenSeq(more) = h[Len(more)]
    BY <1>2, <2>1, FlattenedBy
  <2>. QED
    BY <1>2, <2>2
<1>4. CASE n = 0
  <2>1. seqs = << >> /\ FlattenSeq(seqs) = seqs
    <3>1. Len(seqs) = 0
      BY <1>1, <1>4
    <3>2. FlattenSeq(seqs) = seqs
      BY <3>1, FlattenedNone, Zenon
    <3>. QED
      BY <3>1, <3>2
  <2>2. h[1] = last
    BY <1>2, <1>3, <1>4 DEF Flattening
  <2>3. << >> \o last = last
    OBVIOUS
  <2>4. FlattenSeq(more) = last
    BY <1>3, <1>4, <2>2
  <2>. QED
    BY <2>1, <2>3, <2>4, Zenon DEF more
<1>5. CASE n # 0
  <2>1. PICK g \in [1..n -> Seq(S)] : Flattening(seqs, g, n) /\ FlattenSeq(seqs) = g[n]
    BY <1>1, <1>5, FlattenedBy
  <2>. DEFINE Wrong == {i \in 1..n : h[i] # g[i]}
  <2>2. Wrong = {}
    <3>. SUFFICES ASSUME Wrong # {} PROVE FALSE
      OBVIOUS
    <3>1. PICK i \in Wrong : \A j \in Wrong : i <= j
      <4>1. Wrong \in SUBSET Nat
        OBVIOUS
      <4>. HIDE DEF Wrong
      <4>. QED
        BY <4>1, LeastElement
    <3>2. i \in 1..n /\ i \in 1..(n + 1) /\ h[i] # g[i]
      OBVIOUS
    <3>3. h[i] = IF i = 1 THEN seqs[i] ELSE h[i - 1] \o seqs[i]
      BY <1>2, <1>3, <3>2 DEF Flattening
    <3>4. g[i] = IF i = 1 THEN seqs[i] ELSE g[i - 1] \o seqs[i]
      BY <2>1, <3>2 DEF Flattening
    <3>5. i # 1 => i - 1 \in 1..n /\ i - 1 \notin Wrong
      BY <3>1, <3>2
    <3>. QED
      BY <3>2, <3>3, <3>4, <3>5
  <2>3. n \in 1..n /\ n \notin Wrong
    <3>1. n \in 1..n
      BY <1>5
    <3>2. n \notin Wrong
      BY <2>2, Zenon
    <3>. QED
      BY <3>1, <3>2, Zenon
  <2>4. h[n + 1] = h[n] \o last
    <3>1. n + 1 \in 1..(n + 1) /\ n + 1 # 1 /\ (n + 1) - 1 = n
      BY <1>5
    <3>2. h[n + 1] = h[(n + 1) - 1] \o more[n + 1]
      BY <1>3, <3>1 DEF Flattening
    <3>. QED
      BY <1>2, <3>1, <3>2
  <2>5. h[n] = g[n]
    BY <2>3
  <2>6. FlattenSeq(more) = FlattenSeq(seqs) \o last
    BY <1>3, <2>1, <2>4, <2>5, Zenon
  <2>. QED
    BY <2>6 DEF more
<1>. QED
  BY <1>4, <1>5


Part == [left : Seq(Seq(Char)), next : Seq(Char), beyond : BOOLEAN]
NoSlash(c) == \A i \in 1..Len(c) : c[i] # "/"

\* No component that is left is empty or has a '/' in it.
Proper(r) ==
  /\ \A i \in 1..Len(r.left) : Len(r.left[i]) > 0 /\ NoSlash(r.left[i])
  /\ NoSlash(r.next)

\* Components with a '/' behind each: none, and one more.
LEMMA SlashedMore ==
  ASSUME NEW cs \in Seq(Seq(Char)), NEW c \in Seq(Char)
  PROVE  /\ Slashed(cs) \in Seq(Char)
         /\ cs = << >> => Slashed(cs) = << >>
         /\ Slashed(Append(cs, c)) = Slashed(cs) \o Append(c, "/")
<1>. DEFINE parts(s) == [i \in DOMAIN s |-> Append(s[i], "/")]
<1>1. "/" \in Char
  BY DEF Char
<1>2. ASSUME NEW s \in Seq(Seq(Char))
      PROVE  parts(s) \in Seq(Seq(Char)) /\ Len(parts(s)) = Len(s)
  <2>1. PICK n \in Nat : n = Len(s) /\ DOMAIN s = 1..n
    BY <1>2
  <2>2. \A i \in 1..n : Append(s[i], "/") \in Seq(Char)
    BY <1>1, <2>1
  <2>3. parts(s) \in [1..n -> Seq(Char)]
    BY <2>1, <2>2
  <2>. HIDE DEF parts
  <2>. QED
    BY <2>1, <2>3
<1>3. Slashed(cs) \in Seq(Char)
  <2>1. FlattenSeq(parts(cs)) \in Seq(Char)
    <3>1. parts(cs) \in Seq(Seq(Char))
      BY <1>2
    <3>. HIDE DEF parts
    <3>. QED
      BY <3>1, Flattened
  <2>. QED
    BY <2>1 DEF Slashed
<1>4. cs = << >> => Slashed(cs) = << >>
  <2>. SUFFICES ASSUME cs = << >> PROVE Slashed(cs) = << >>
    OBVIOUS
  <2>1. parts(cs) = << >> /\ Len(parts(cs)) = 0
    BY <1>2
  <2>2. FlattenSeq(parts(cs)) = parts(cs)
    <3>. HIDE DEF parts
    <3>. QED
      BY <2>1, FlattenedNone, Zenon
  <2>. QED
    BY <2>1, <2>2 DEF Slashed
<1>5. parts(Append(cs, c)) = Append(parts(cs), Append(c, "/"))
  <2>1. PICK n \in Nat : n = Len(cs) /\ DOMAIN cs = 1..n
    OBVIOUS
  <2>2. /\ Append(cs, c) \in Seq(Seq(Char)) /\ DOMAIN Append(cs, c) = 1..(n + 1)
        /\ Append(cs, c)[n + 1] = c /\ \A i \in 1..n : Append(cs, c)[i] = cs[i]
    BY <2>1
  <2>3. DOMAIN parts(Append(cs, c)) = 1..(n + 1) /\ \A i \in 1..(n + 1) : parts(Append(cs, c))[i] = Append(Append(cs, c)[i], "/")
    BY <2>2
  <2>4. /\ DOMAIN Append(parts(cs), Append(c, "/")) = 1..(n + 1)
        /\ Append(parts(cs), Append(c, "/"))[n + 1] = Append(c, "/")
        /\ \A i \in 1..n : Append(parts(cs), Append(c, "/"))[i] = Append(cs[i], "/")
        /\ Append(parts(cs), Append(c, "/")) \in Seq(Seq(Char))
    <3>1. parts(cs) \in Seq(Seq(Char)) /\ Len(parts(cs)) = n /\ \A i \in 1..n : parts(cs)[i] = Append(cs[i], "/")
      BY <1>2, <2>1
    <3>2. Append(c, "/") \in Seq(Char)
      BY <1>1
    <3>. HIDE DEF parts
    <3>. QED
      BY <3>1, <3>2
  <2>5. parts(Append(cs, c)) \in Seq(Seq(Char))
    BY <1>2, <2>2
  <2>6. \A i \in 1..(n + 1) : parts(Append(cs, c))[i] = Append(parts(cs), Append(c, "/"))[i]
    <3>1. \A i \in 1..(n + 1) : i = n + 1 \/ i \in 1..n
      BY <2>1
    <3>. HIDE DEF parts
    <3>. QED
      BY <2>2, <2>3, <2>4, <3>1
  <2>. HIDE DEF parts
  <2>7. Len(parts(Append(cs, c))) = Len(Append(parts(cs), Append(c, "/"))) /\ Len(parts(Append(cs, c))) = n + 1
    BY <2>1, <2>3, <2>4, <2>5
  <2>. QED
    BY <2>4, <2>5, <2>6, <2>7, SeqEqual
<1>6. Slashed(Append(cs, c)) = Slashed(cs) \o Append(c, "/")
  <2>1. parts(cs) \in Seq(Seq(Char)) /\ Append(c, "/") \in Seq(Char)
    BY <1>1, <1>2
  <2>2. Slashed(Append(cs, c)) = FlattenSeq(parts(Append(cs, c))) /\ Slashed(cs) = FlattenSeq(parts(cs))
    BY DEF Slashed
  <2>. HIDE DEF parts
  <2>. QED
    BY <1>5, <2>1, <2>2, FlattenedMore
<1>. QED
  BY <1>3, <1>4, <1>6

-----------------------------------------------------------------------------
(* What ReadOf computes.                                                   *)

\* Its recursive function exists by induction: at a least n where it did not, the
\* one before it could be extended.
LEMMA ReadIs ==
  ASSUME NEW p \in Seq(Char)
  PROVE  /\ ReadOf(p)[0] = NothingRead
         /\ \A n \in 1..Len(p) : ReadOf(p)[n] = More(ReadOf(p)[n - 1], p[n])
<1>. DEFINE Good(g, n) == \A i \in 0..n : g[i] = IF i = 0 THEN NothingRead ELSE More(g[i - 1], p[i])
            Bad == {n \in Nat : ~ \E g : Good(g, n)}
<1>0. PICK c \in Nat : c = Len(p)
  OBVIOUS
<1>1. Bad = {}
  <2>. SUFFICES ASSUME Bad # {} PROVE FALSE
    OBVIOUS
  <2>1. PICK n \in Bad : \A j \in Bad : n <= j
    <3>1. Bad \in SUBSET Nat
      OBVIOUS
    <3>. HIDE DEF Bad
    <3>. QED
      BY <3>1, LeastElement
  <2>2. n \in Nat /\ ~ \E g : Good(g, n)
    OBVIOUS
  <2>3. CASE n = 0
    <3>. DEFINE h == [i \in 0..0 |-> NothingRead]
    <3>1. Good(h, 0)
      OBVIOUS
    <3>. QED
      BY <2>2, <2>3, <3>1
  <2>4. CASE n # 0
    <3>0. n - 1 \in Nat /\ ~(n <= n - 1)
      BY <2>2, <2>4
    <3>1. n - 1 \notin Bad
      BY <2>1, <3>0, Zenon
    <3>2. PICK g : Good(g, n - 1)
      BY <3>0, <3>1
    <3>. DEFINE h == [i \in 0..n |-> IF i = n THEN More(g[n - 1], p[n]) ELSE g[i]]
    <3>3. ASSUME NEW i \in 0..n
          PROVE  h[i] = IF i = 0 THEN NothingRead ELSE More(h[i - 1], p[i])
      <4>1. CASE i = n
        <5>1. n \in 0..n /\ n - 1 \in 0..n /\ n - 1 # n
          BY <2>2, <2>4
        <5>2. h[n] = More(g[n - 1], p[n]) /\ h[n - 1] = g[n - 1]
          BY <5>1
        <5>. QED
          BY <2>4, <4>1, <5>2
      <4>2. CASE i # n
        <5>1. i \in 0..(n - 1) /\ h[i] = g[i]
          BY <2>2, <4>2
        <5>2. i # 0 => i - 1 \in 0..n /\ i - 1 # n /\ h[i - 1] = g[i - 1]
          BY <2>2, <5>1
        <5>. QED
          BY <3>2, <5>1, <5>2
      <4>. QED
        BY <4>1, <4>2
    <3>4. Good(h, n)
      BY <3>3
    <3>. QED
      BY <2>2, <3>4
  <2>. QED
    BY <2>3, <2>4
<1>2. PICK g : Good(g, c)
  <2>1. c \notin Bad
    BY <1>1, Zenon
  <2>. QED
    BY <2>1
<1>. DEFINE h == [i \in 0..c |-> g[i]]
<1>3. h = [n \in 0..c |-> IF n = 0 THEN NothingRead ELSE More(h[n - 1], p[n])]
  <2>1. ASSUME NEW n \in 0..c
        PROVE  h[n] = IF n = 0 THEN NothingRead ELSE More(h[n - 1], p[n])
    <3>1. n # 0 => n - 1 \in 0..c
      OBVIOUS
    <3>2. h[n] = g[n] /\ (n # 0 => h[n - 1] = g[n - 1])
      BY <3>1
    <3>. QED
      BY <1>2, <3>2
  <2>. QED
    BY <2>1
<1>. DEFINE read[n \in 0..c] == IF n = 0 THEN NothingRead ELSE More(read[n - 1], p[n])
<1>. HIDE DEF h
<1>4. read = [n \in 0..c |-> IF n = 0 THEN NothingRead ELSE More(read[n - 1], p[n])]
  BY <1>3
<1>5. ReadOf(p) = read
  BY <1>0 DEF ReadOf
<1>. HIDE DEF read
<1>6. 0 \in 0..c /\ \A n \in 1..c : n \in 0..c /\ n # 0
  OBVIOUS
<1>7. read[0] = NothingRead /\ \A n \in 1..c : read[n] = More(read[n - 1], p[n])
  BY <1>4, <1>6
<1>. QED
  BY <1>0, <1>5, <1>7

LEMMA FrontIs ==
  ASSUME NEW S, NEW s \in Seq(S), s # << >>
  PROVE  /\ Front(s) \in Seq(S) /\ Len(Front(s)) = Len(s) - 1
         /\ \A i \in 1..(Len(s) - 1) : Front(s)[i] = s[i] /\ i \in 1..Len(s)
<1>1. PICK n \in Nat : n = Len(s)
  OBVIOUS
<1>2. n # 0
  BY <1>1
<1>3. 1 \in Int /\ n - 1 \in Int /\ \A i \in 1..(n - 1) : s[i] \in S /\ i \in 1..n
  BY <1>1, <1>2
<1>4. n - 1 \in Nat /\ \A i \in 1..(n - 1) : 1 + i - 1 = i
  BY <1>2
<1>5. /\ SubSeq(s, 1, n - 1) \in Seq(S)
      /\ Len(SubSeq(s, 1, n - 1)) = n - 1
      /\ \A i \in 1..(n - 1) : SubSeq(s, 1, n - 1)[i] = s[i]
  <2>. DEFINE m == n - 1
  <2>1. m \in Nat /\ m <= Len(s)
    BY <1>1, <1>4
  <2>. HIDE DEF m
  <2>2. SubSeq(s, 1, m) \in Seq(S) /\ Len(SubSeq(s, 1, m)) = m /\ \A i \in 1..m : SubSeq(s, 1, m)[i] = s[i]
    BY <2>1
  <2>. QED
    BY <2>2 DEF m
<1>. QED
  BY <1>1, <1>3, <1>5 DEF Front

LEMMA AppendIs ==
  ASSUME NEW S, NEW s \in Seq(S), NEW e \in S
  PROVE  /\ Append(s, e) \in Seq(S) /\ Len(Append(s, e)) = Len(s) + 1
         /\ \A i \in 1..(Len(s) + 1) : IF i = Len(s) + 1 THEN Append(s, e)[i] = e
                                          ELSE i \in 1..Len(s) /\ Append(s, e)[i] = s[i]
<1>1. PICK n \in Nat : n = Len(s)
  OBVIOUS
<1>2. \A i \in 1..(n + 1) : i = n + 1 \/ i \in 1..n
  BY <1>1
<1>. QED
  BY <1>1, <1>2

LEMMA SubSeqMore ==
  ASSUME NEW S, NEW s \in Seq(S), NEW from \in Nat, NEW to \in Nat, 1 <= from, from <= to, to <= Len(s)
  PROVE  Append(SubSeq(s, from, to - 1), s[to]) = SubSeq(s, from, to)
<1>1. PICK n \in Nat : n = Len(s) /\ to <= n /\ s \in [1..n -> S]
  OBVIOUS
<1>. DEFINE a == SubSeq(s, from, to - 1)
            b == SubSeq(s, from, to)
<1>2. a \in Seq(S) /\ Len(a) = to - from /\ \A i \in 1..(to - from) : a[i] = s[from + i - 1]
  BY <1>1
<1>3. b \in Seq(S) /\ Len(b) = to - from + 1 /\ \A i \in 1..(to - from + 1) : b[i] = s[from + i - 1]
  BY <1>1
<1>4. s[to] \in S /\ to - from \in Nat
  BY <1>1
<1>. HIDE DEF a, b
<1>5. PICK m \in Nat : m = to - from
  BY <1>4
<1>6. /\ Append(a, s[to]) \in Seq(S) /\ Len(Append(a, s[to])) = m + 1
      /\ \A i \in 1..(m + 1) : IF i = m + 1 THEN Append(a, s[to])[i] = s[to] ELSE i \in 1..m /\ Append(a, s[to])[i] = a[i]
  <2>1. Len(a) = m /\ Len(a) \in Nat
    BY <1>2, <1>5
  <2>2. /\ Append(a, s[to]) \in Seq(S) /\ Len(Append(a, s[to])) = Len(a) + 1
        /\ \A i \in 1..(Len(a) + 1) : IF i = Len(a) + 1 THEN Append(a, s[to])[i] = s[to]
                                        ELSE i \in 1..Len(a) /\ Append(a, s[to])[i] = a[i]
    <3>1. PICK e \in S : e = s[to]
      BY <1>4
    <3>2. a \in Seq(S)
      BY <1>2
    <3>3. /\ Append(a, e) \in Seq(S) /\ Len(Append(a, e)) = Len(a) + 1
          /\ \A i \in 1..(Len(a) + 1) : IF i = Len(a) + 1 THEN Append(a, e)[i] = e
                                          ELSE i \in 1..Len(a) /\ Append(a, e)[i] = a[i]
      BY <3>2, AppendIs
    <3>. QED
      BY <3>1, <3>3
  <2>. QED
    BY <2>1, <2>2
<1>7. from + (m + 1) - 1 = to
  BY <1>5
<1>8. \A i \in 1..(m + 1) : Append(a, s[to])[i] = b[i]
  <2>1. \A i \in 1..m : a[i] = s[from + i - 1]
    BY <1>2, <1>5
  <2>2. \A i \in 1..(m + 1) : b[i] = s[from + i - 1]
    BY <1>3, <1>5
  <2>. QED
    BY <1>6, <1>7, <2>1, <2>2
<1>9. Append(a, s[to]) = b
  BY <1>3, <1>5, <1>6, <1>8, SeqEqual
<1>. QED
  BY <1>9 DEF a, b

\* The end of a component, case by case.
LEMMA EndedIs ==
  ASSUME NEW r \in Part, Proper(r)
  PROVE  /\ Ended(r) \in Part /\ Proper(Ended(r)) /\ Ended(r).next = << >>
         /\ r.next = << >> => Ended(r) = r
         /\ r.next = <<".">> => Ended(r).left = r.left /\ Ended(r).beyond = r.beyond
         /\ r.next = <<".", ".">> /\ r.left = << >> => Ended(r).beyond
         /\ r.next = <<".", ".">> /\ r.left # << >> =>
              Ended(r).left = Front(r.left) /\ Ended(r).beyond = r.beyond
         /\ r.next # << >> /\ r.next # <<".">> /\ r.next # <<".", ".">> =>
              Ended(r).left = Append(r.left, r.next) /\ Ended(r).beyond = r.beyond
         /\ r.beyond => Ended(r).beyond
<1>. DEFINE none == << >>
            dot == <<".">>
            dots == <<".", ".">>
<1>0. none \in Seq(Char) /\ none # dot /\ none # dots /\ dot # dots /\ Len(none) = 0
  <2>1. Len(none) = 0 /\ Len(dot) = 1 /\ Len(dots) = 2
    OBVIOUS
  <2>. QED
    BY <2>1
<1>1. Ended(r) =
        LET ended == [r EXCEPT !.next = none]
        IN  IF r.next \in {none, dot} THEN ended
            ELSE IF r.next = dots /\ r.left = none THEN [ended EXCEPT !.beyond = TRUE]
            ELSE IF r.next = dots /\ r.left # none THEN [ended EXCEPT !.left = Front(@)]
            ELSE [ended EXCEPT !.left = Append(@, r.next)]
  BY <1>0 DEF Ended
<1>. HIDE DEF none, dot, dots
<1>2. r = [left |-> r.left, next |-> r.next, beyond |-> r.beyond] /\ r.left \in Seq(Seq(Char)) /\ r.next \in Seq(Char) /\ r.beyond \in BOOLEAN
  BY DEF Part
<1>3. PICK n \in Nat : n = Len(r.left)
  BY <1>2
<1>4. NoSlash(none)
  BY <1>0 DEF NoSlash
<1>5. CASE r.next = none \/ r.next = dot
  <2>1. Ended(r) = [left |-> r.left, next |-> none, beyond |-> r.beyond]
    BY <1>1, <1>2, <1>5
  <2>2. Ended(r) \in Part /\ Ended(r).left = r.left /\ Ended(r).next = none /\ Ended(r).beyond = r.beyond
    BY <1>0, <1>2, <2>1 DEF Part
  <2>3. Proper(Ended(r))
    BY <1>4, <2>2 DEF Proper
  <2>4. r.next = none => Ended(r) = r
    BY <1>2, <2>1
  <2>. QED
    BY <1>0, <1>5, <2>2, <2>3, <2>4 DEF none, dot, dots
<1>6. CASE r.next = dots /\ r.left = none
  <2>1. Ended(r) = [left |-> r.left, next |-> none, beyond |-> TRUE]
    BY <1>0, <1>1, <1>2, <1>6
  <2>2. Ended(r) \in Part /\ Ended(r).left = r.left /\ Ended(r).next = none /\ Ended(r).beyond
    BY <1>0, <1>2, <2>1 DEF Part
  <2>3. Proper(Ended(r))
    BY <1>4, <2>2 DEF Proper
  <2>. QED
    BY <1>0, <1>6, <2>2, <2>3 DEF none, dot, dots
<1>7. CASE r.next = dots /\ r.left # none
  <2>1. Ended(r) = [left |-> Front(r.left), next |-> none, beyond |-> r.beyond]
    BY <1>0, <1>1, <1>2, <1>7
  <2>2. n # 0
    BY <1>2, <1>3, <1>7 DEF none
  <2>3. /\ Front(r.left) \in Seq(Seq(Char)) /\ Len(Front(r.left)) = n - 1
        /\ \A i \in 1..(n - 1) : Front(r.left)[i] = r.left[i] /\ i \in 1..n
    BY <1>2, <1>3, <1>7, FrontIs DEF none
  <2>4. Ended(r) \in Part /\ Ended(r).left = Front(r.left) /\ Ended(r).next = none /\ Ended(r).beyond = r.beyond
    BY <1>0, <1>2, <2>1, <2>3 DEF Part
  <2>5. Proper(Ended(r))
    BY <1>3, <1>4, <2>3, <2>4 DEF Proper
  <2>. QED
    BY <1>0, <1>7, <2>4, <2>5 DEF none, dot, dots
<1>8. CASE r.next # none /\ r.next # dot /\ r.next # dots
  <2>1. Ended(r) = [left |-> Append(r.left, r.next), next |-> none, beyond |-> r.beyond]
    BY <1>0, <1>1, <1>2, <1>8
  <2>2. /\ Append(r.left, r.next) \in Seq(Seq(Char)) /\ Len(Append(r.left, r.next)) = n + 1
        /\ \A i \in 1..(n + 1) : Append(r.left, r.next)[i] = IF i = n + 1 THEN r.next ELSE r.left[i]
        /\ \A i \in 1..(n + 1) : i # n + 1 => i \in 1..n
    BY <1>2, <1>3, AppendIs
  <2>3. Ended(r) \in Part /\ Ended(r).left = Append(r.left, r.next) /\ Ended(r).next = none /\ Ended(r).beyond = r.beyond
    BY <1>0, <1>2, <2>1, <2>2 DEF Part
  <2>4. Len(r.next) > 0
    BY <1>2, <1>8 DEF none
  <2>5. Proper(Ended(r))
    <3>1. \A i \in 1..(n + 1) : Len(Ended(r).left[i]) > 0 /\ NoSlash(Ended(r).left[i])
      BY <1>3, <2>2, <2>3, <2>4 DEF Proper
    <3>. QED
      BY <1>4, <2>2, <2>3, <3>1 DEF Proper
  <2>. QED
    BY <1>0, <1>8, <2>3, <2>5 DEF none, dot, dots
<1>. QED
  BY <1>5, <1>6, <1>7, <1>8

\* One more character.
LEMMA MoreIs ==
  ASSUME NEW r \in Part, Proper(r), NEW c \in Char
  PROVE  /\ More(r, c) \in Part /\ Proper(More(r, c))
         /\ c = "/" => More(r, c) = Ended(r)
         /\ c # "/" => More(r, c) = [left |-> r.left, next |-> Append(r.next, c), beyond |-> r.beyond]
         /\ r.beyond => More(r, c).beyond
<1>1. r = [left |-> r.left, next |-> r.next, beyond |-> r.beyond] /\ r.left \in Seq(Seq(Char)) /\ r.next \in Seq(Char) /\ r.beyond \in BOOLEAN
  BY DEF Part
<1>2. CASE c = "/"
  BY <1>2, EndedIs DEF More
<1>3. CASE c # "/"
  <2>1. More(r, c) = [left |-> r.left, next |-> Append(r.next, c), beyond |-> r.beyond]
    BY <1>1, <1>3 DEF More
  <2>2. Append(r.next, c) \in Seq(Char) /\ NoSlash(Append(r.next, c))
    <3>1. PICK n \in Nat : n = Len(r.next)
      BY <1>1
    <3>2. /\ Append(r.next, c) \in Seq(Char) /\ Len(Append(r.next, c)) = n + 1
          /\ \A i \in 1..(n + 1) : Append(r.next, c)[i] = IF i = n + 1 THEN c ELSE r.next[i]
          /\ \A i \in 1..(n + 1) : i # n + 1 => i \in 1..n
      BY <1>1, <3>1
    <3>. QED
      BY <1>3, <3>1, <3>2 DEF NoSlash, Proper
  <2>3. More(r, c) \in Part
    BY <1>1, <2>1, <2>2 DEF Part
  <2>4. More(r, c).left = r.left /\ More(r, c).next = Append(r.next, c) /\ More(r, c).beyond = r.beyond
    BY <2>1
  <2>5. Proper(More(r, c))
    BY <2>2, <2>4 DEF Proper
  <2>. QED
    BY <1>3, <2>1, <2>3, <2>4, <2>5
<1>. QED
  BY <1>2, <1>3

LEMMA ReadType ==
  ASSUME NEW p \in Seq(Char), NEW n \in 0..Len(p)
  PROVE  ReadOf(p)[n] \in Part /\ Proper(ReadOf(p)[n])
<1>. DEFINE Bad == {i \in 0..Len(p) : ~(ReadOf(p)[i] \in Part /\ Proper(ReadOf(p)[i]))}
<1>1. Bad = {}
  <2>. SUFFICES ASSUME Bad # {} PROVE FALSE
    OBVIOUS
  <2>1. PICK i \in Bad : \A j \in Bad : i <= j
    <3>1. Bad \in SUBSET Nat
      OBVIOUS
    <3>. HIDE DEF Bad
    <3>. QED
      BY <3>1, LeastElement
  <2>2. i \in 0..Len(p) /\ ~(ReadOf(p)[i] \in Part /\ Proper(ReadOf(p)[i]))
    OBVIOUS
  <2>3. NothingRead \in Part /\ Proper(NothingRead)
    <3>. DEFINE none == << >>
    <3>1. none \in Seq(Seq(Char)) /\ none \in Seq(Char) /\ Len(none) = 0
      OBVIOUS
    <3>2. NothingRead = [left |-> none, next |-> none, beyond |-> FALSE]
      BY DEF NothingRead
    <3>. HIDE DEF none
    <3>3. NothingRead \in Part /\ Len(NothingRead.left) = 0 /\ Len(NothingRead.next) = 0
      BY <3>1, <3>2 DEF Part
    <3>. QED
      BY <3>3 DEF Proper, NoSlash
  <2>4. i # 0
    BY <2>2, <2>3, ReadIs
  <2>5. i - 1 \in 0..Len(p) /\ ~(i <= i - 1) /\ i \in 1..Len(p)
    BY <2>2, <2>4
  <2>6. i - 1 \notin Bad
    BY <2>1, <2>5, Zenon
  <2>7. ReadOf(p)[i - 1] \in Part /\ Proper(ReadOf(p)[i - 1]) /\ p[i] \in Char
    BY <2>5, <2>6
  <2>8. ReadOf(p)[i] = More(ReadOf(p)[i - 1], p[i])
    BY <2>5, ReadIs
  <2>9. ReadOf(p)[i] \in Part /\ Proper(ReadOf(p)[i])
    BY <2>7, <2>8, MoreIs
  <2>. QED
    BY <2>2, <2>9
<1>. QED
  BY <1>1

\* What had nothing to remove once stays so.
LEMMA BeyondStays ==
  ASSUME NEW p \in Seq(Char), NEW n \in 0..Len(p), ReadOf(p)[n].beyond
  PROVE  ReadOf(p)[Len(p)].beyond /\ Ended(ReadOf(p)[Len(p)]).beyond
<1>. DEFINE Bad == {i \in 0..Len(p) : n <= i /\ ~ReadOf(p)[i].beyond}
<1>1. Bad = {}
  <2>. SUFFICES ASSUME Bad # {} PROVE FALSE
    OBVIOUS
  <2>1. PICK i \in Bad : \A j \in Bad : i <= j
    <3>1. Bad \in SUBSET Nat
      OBVIOUS
    <3>. HIDE DEF Bad
    <3>. QED
      BY <3>1, LeastElement
  <2>2. i \in 0..Len(p) /\ n <= i /\ ~ReadOf(p)[i].beyond
    OBVIOUS
  <2>3. i # n
    BY <2>2
  <2>4. i - 1 \in 0..Len(p) /\ ~(i <= i - 1) /\ n <= i - 1 /\ i \in 1..Len(p)
    BY <2>2, <2>3
  <2>5. i - 1 \notin Bad
    BY <2>1, <2>4, Zenon
  <2>6. ReadOf(p)[i - 1] \in Part /\ Proper(ReadOf(p)[i - 1]) /\ ReadOf(p)[i - 1].beyond /\ p[i] \in Char
    BY <2>4, <2>5, ReadType
  <2>7. ReadOf(p)[i].beyond
    BY <2>4, <2>6, ReadIs, MoreIs
  <2>. QED
    BY <2>2, <2>7
<1>2. Len(p) \in 0..Len(p) /\ n <= Len(p)
  OBVIOUS
<1>3. ReadOf(p)[Len(p)].beyond
  BY <1>1, <1>2
<1>. QED
  BY <1>2, <1>3, ReadType, EndedIs

LEMMA Between ==
  ASSUME NEW k \in Int, NEW l \in Int, NEW n \in Int, NEW h \in Nat,
         k \in 1..(h + 1), l \in (k - 1)..h, n \in (k - 1)..l, n # k - 1
  PROVE  n - 1 \in (k - 1)..l /\ ~(n <= n - 1) /\ n \in k..l /\ n \in 1..h /\ n - 1 \in 0..h
OBVIOUS

\* What is copied of a path up to the next '/' is the next component.
LEMMA CopiedIs ==
  ASSUME NEW p \in Seq(Char), NEW from \in 1..(Len(p) + 1), NEW to \in (from - 1)..Len(p),
         ReadOf(p)[from - 1].next = << >>, \A j \in from..to : p[j] # "/"
  PROVE  /\ ReadOf(p)[to].left = ReadOf(p)[from - 1].left /\ ReadOf(p)[to].beyond = ReadOf(p)[from - 1].beyond
         /\ ReadOf(p)[to].next = SubSeq(p, from, to)
<1>. DEFINE r == ReadOf(p)[from - 1]
            Bad == {i \in (from - 1)..to : ReadOf(p)[i] # [r EXCEPT !.next = SubSeq(p, from, i)]}
<1>0. PICK m \in Nat : m = Len(p) /\ from \in 1..(m + 1) /\ to \in (from - 1)..m /\ from \in Int /\ to \in Int
  OBVIOUS
<1>1. r \in Part /\ Proper(r)
  <2>1. from - 1 \in 0..Len(p)
    BY <1>0
  <2>. QED
    BY <2>1, ReadType
<1>2. r = [left |-> r.left, next |-> r.next, beyond |-> r.beyond]
  BY <1>1 DEF Part
<1>3. Bad = {}
  <2>. SUFFICES ASSUME Bad # {} PROVE FALSE
    OBVIOUS
  <2>1. PICK i \in Bad : \A j \in Bad : i <= j
    <3>1. Bad \in SUBSET Nat
      BY <1>0
    <3>. HIDE DEF Bad
    <3>. QED
      BY <3>1, LeastElement
  <2>2. i \in (from - 1)..to /\ ReadOf(p)[i] # [r EXCEPT !.next = SubSeq(p, from, i)]
    OBVIOUS
  <2>3. SubSeq(p, from, from - 1) = << >>
    BY <1>0
  <2>4. i # from - 1
    BY <1>2, <2>2, <2>3
  <2>5. i - 1 \in (from - 1)..to /\ ~(i <= i - 1) /\ i \in from..to /\ i \in 1..Len(p) /\ i - 1 \in 0..Len(p)
    <3>1. i \in (from - 1)..to
      BY <2>2
    <3>3. i \in Int
      BY <1>0, <3>1
    <3>4. i - 1 \in (from - 1)..to /\ ~(i <= i - 1) /\ i \in from..to /\ i \in 1..m /\ i - 1 \in 0..m
      <4>. HIDE DEF Bad
      <4>. QED
        BY <1>0, <2>4, <3>1, <3>3, Between
    <3>. QED
      BY <1>0, <3>4
  <2>6. i - 1 \notin Bad
    BY <2>1, <2>5, Zenon
  <2>7. ReadOf(p)[i - 1] = [r EXCEPT !.next = SubSeq(p, from, i - 1)]
    BY <2>5, <2>6
  <2>8. p[i] \in Char /\ p[i] # "/" /\ ReadOf(p)[i - 1] \in Part /\ Proper(ReadOf(p)[i - 1])
    BY <2>5, ReadType
  <2>9. ReadOf(p)[i] = More(ReadOf(p)[i - 1], p[i])
    BY <2>5, ReadIs
  <2>10. ReadOf(p)[i - 1].left = r.left /\ ReadOf(p)[i - 1].next = SubSeq(p, from, i - 1) /\ ReadOf(p)[i - 1].beyond = r.beyond
    BY <1>2, <2>7
  <2>11. ReadOf(p)[i] = [left |-> r.left, next |-> Append(SubSeq(p, from, i - 1), p[i]), beyond |-> r.beyond]
    BY <2>8, <2>9, <2>10, MoreIs
  <2>12. Append(SubSeq(p, from, i - 1), p[i]) = SubSeq(p, from, i)
    <3>1. i \in Nat /\ from \in Nat /\ from <= i /\ i <= m /\ 1 <= from
      <4>1. i \in from..to /\ from \in 1..(m + 1) /\ to \in (from - 1)..m
        BY <1>0, <2>5
      <4>. QED
        BY <1>0, <4>1
    <3>. QED
      BY <1>0, <3>1, SubSeqMore
  <2>13. [r EXCEPT !.next = SubSeq(p, from, i)] = [left |-> r.left, next |-> SubSeq(p, from, i), beyond |-> r.beyond]
    <3>1. PICK s : s = SubSeq(p, from, i)
      OBVIOUS
    <3>2. PICK q : q = r /\ q = [left |-> q.left, next |-> q.next, beyond |-> q.beyond]
      BY <1>2
    <3>3. [q EXCEPT !.next = s] = [left |-> q.left, next |-> s, beyond |-> q.beyond]
      BY <3>2, SMTT(30)
    <3>. HIDE DEF r
    <3>. QED
      BY <3>1, <3>2, <3>3
  <2>. QED
    BY <2>2, <2>11, <2>12, <2>13
<1>4. ReadOf(p)[to] = [r EXCEPT !.next = SubSeq(p, from, to)]
  <2>1. to \in (from - 1)..to
    BY <1>0
  <2>. QED
    BY <1>3, <2>1
<1>. HIDE DEF r
<1>5. ReadOf(p)[to].left = r.left /\ ReadOf(p)[to].beyond = r.beyond /\ ReadOf(p)[to].next = SubSeq(p, from, to)
  BY <1>2, <1>4
<1>. QED
  BY <1>5 DEF r

-----------------------------------------------------------------------------
(* buf as a text of components.                                            *)

LEMMA ConcatIs ==
  ASSUME NEW S, NEW s \in Seq(S), NEW t \in Seq(S)
  PROVE  /\ s \o t \in Seq(S) /\ Len(s \o t) = Len(s) + Len(t)
         /\ \A i \in 1..Len(s) : (s \o t)[i] = s[i]
         /\ \A i \in 1..Len(t) : (s \o t)[Len(s) + i] = t[i]
<1>1. s \o t \in Seq(S) /\ Len(s \o t) = Len(s) + Len(t)
  BY ConcatProperties
<1>2. PICK n \in Nat : n = Len(s)
  OBVIOUS
<1>3. PICK m \in Nat : m = Len(t)
  OBVIOUS
<1>4. \A i \in 1..n : (s \o t)[i] = s[i]
  BY <1>2, <1>3
<1>5. \A i \in 1..m : (s \o t)[n + i] = t[i]
  BY <1>2, <1>3
<1>. QED
  BY <1>1, <1>2, <1>3, <1>4, <1>5

\* A beginning and an end of a sequence.
LEMMA PrefixIs ==
  ASSUME NEW S, NEW s \in Seq(S), NEW t \in Seq(S)
  PROVE  SubSeq(s \o t, 1, Len(s)) = s
<1>1. PICK n \in Nat : n = Len(s)
  OBVIOUS
<1>2. PICK u \in Seq(S) : u = s \o t /\ n <= Len(u) /\ \A i \in 1..n : u[i] = s[i]
  <2>1. s \o t \in Seq(S) /\ Len(s \o t) = n + Len(t) /\ \A i \in 1..n : (s \o t)[i] = s[i]
    BY <1>1, ConcatIs
  <2>2. Len(t) \in Nat
    OBVIOUS
  <2>3. n <= Len(s \o t)
    BY <2>1, <2>2
  <2>. QED
    BY <2>1, <2>3
<1>3. SubSeq(u, 1, n) \in Seq(S) /\ Len(SubSeq(u, 1, n)) = n /\ \A i \in 1..n : SubSeq(u, 1, n)[i] = u[i]
  BY <1>2
<1>4. SubSeq(u, 1, n) = s
  BY <1>1, <1>2, <1>3, SeqEqual
<1>. QED
  BY <1>1, <1>2, <1>4

LEMMA FrontConcat ==
  ASSUME NEW S, NEW s \in Seq(S), NEW c \in Seq(S), NEW x \in S
  PROVE  s \o Append(c, x) = Append(s \o c, x) /\ Front(Append(c, x)) = c
<1>1. Append(c, x) = c \o <<x>> /\ Append(s \o c, x) = (s \o c) \o <<x>> /\ <<x>> \in Seq(S)
  BY ConcatIs, AppendIsConcat
<1>2. (s \o c) \o <<x>> = s \o (c \o <<x>>)
  BY <1>1, ConcatAssociative
<1>3. Front(Append(c, x)) = c
  <2>1. Append(c, x) \in Seq(S) /\ Len(Append(c, x)) = Len(c) + 1
    BY AppendIs
  <2>2. Front(Append(c, x)) = SubSeq(c \o <<x>>, 1, Len(c))
    BY <1>1, <2>1 DEF Front
  <2>. QED
    BY <1>1, <2>2, PrefixIs
<1>. QED
  BY <1>1, <1>2, <1>3

LEMMA RootIs ==
  /\ Root \in Seq(Char) /\ (Root = << >> \/ Root = <<"/">>) /\ Len(Root) < 2
  /\ Root # << >> => Root[Len(Root)] = "/"
<1>1. CASE At(1) = "/"
  <2>1. Root = <<"/">>
    BY <1>1 DEF Root
  <2>2. <<"/">> \in Seq(Char) /\ Len(<<"/">>) = 1 /\ <<"/">>[1] = "/"
    BY DEF Char
  <2>. QED
    BY <2>1, <2>2
<1>2. CASE At(1) # "/"
  <2>1. Root = << >>
    BY <1>2 DEF Root
  <2>2. << >> \in Seq(Char) /\ Len(<< >>) = 0
    OBVIOUS
  <2>. QED
    BY <2>1, <2>2
<1>. QED
  BY <1>1, <1>2

\* What is before the last component, and that it ends with a '/' or is empty.
LEMMA TextIs ==
  ASSUME NEW cs \in Seq(Seq(Char))
  PROVE  /\ Root \o Slashed(cs) \in Seq(Char)
         /\ Root \o Slashed(cs) = << >> \/ (Root \o Slashed(cs))[Len(Root \o Slashed(cs))] = "/"
         /\ cs = << >> => Root \o Slashed(cs) = Root
         /\ cs # << >> =>
              /\ Front(cs) \in Seq(Seq(Char)) /\ cs[Len(cs)] \in Seq(Char)
              /\ Root \o Slashed(cs) = Append(Root \o Slashed(Front(cs)) \o cs[Len(cs)], "/")
              /\ Root \o Joined(cs) = Root \o Slashed(Front(cs)) \o cs[Len(cs)]
         /\ Root \o Joined(<< >>) = Root
<1>0. "/" \in Char /\ Slashed(cs) \in Seq(Char) /\ Root \in Seq(Char) /\ << >> \in Seq(Char)
  BY RootIs, SlashedMore DEF Char
<1>1. Root \o Slashed(cs) \in Seq(Char)
  BY <1>0, ConcatIs
<1>2. Root \o << >> = Root
  BY <1>0, ConcatEmptySeq
<1>3. Joined(<< >>) = << >>
  BY DEF Joined
<1>4. CASE cs = << >>
  <2>1. Root \o Slashed(cs) = Root
    <3>1. PICK c \in Seq(Char) : TRUE
      BY <1>0
    <3>2. cs = << >> => Slashed(cs) = << >>
      BY <3>1, SlashedMore
    <3>3. Slashed(cs) = << >>
      BY <1>4, <3>2, Zenon
    <3>. QED
      BY <1>2, <3>3
  <2>. QED
    BY <1>1, <1>2, <1>3, <1>4, <2>1, RootIs
<1>5. CASE cs # << >>
  <2>1. PICK n \in Nat : n = Len(cs) - 1 /\ Len(cs) = n + 1
    <3>1. Len(cs) \in Nat /\ Len(cs) # 0
      BY <1>5
    <3>2. Len(cs) - 1 \in Nat /\ Len(cs) = (Len(cs) - 1) + 1
      BY <3>1
    <3>. QED
      BY <3>2
  <2>2. PICK c \in Seq(Char) : c = cs[Len(cs)]
    BY <2>1
  <2>3. PICK f \in Seq(Seq(Char)) : f = Front(cs) /\ Len(f) = n /\ \A i \in 1..n : f[i] = cs[i]
    <3>1. Front(cs) \in Seq(Seq(Char)) /\ Len(Front(cs)) = n /\ \A i \in 1..n : Front(cs)[i] = cs[i]
      BY <1>5, <2>1, FrontIs
    <3>. QED
      BY <3>1
  <2>4. cs = Append(f, c)
    <3>1. /\ Append(f, c) \in Seq(Seq(Char)) /\ Len(Append(f, c)) = n + 1
          /\ \A i \in 1..(n + 1) : IF i = n + 1 THEN Append(f, c)[i] = c ELSE i \in 1..n /\ Append(f, c)[i] = f[i]
      BY <2>3, AppendIs
    <3>2. \A i \in 1..(n + 1) : Append(f, c)[i] = cs[i]
      BY <2>1, <2>2, <2>3, <3>1
    <3>. QED
      BY <2>1, <3>1, <3>2, SeqEqual
  <2>5. Slashed(cs) = Slashed(f) \o Append(c, "/") /\ Slashed(f) \in Seq(Char)
    BY <2>4, SlashedMore
  <2>6. Slashed(cs) = Append(Slashed(f) \o c, "/") /\ Slashed(f) \o c \in Seq(Char)
    BY <1>0, <2>5, FrontConcat, ConcatIs
  <2>7. Root \o Slashed(cs) = Append(Root \o (Slashed(f) \o c), "/") /\ Front(Slashed(cs)) = Slashed(f) \o c
    <3>1. PICK t \in Seq(Char) : t = Slashed(f) \o c
      BY <2>6
    <3>2. Slashed(cs) = Append(t, "/")
      BY <2>6, <3>1
    <3>3. Root \o Append(t, "/") = Append(Root \o t, "/") /\ Front(Append(t, "/")) = t
      BY <1>0, FrontConcat
    <3>. QED
      BY <3>1, <3>2, <3>3
  <2>8. Root \o (Slashed(f) \o c) = (Root \o Slashed(f)) \o c
    <3>1. PICK s \in Seq(Char) : s = Root
      BY <1>0
    <3>2. PICK t \in Seq(Char) : t = Slashed(f)
      BY <2>5
    <3>3. s \o (t \o c) = (s \o t) \o c
      BY ConcatAssociative, SMTT(30)
    <3>. QED
      BY <3>1, <3>2, <3>3, Zenon
  <2>9. Root \o Joined(cs) = (Root \o Slashed(f)) \o c
    BY <1>5, <2>7, <2>8 DEF Joined
  <2>10. (Root \o Slashed(cs))[Len(Root \o Slashed(cs))] = "/"
    <3>1. PICK t \in Seq(Char) : t = (Root \o Slashed(f)) \o c
      BY <1>0, <2>5, ConcatIs
    <3>2. Root \o Slashed(cs) = Append(t, "/")
      BY <2>7, <2>8, <3>1
    <3>3. Append(t, "/")[Len(Append(t, "/"))] = "/"
      BY <1>0, AppendProperties
    <3>. QED
      BY <3>2, <3>3
  <2>. QED
    BY <1>1, <1>2, <1>3, <1>5, <2>2, <2>3, <2>7, <2>8, <2>9, <2>10
<1>. QED
  BY <1>4, <1>5

-----------------------------------------------------------------------------
(* The steps.                                                              *)

LEMMA PathFacts ==
  ASSUME TypeOK
  PROVE  /\ path \in Seq(Char) /\ buf \in Seq(Char) /\ Len(path) \in Nat /\ pi \in 1..(Len(path) + 1) /\ pi \in Int
         /\ \A k \in Int : At(k) = End \/ (k \in 1..Len(path) /\ At(k) = path[k])
         /\ \A k \in 1..Len(path) : At(k) = path[k] /\ path[k] \in Char /\ path[k] # End
         /\ "/" # End /\ "." # End /\ "/" # "."
<1>1. path \in Seq(Char) /\ buf \in Seq(Char) /\ pi \in 1..(Len(path) + 1)
  BY DEF TypeOK
<1>2. PICK n \in Nat : n = Len(path) /\ DOMAIN path = 1..n
  BY <1>1
<1>3. "/" # End /\ "." # End /\ "/" # "."
  BY DEF End
<1>4. End \notin Char
  BY <1>3, LetterAssumption DEF Char, End
<1>5. \A k \in 1..n : path[k] \in Char
  BY <1>1, <1>2
<1>6. \A k \in Int : At(k) = End \/ (k \in 1..n /\ At(k) = path[k])
  BY <1>2 DEF At
<1>7. \A k \in 1..n : At(k) = path[k] /\ path[k] \in Char /\ path[k] # End
  BY <1>2, <1>4, <1>5 DEF At
<1>. QED
  BY <1>1, <1>2, <1>3, <1>6, <1>7

LEMMA AbsoluteNormal ==
  ASSUME IInv, Absolute
  PROVE  NormalInv'
<1>1. TypeOK /\ pi = 1 /\ buf = << >> /\ pc' = "component" /\ path' = path
  BY DEF IInv, StartInv, Absolute
<1>2. path \in Seq(Char) /\ Len(path) \in Nat /\ "/" # End
      /\ \A k \in Int : At(k) = End \/ (k \in 1..Len(path) /\ At(k) = path[k])
  BY <1>1, PathFacts
<1>3. Root' = Root
  BY <1>1 DEF Root, At
<1>. DEFINE none == << >>
<1>4. /\ NothingRead \in Part /\ Proper(NothingRead) /\ NothingRead = ReadOf(path)[0]
      /\ NothingRead.next = none /\ ~NothingRead.beyond /\ NothingRead.left = none
  <2>1. 0 \in 0..Len(path)
    BY <1>2
  <2>2. ReadOf(path)[0] = NothingRead
    BY <1>2, ReadIs
  <2>3. NothingRead \in Part /\ Proper(NothingRead)
    BY <1>2, <2>1, <2>2, ReadType
  <2>. QED
    BY <2>2, <2>3 DEF NothingRead
<1>5. Root \o Slashed(NothingRead.left) = Root
  <2>1. NothingRead.left \in Seq(Seq(Char))
    BY <1>4 DEF Part
  <2>2. NothingRead.left = << >>
    BY <1>4
  <2>. QED
    BY <2>1, <2>2, TextIs
<1>6. CASE At(1) = "/"
  <2>1. 1 \in 1..Len(path) /\ path[1] = "/" /\ buf' = <<"/">> /\ pi' = 2
    BY <1>2, <1>6 DEF Absolute
  <2>2. ReadOf(path)[1] = NothingRead
    <3>1. ReadOf(path)[1] = More(ReadOf(path)[1 - 1], path[1])
      BY <1>2, <2>1, ReadIs
    <3>2. ReadOf(path)[1] = Ended(NothingRead)
      BY <1>4, <2>1, <3>1 DEF More
    <3>. QED
      BY <1>4, <3>2, EndedIs
  <2>3. Root = <<"/">>
    BY <1>6 DEF Root
  <2>4. ComponentInv'
    <3>1. pi' - 1 = 1
      BY <2>1
    <3>. QED
      BY <1>1, <1>3, <1>4, <1>5, <2>1, <2>2, <2>3, <3>1 DEF ComponentInv
  <2>. QED
    BY <1>1, <2>4 DEF NormalInv, TrimInv, IsNormal
<1>7. CASE At(1) # "/"
  <2>1. buf' = buf /\ pi' = 1
    BY <1>1, <1>7 DEF Absolute
  <2>2. Root = << >>
    BY <1>7 DEF Root
  <2>3. ComponentInv'
    <3>1. pi' - 1 = 0
      BY <2>1
    <3>. QED
      BY <1>1, <1>3, <1>4, <1>5, <2>1, <2>2, <3>1 DEF ComponentInv
  <2>. QED
    BY <1>1, <2>3 DEF NormalInv, TrimInv, IsNormal
<1>. QED
  BY <1>6, <1>7

LEMMA ComponentFacts ==
  ASSUME IInv, ComponentInv, pc = "component"
  PROVE  LET r == ReadOf(path)[pi - 1]
         IN  /\ r \in Part /\ Proper(r) /\ r.next = << >> /\ ~r.beyond /\ buf = Root \o Slashed(r.left)
             /\ \A n \in Int : pi <= n /\ n <= Len(path) =>
                  n \in 1..Len(path) /\ ReadOf(path)[n] = More(ReadOf(path)[n - 1], path[n])
             /\ \A n \in Int : pi - 1 <= n /\ n <= Len(path) =>
                  n \in 0..Len(path) /\ ReadOf(path)[n] \in Part /\ Proper(ReadOf(path)[n])
<1>1. path \in Seq(Char) /\ Len(path) \in Nat /\ pi \in 1..(Len(path) + 1) /\ pi \in Int
  BY PathFacts DEF IInv
<1>2. PICK m \in Nat : m = Len(path) /\ pi \in 1..(m + 1)
  BY <1>1
<1>3. /\ \A n \in Int : pi <= n /\ n <= m => n \in 1..m
      /\ \A n \in Int : pi - 1 <= n /\ n <= m => n \in 0..m
      /\ pi - 1 \in 0..m
  BY <1>2
<1>4. /\ \A n \in 1..m : ReadOf(path)[n] = More(ReadOf(path)[n - 1], path[n])
      /\ \A n \in 0..m : ReadOf(path)[n] \in Part /\ Proper(ReadOf(path)[n])
  BY <1>1, <1>2, ReadIs, ReadType
<1>5. LET r == ReadOf(path)[pi - 1] IN r.next = << >> /\ ~r.beyond /\ buf = Root \o Slashed(r.left)
  BY DEF ComponentInv
<1>. QED
  BY <1>2, <1>3, <1>4, <1>5

LEMMA SkipNormal ==
  ASSUME IInv, ComponentInv, SkipSlash
  PROVE  NormalInv'
<1>1. TypeOK /\ pc = "component" /\ pi' = pi + 1 /\ pc' = pc /\ path' = path /\ buf' = buf /\ At(pi) = "/"
  BY DEF IInv, SkipSlash
<1>2. pi \in 1..Len(path) /\ path[pi] = "/" /\ pi \in Int /\ Len(path) \in Nat
  BY <1>1, PathFacts
<1>3. Root' = Root
  BY <1>1 DEF Root, At
<1>. DEFINE r == ReadOf(path)[pi - 1]
<1>4. r \in Part /\ Proper(r) /\ r.next = << >> /\ ~r.beyond /\ buf = Root \o Slashed(r.left)
  BY <1>1, ComponentFacts
<1>5. ReadOf(path)[pi] = More(r, path[pi])
  BY <1>1, <1>2, ComponentFacts
<1>6. ReadOf(path)[pi] = r
  BY <1>2, <1>4, <1>5, EndedIs DEF More
<1>7. pi' - 1 = pi
  BY <1>1, <1>2
<1>. HIDE DEF r
<1>8. ComponentInv'
  BY <1>1, <1>3, <1>4, <1>6, <1>7 DEF ComponentInv
<1>. QED
  BY <1>1, <1>8 DEF NormalInv, TrimInv, IsNormal

\* A component of one '.', as far as it was read; and of two.
LEMMA DotsRead ==
  ASSUME IInv, ComponentInv, pc = "component", At(pi) = "."
  PROVE  LET r == ReadOf(path)[pi - 1]
         IN  /\ pi \in 1..Len(path)
             /\ ReadOf(path)[pi] = [left |-> r.left, next |-> <<".">>, beyond |-> r.beyond]
             /\ At(pi + 1) = "." =>
                  /\ pi + 1 \in 1..Len(path)
                  /\ ReadOf(path)[pi + 1] = [left |-> r.left, next |-> <<".", ".">>, beyond |-> r.beyond]
<1>. DEFINE r == ReadOf(path)[pi - 1]
<1>0. TypeOK
  BY DEF IInv
<1>1. /\ pi \in Int /\ Len(path) \in Nat
      /\ pi \in 1..Len(path) /\ path[pi] = "." /\ path[pi] \in Char /\ path[pi] # "/"
  BY <1>0, PathFacts
<1>2. r \in Part /\ Proper(r) /\ r.next = << >>
  BY ComponentFacts
<1>3. ReadOf(path)[pi] = More(r, path[pi]) /\ ReadOf(path)[pi] \in Part /\ Proper(ReadOf(path)[pi])
  BY <1>1, ComponentFacts
<1>4. Append(r.next, path[pi]) = <<".">>
  BY <1>1, <1>2
<1>5. ReadOf(path)[pi] = [left |-> r.left, next |-> <<".">>, beyond |-> r.beyond]
  BY <1>1, <1>2, <1>3, <1>4, MoreIs
<1>6. ASSUME At(pi + 1) = "."
      PROVE  /\ pi + 1 \in 1..Len(path)
             /\ ReadOf(path)[pi + 1] = [left |-> r.left, next |-> <<".", ".">>, beyond |-> r.beyond]
  <2>1. pi + 1 \in Int /\ pi <= pi + 1 /\ (pi + 1) - 1 = pi
    BY <1>1
  <2>2. pi + 1 \in 1..Len(path) /\ path[pi + 1] = "." /\ path[pi + 1] \in Char /\ path[pi + 1] # "/"
    BY <1>0, <1>6, <2>1, PathFacts
  <2>3. pi + 1 <= Len(path)
    BY <1>1, <2>2
  <2>4. ReadOf(path)[pi + 1] = More(ReadOf(path)[pi], path[pi + 1])
    BY <2>1, <2>3, ComponentFacts
  <2>5. PICK q \in Part : q = ReadOf(path)[pi] /\ Proper(q)
    BY <1>3
  <2>6. q.left = r.left /\ q.next = <<".">> /\ q.beyond = r.beyond
    BY <1>5, <2>5
  <2>7. Append(q.next, path[pi + 1]) = <<".", ".">>
    <3>1. PICK c : c = path[pi + 1] /\ c = "."
      BY <2>2
    <3>2. Append(<<".">>, ".") = <<".", ".">>
      <4>1. <<".">> \in Seq(Char) /\ <<".", ".">> \in Seq(Char) /\ "." \in Char
        BY DEF Char
      <4>2. Append(<<".">>, ".") \in Seq(Char) /\ Len(Append(<<".">>, ".")) = 2
            /\ \A i \in 1..2 : Append(<<".">>, ".")[i] = "."
        BY <4>1, AppendProperties
      <4>3. Len(<<".", ".">>) = 2 /\ \A i \in 1..2 : <<".", ".">>[i] = "."
        OBVIOUS
      <4>. QED
        BY <4>1, <4>2, <4>3, SeqEqual
    <3>3. Append(q.next, c) = <<".", ".">>
      BY <2>6, <3>1, <3>2, Zenon
    <3>. QED
      BY <3>1, <3>3, Zenon
  <2>8. ReadOf(path)[pi + 1] = [left |-> q.left, next |-> <<".", ".">>, beyond |-> q.beyond]
    BY <2>2, <2>4, <2>5, <2>7, MoreIs
  <2>. HIDE DEF r
  <2>. QED
    BY <2>2, <2>6, <2>8
<1>. QED
  BY <1>1, <1>5, <1>6

LEMMA DotNormal ==
  ASSUME IInv, ComponentInv, Dot
  PROVE  NormalInv'
<1>. DEFINE r == ReadOf(path)[pi - 1]
<1>0. TypeOK /\ pc = "component" /\ At(pi) = "." /\ At(pi + 1) \in {"/", End} /\ path' = path /\ buf' = buf
  BY DEF IInv, Dot, IsDot
<1>1. Root' = Root
  BY <1>0 DEF Root, At
<1>2. pi \in Int /\ Len(path) \in Nat /\ path \in Seq(Char) /\ "/" # End
  BY <1>0, PathFacts
<1>3. r \in Part /\ Proper(r) /\ r.next = << >> /\ ~r.beyond /\ buf = Root \o Slashed(r.left)
  BY <1>0, ComponentFacts
<1>4. pi \in 1..Len(path) /\ ReadOf(path)[pi] = [left |-> r.left, next |-> <<".">>, beyond |-> r.beyond]
  BY <1>0, DotsRead
<1>5. PICK q : q = ReadOf(path)[pi] /\ q \in Part /\ Proper(q)
  <2>1. pi - 1 <= pi /\ pi <= Len(path)
    BY <1>2, <1>4
  <2>. QED
    BY <1>0, <1>2, <2>1, ComponentFacts
<1>6. q.left = r.left /\ q.next = <<".">> /\ q.beyond = r.beyond /\ q.next # << >>
  BY <1>4, <1>5
<1>7. Ended(q).left = r.left /\ Ended(q).beyond = r.beyond /\ Ended(q).next = << >>
  BY <1>5, <1>6, EndedIs
<1>. HIDE DEF r
<1>8. CASE At(pi + 1) = End
  <2>1. pc' = "trim"
    BY <1>0, <1>8 DEF Dot
  <2>2. pi = Len(path)
    <3>1. pi + 1 \in Int /\ pi + 1 \notin 1..Len(path)
      BY <1>0, <1>2, <1>8, PathFacts
    <3>. QED
      BY <1>2, <1>4, <3>1
  <2>3. TrimInv'
    BY <1>0, <1>1, <1>3, <1>5, <1>6, <1>7, <2>1, <2>2 DEF TrimInv
  <2>. QED
    BY <2>1, <2>3 DEF NormalInv, ComponentInv, IsNormal
<1>9. CASE At(pi + 1) = "/"
  <2>1. pc' = "component" /\ pi' = pi + 2
    BY <1>0, <1>2, <1>9 DEF Dot
  <2>2. pi + 1 \in 1..Len(path) /\ path[pi + 1] = "/" /\ pi + 1 \in Int
    BY <1>0, <1>2, <1>9, PathFacts
  <2>3. ReadOf(path)[pi + 1] = Ended(q)
    <3>1. (pi + 1) - 1 = pi /\ pi <= pi + 1 /\ pi + 1 <= Len(path)
      BY <1>2, <2>2
    <3>2. ReadOf(path)[pi + 1] = More(q, "/")
      BY <1>0, <1>5, <2>2, <3>1, ComponentFacts
    <3>. QED
      BY <3>2 DEF More
  <2>4. pi' - 1 = pi + 1
    BY <1>2, <2>1
  <2>5. ComponentInv'
    BY <1>0, <1>1, <1>3, <1>7, <2>1, <2>3, <2>4 DEF ComponentInv
  <2>. QED
    BY <2>1, <2>5 DEF NormalInv, TrimInv, IsNormal
<1>. QED
  BY <1>0, <1>8, <1>9

\* The step back of ".." takes away the last component.
LEMMA ParentIs ==
  ASSUME IInv, NEW cs \in Seq(Seq(Char)), cs # << >>, \A i \in 1..Len(cs) : Len(cs[i]) > 0 /\ NoSlash(cs[i]),
         buf = Root \o Slashed(cs), NEW k \in 0..(Len(buf) - 1), IsParent(k)
  PROVE  Kept(k) = Root \o Slashed(Front(cs))
<1>1. PICK c \in Seq(Char) : c = cs[Len(cs)] /\ Len(c) > 0 /\ NoSlash(c)
  <2>1. Len(cs) \in 1..Len(cs)
    BY Len(cs) \in Nat, Len(cs) # 0
  <2>2. cs[Len(cs)] \in Seq(Char) /\ Len(cs[Len(cs)]) > 0 /\ NoSlash(cs[Len(cs)])
    BY <2>1
  <2>. QED
    BY <2>2
<1>2. PICK p \in Seq(Char) : p = Root \o Slashed(Front(cs)) /\ (p = << >> \/ p[Len(p)] = "/")
  BY TextIs
<1>3. buf = Append(p \o c, "/")
  BY <1>1, <1>2, TextIs
<1>4. "/" \in Char /\ Append(c, "/") \in Seq(Char)
  BY DEF Char
<1>5. buf = p \o Append(c, "/")
  <2>1. p \o Append(c, "/") = Append(p \o c, "/")
    <3>. HIDE <1>3
    <3>1. PICK s \in Seq(Char) : s = p
      OBVIOUS
    <3>2. PICK t \in Seq(Char) : t = c
      OBVIOUS
    <3>3. s \o Append(t, "/") = Append(s \o t, "/")
      BY <1>4, FrontConcat, SMTT(30)
    <3>. QED
      BY <3>1, <3>2, <3>3, Zenon
  <2>. QED
    BY <1>3, <2>1, Zenon
<1>6. PICK m \in Nat : m = Len(p)
  BY <1>2
<1>7. PICK l \in Nat : l = Len(c) /\ l > 0
  BY <1>1
<1>8. /\ Len(buf) = m + l + 1
      /\ \A i \in 1..m : buf[i] = p[i]
      /\ \A i \in 1..l : buf[m + i] # "/"
  <2>1. /\ Len(buf) = Len(p) + Len(Append(c, "/"))
        /\ \A i \in 1..Len(p) : buf[i] = p[i]
        /\ \A i \in 1..Len(Append(c, "/")) : buf[Len(p) + i] = Append(c, "/")[i]
    BY <1>4, <1>5, ConcatIs
  <2>2. Len(Append(c, "/")) = l + 1 /\ \A i \in 1..l : Append(c, "/")[i] = c[i] /\ i \in 1..(l + 1)
    BY <1>1, <1>4, <1>7
  <2>3. \A i \in 1..l : c[i] # "/"
    BY <1>1, <1>7 DEF NoSlash
  <2>4. Len(buf) = m + l + 1 /\ \A i \in 1..m : buf[i] = p[i]
    <3>1. Len(buf) = m + (l + 1)
      BY <1>6, <2>1, <2>2, Zenon
    <3>2. m + (l + 1) = m + l + 1
      BY <1>6, <1>7
    <3>3. \A i \in 1..m : buf[i] = p[i]
      BY <1>6, <2>1, Zenon
    <3>. QED
      BY <3>1, <3>2, <3>3
  <2>5. ASSUME NEW i \in 1..l PROVE buf[m + i] # "/"
    <3>1. i \in 1..Len(Append(c, "/")) /\ Append(c, "/")[i] = c[i]
      BY <2>2
    <3>2. buf[Len(p) + i] = Append(c, "/")[i]
      BY <2>1, <3>1, Zenon
    <3>. QED
      BY <1>6, <2>3, <3>1, <3>2, Zenon
  <2>. QED
    BY <2>4, <2>5
<1>9. (k > 0 => buf[k] = "/") /\ \A j \in (k + 1)..(m + l) : buf[j] # "/"
  <2>1. Len(buf) - 1 = m + l
    BY <1>8
  <2>. QED
    BY <2>1 DEF IsParent
<1>10. k = m
  <2>0. k \in 0..(m + l) /\ k \in Int
    BY <1>8
  <2>1. CASE k < m
    <3>1. m \in 1..m /\ m \in (k + 1)..(m + l)
      BY <2>0, <2>1
    <3>2. buf[m] = p[m] /\ p # << >>
      BY <1>6, <1>8, <3>1
    <3>3. buf[m] = "/"
      BY <1>2, <1>6, <3>2
    <3>. QED
      BY <1>9, <3>1, <3>3
  <2>2. CASE k > m
    <3>1. k - m \in 1..l /\ m + (k - m) = k /\ k > 0
      BY <2>0, <2>2
    <3>2. buf[m + (k - m)] # "/"
      BY <1>8, <3>1
    <3>. QED
      BY <1>9, <3>1, <3>2
  <2>. QED
    BY <2>0, <2>1, <2>2
<1>11. SubSeq(buf, 1, m) = p
  BY <1>4, <1>5, <1>6, PrefixIs
<1>. QED
  BY <1>2, <1>10, <1>11 DEF Kept

LEMMA DotDotNormal ==
  ASSUME IInv, ComponentInv, DotDot
  PROVE  NormalInv'
<1>. DEFINE r == ReadOf(path)[pi - 1]
<1>0. /\ TypeOK /\ pc = "component" /\ At(pi) = "." /\ At(pi + 1) = "." /\ At(pi + 2) \in {"/", End}
      /\ path' = path
  BY DEF IInv, DotDot, IsDotDot
<1>1. Root' = Root
  BY <1>0 DEF Root, At
<1>2. pi \in Int /\ Len(path) \in Nat /\ path \in Seq(Char) /\ "/" # End
  BY <1>0, PathFacts
<1>3. r \in Part /\ Proper(r) /\ r.next = << >> /\ ~r.beyond /\ buf = Root \o Slashed(r.left)
  BY <1>0, ComponentFacts
<1>4. /\ pi \in 1..Len(path) /\ pi + 1 \in 1..Len(path)
      /\ ReadOf(path)[pi + 1] = [left |-> r.left, next |-> <<".", ".">>, beyond |-> r.beyond]
  BY <1>0, DotsRead
<1>5. PICK q : q = ReadOf(path)[pi + 1] /\ q \in Part /\ Proper(q)
  <2>1. pi - 1 <= pi + 1 /\ pi + 1 <= Len(path) /\ pi + 1 \in Int
    BY <1>2, <1>4
  <2>. QED
    BY <1>0, <2>1, ComponentFacts
<1>6. q.left = r.left /\ q.next = <<".", ".">> /\ q.beyond = r.beyond /\ q.next # << >>
  BY <1>4, <1>5
<1>7. /\ Ended(q) \in Part /\ Ended(q).next = << >>
      /\ r.left = << >> => Ended(q).beyond
      /\ r.left # << >> => Ended(q).left = Front(r.left) /\ Ended(q).beyond = r.beyond
  BY <1>5, <1>6, EndedIs
<1>8. r.left \in Seq(Seq(Char)) /\ \A i \in 1..Len(r.left) : Len(r.left[i]) > 0 /\ NoSlash(r.left[i])
  BY <1>3 DEF Part, Proper
<1>. HIDE DEF r
\* Where the path goes on behind the dots.
<1>9. At(pi + 2) = End => pi + 1 = Len(path)
  <2>1. At(pi + 2) = End => pi + 2 \notin 1..Len(path)
    BY <1>0, PathFacts
  <2>. QED
    BY <1>2, <1>4, <2>1
<1>10. At(pi + 2) = "/" => pi + 2 \in 1..Len(path) /\ ReadOf(path)[pi + 2] = Ended(q)
  <2>. SUFFICES ASSUME At(pi + 2) = "/"
                PROVE  pi + 2 \in 1..Len(path) /\ ReadOf(path)[pi + 2] = Ended(q)
    OBVIOUS
  <2>1. pi + 2 \in Int
    BY <1>2
  <2>2. pi + 2 \in 1..Len(path) /\ path[pi + 2] = "/"
    BY <1>0, <1>2, <2>1, PathFacts
  <2>3. (pi + 2) - 1 = pi + 1 /\ pi <= pi + 2 /\ pi + 2 <= Len(path)
    BY <1>2, <2>2
  <2>4. ReadOf(path)[pi + 2] = More(q, "/")
    BY <1>0, <1>5, <2>1, <2>2, <2>3, ComponentFacts
  <2>. QED
    BY <2>2, <2>4 DEF More
<1>11. CASE BeyondRoot
  <2>1. pc' = "error"
    BY <1>11 DEF DotDot
  <2>2. r.left = << >>
    <3>. SUFFICES ASSUME r.left # << >> PROVE FALSE
      OBVIOUS
    <3>1. PICK c \in Seq(Char) : c = r.left[Len(r.left)] /\ Len(c) > 0
      <4>1. PICK cs \in Seq(Seq(Char)) : cs = r.left
        BY <1>8
      <4>2. Len(cs) \in 1..Len(cs)
        BY <4>1, Len(cs) \in Nat, Len(cs) # 0
      <4>3. cs[Len(cs)] \in Seq(Char) /\ Len(cs[Len(cs)]) > 0
        BY <1>8, <4>1, <4>2
      <4>. QED
        BY <4>1, <4>3
    <3>2. PICK p \in Seq(Char) : p = Root \o Slashed(Front(r.left))
      BY <1>8, TextIs
    <3>3. buf = Append(p \o c, "/")
      BY <1>3, <1>8, <3>1, <3>2, TextIs
    <3>4. PICK t \in Seq(Char) : t = p \o c /\ Len(t) = Len(p) + Len(c)
      <4>1. p \o c \in Seq(Char) /\ Len(p \o c) = Len(p) + Len(c)
        BY ConcatIs
      <4>. QED
        BY <4>1
    <3>5. Len(buf) = Len(t) + 1
      BY <3>3, <3>4, AppendIs, "/" \in Char DEF Char
    <3>6. Len(p) \in Nat /\ Len(c) \in Nat
      OBVIOUS
    <3>. QED
      BY <1>11, <3>1, <3>4, <3>5, <3>6 DEF BeyondRoot
  <2>3. Ended(q).beyond
    BY <1>7, <2>2
  <2>4. Ended(ReadOf(path)[Len(path)]).beyond
    <3>1. CASE At(pi + 2) = End
      BY <1>5, <1>9, <2>3, <3>1
    <3>2. CASE At(pi + 2) = "/"
      <4>1. pi + 2 \in 0..Len(path)
        BY <1>2, <1>10, <3>2
      <4>2. ReadOf(path)[pi + 2].beyond
        BY <1>10, <2>3, <3>2
      <4>. QED
        BY <1>2, <4>1, <4>2, BeyondStays
    <3>. QED
      BY <1>0, <3>1, <3>2
  <2>5. IsNormal'
    BY <1>0, <2>1, <2>4 DEF IsNormal
  <2>. QED
    BY <2>1, <2>5 DEF NormalInv, ComponentInv, TrimInv
<1>12. CASE ~BeyondRoot
  <2>1. PICK k \in 0..(Len(buf) - 1) : IsParent(k) /\ buf' = Kept(k)
    BY <1>12 DEF DotDot
  <2>2. r.left # << >>
    <3>. SUFFICES ASSUME r.left = << >> PROVE FALSE
      OBVIOUS
    <3>1. buf = Root
      BY <1>3, <1>8, TextIs
    <3>2. Len(Root) < 2
      BY RootIs
    <3>. QED
      BY <1>12, <3>1, <3>2 DEF BeyondRoot
  <2>3. buf' = Root \o Slashed(Ended(q).left) /\ ~Ended(q).beyond
    BY <1>3, <1>7, <1>8, <2>1, <2>2, ParentIs
  <2>4. CASE At(pi + 2) = End
    <3>1. pc' = "trim"
      BY <1>12, <2>4 DEF DotDot
    <3>2. TrimInv'
      BY <1>0, <1>1, <1>5, <1>6, <1>9, <2>3, <2>4, <3>1 DEF TrimInv
    <3>. QED
      BY <3>1, <3>2 DEF NormalInv, ComponentInv, IsNormal
  <2>5. CASE At(pi + 2) = "/"
    <3>1. pc' = "component" /\ pi' = pi + 3
      BY <1>0, <1>2, <1>12, <2>5 DEF DotDot
    <3>2. pi' - 1 = pi + 2
      BY <1>2, <3>1
    <3>3. ComponentInv'
      BY <1>0, <1>1, <1>7, <1>10, <2>3, <2>5, <3>1, <3>2 DEF ComponentInv
    <3>. QED
      BY <3>1, <3>3 DEF NormalInv, TrimInv, IsNormal
  <2>. QED
    BY <1>0, <2>4, <2>5
<1>. QED
  BY <1>11, <1>12

\* What Copy takes is a component of its own, not "." or "..", that has ended.
LEMMA NotDots ==
  ASSUME IInv, pc = "component", At(pi) # "/", ~IsDot, ~IsDotDot,
         NEW to \in pi..Len(path), to = Len(path) \/ At(to + 1) = "/"
  PROVE  LET c == SubSeq(path, pi, to)
         IN  c \in Seq(Char) /\ c # << >> /\ c # <<".">> /\ c # <<".", ".">>
<1>0. TypeOK
  BY DEF IInv
<1>1. PICK m \in Nat : m = Len(path) /\ pi \in 1..(m + 1) /\ to \in pi..m /\ pi \in Int /\ to \in Int
  BY <1>0, PathFacts
<1>2. path \in Seq(Char) /\ (\A k \in Int : At(k) = End \/ (k \in 1..m /\ At(k) = path[k]))
      /\ \A k \in 1..m : At(k) = path[k]
  BY <1>0, <1>1, PathFacts
<1>3. PICK c \in Seq(Char) : c = SubSeq(path, pi, to) /\ Len(c) = to - pi + 1
                           /\ \A i \in 1..(to - pi + 1) : c[i] = path[pi + i - 1]
  <2>1. 1 <= pi /\ pi <= to /\ to <= m
    BY <1>1
  <2>2. SubSeq(path, pi, to) \in Seq(Char) /\ Len(SubSeq(path, pi, to)) = to - pi + 1
        /\ \A i \in 1..(to - pi + 1) : SubSeq(path, pi, to)[i] = path[pi + i - 1]
    BY <1>1, <1>2, <2>1
  <2>. QED
    BY <2>2
<1>4. At(to + 1) \in {"/", End}
  <2>1. to = m => to + 1 \in Int /\ to + 1 \notin 1..m
    BY <1>1
  <2>. QED
    BY <1>1, <1>2, <2>1
<1>5. c # << >>
  <2>1. Len(c) # 0
    BY <1>1, <1>3
  <2>. QED
    BY <2>1
<1>6. ASSUME c = <<".">> PROVE FALSE
  <2>1. Len(c) = 1 /\ c[1] = "."
    BY <1>6
  <2>2. to = pi /\ pi \in 1..m /\ 1 \in 1..(to - pi + 1) /\ pi + 1 - 1 = pi
    BY <1>1, <1>3, <2>1
  <2>3. At(pi) = "."
    BY <1>2, <1>3, <2>1, <2>2
  <2>. QED
    BY <1>4, <2>2, <2>3 DEF IsDot
<1>7. ASSUME c = <<".", ".">> PROVE FALSE
  <2>1. Len(c) = 2 /\ c[1] = "." /\ c[2] = "."
    BY <1>7
  <2>2. /\ to = pi + 1 /\ pi \in 1..m /\ pi + 1 \in 1..m /\ to + 1 = pi + 2
        /\ 1 \in 1..(to - pi + 1) /\ 2 \in 1..(to - pi + 1) /\ pi + 1 - 1 = pi /\ pi + 2 - 1 = pi + 1
    BY <1>1, <1>3, <2>1
  <2>3. At(pi) = "." /\ At(pi + 1) = "."
    BY <1>2, <1>3, <2>1, <2>2
  <2>. QED
    BY <1>4, <2>2, <2>3 DEF IsDotDot
<1>. QED
  BY <1>3, <1>5, <1>6, <1>7

\* A component more.
LEMMA ComponentMore ==
  ASSUME NEW r \in Part, Proper(r), NEW c \in Seq(Char), r.next = c,
         c # << >>, c # <<".">>, c # <<".", ".">>, NEW b, b = Root \o Slashed(r.left)
  PROVE  /\ Ended(r).beyond = r.beyond
         /\ b \o Append(c, "/") = Root \o Slashed(Ended(r).left)
         /\ b \o c = Root \o Joined(Ended(r).left)
<1>1. PICK cs \in Seq(Seq(Char)) : cs = r.left
  BY DEF Part
<1>2. Ended(r).left = Append(cs, c) /\ Ended(r).beyond = r.beyond
  BY <1>1, EndedIs
<1>3. /\ Append(cs, c) \in Seq(Seq(Char)) /\ Append(cs, c) # << >>
      /\ Append(cs, c)[Len(Append(cs, c))] = c /\ Front(Append(cs, c)) = cs
  <2>1. Append(cs, c) \in Seq(Seq(Char)) /\ Len(Append(cs, c)) = Len(cs) + 1
    BY AppendIs
  <2>2. Append(cs, c)[Len(cs) + 1] = c
    BY AppendProperties
  <2>3. Front(Append(cs, c)) = cs
    BY FrontConcat
  <2>4. Append(cs, c) # << >>
    <3>1. Len(cs) \in Nat /\ Len(Append(cs, c)) # 0
      BY <2>1
    <3>. QED
      BY <3>1
  <2>. QED
    BY <2>1, <2>2, <2>3, <2>4
<1>4. PICK ds \in Seq(Seq(Char)) : ds = Append(cs, c) /\ ds # << >> /\ ds[Len(ds)] = c /\ Front(ds) = cs
  BY <1>3
<1>5. b = Root \o Slashed(cs) /\ b \in Seq(Char)
  BY <1>1, TextIs
<1>6. Root \o Slashed(ds) = Append(b \o c, "/") /\ Root \o Joined(ds) = b \o c
  <2>1. /\ Root \o Slashed(ds) = Append((Root \o Slashed(Front(ds))) \o ds[Len(ds)], "/")
        /\ Root \o Joined(ds) = (Root \o Slashed(Front(ds))) \o ds[Len(ds)]
    <3>1. \A es \in Seq(Seq(Char)) : es # << >> =>
            /\ Root \o Slashed(es) = Append((Root \o Slashed(Front(es))) \o es[Len(es)], "/")
            /\ Root \o Joined(es) = (Root \o Slashed(Front(es))) \o es[Len(es)]
      BY TextIs
    <3>. QED
      BY <1>4, <3>1, Zenon
  <2>2. Front(ds) = cs /\ ds[Len(ds)] = c /\ b = Root \o Slashed(cs)
    BY <1>4, <1>5
  <2>. QED
    BY <2>1, <2>2, Zenon
<1>7. b \o Append(c, "/") = Append(b \o c, "/")
  BY <1>5, FrontConcat, "/" \in Char DEF Char
<1>. QED
  BY <1>2, <1>4, <1>6, <1>7

LEMMA CopyNormal ==
  ASSUME IInv, ComponentInv, Copy
  PROVE  NormalInv'
<1>. DEFINE r == ReadOf(path)[pi - 1]
<1>0. TypeOK /\ pc = "component" /\ At(pi) # "/" /\ ~IsDot /\ ~IsDotDot /\ path' = path
  BY DEF IInv, Copy
<1>1. Root' = Root
  BY <1>0 DEF Root, At
<1>2. /\ path \in Seq(Char) /\ \A k \in 1..Len(path) : At(k) = path[k]
      /\ buf \in Seq(Char)
  BY <1>0, PathFacts
<1>3. PICK m \in Nat : m = Len(path) /\ pi \in 1..(m + 1) /\ pi \in Int
  BY <1>0, PathFacts
<1>4. r \in Part /\ Proper(r) /\ r.next = << >> /\ ~r.beyond /\ buf = Root \o Slashed(r.left)
  BY <1>0, ComponentFacts
<1>5. ASSUME NEW to \in pi..m, \A j \in pi..to : path[j] # "/", to = m \/ At(to + 1) = "/"
      PROVE  \E q \in Part, c \in Seq(Char) :
               /\ q = ReadOf(path)[to] /\ Proper(q) /\ q.next = c /\ c = SubSeq(path, pi, to) /\ c # << >>
               /\ ~Ended(q).beyond
               /\ buf \o Append(c, "/") = Root \o Slashed(Ended(q).left)
               /\ buf \o c = Root \o Joined(Ended(q).left)
  <2>1. PICK c \in Seq(Char) : c = SubSeq(path, pi, to) /\ c # << >> /\ c # <<".">> /\ c # <<".", ".">>
    BY <1>0, <1>3, <1>5, NotDots
  <2>2. ReadOf(path)[to].left = r.left /\ ReadOf(path)[to].beyond = r.beyond /\ ReadOf(path)[to].next = c
    <3>1. to \in (pi - 1)..Len(path) /\ pi \in 1..(Len(path) + 1)
      BY <1>3
    <3>2. path \in Seq(Char) /\ ReadOf(path)[pi - 1].next = << >> /\ \A j \in pi..to : path[j] # "/"
      BY <1>2, <1>4, <1>5
    <3>. QED
      BY <2>1, <3>1, <3>2, CopiedIs, Zenon
  <2>3. PICK q \in Part : q = ReadOf(path)[to] /\ Proper(q)
    <3>1. pi - 1 <= to /\ to <= Len(path) /\ to \in Int
      BY <1>3
    <3>. QED
      BY <1>0, <3>1, ComponentFacts
  <2>4. q.left = r.left /\ q.next = c /\ q.beyond = r.beyond
    BY <2>2, <2>3
  <2>5. buf = Root \o Slashed(q.left)
    BY <1>4, <2>4
  <2>6. /\ Ended(q).beyond = q.beyond
        /\ buf \o Append(c, "/") = Root \o Slashed(Ended(q).left)
        /\ buf \o c = Root \o Joined(Ended(q).left)
    BY <2>1, <2>3, <2>4, <2>5, ComponentMore
  <2>. HIDE DEF r
  <2>. QED
    BY <1>4, <2>1, <2>3, <2>4, <2>6
<1>. HIDE DEF r
<1>6. CASE \E k \in pi..Len(path) :
             CopyEnd(k) /\ buf' = buf \o SubSeq(path, pi, k) /\ pi' = k + 1 /\ UNCHANGED pc
  <2>1. PICK k \in pi..m : /\ CopyEnd(k) /\ buf' = buf \o SubSeq(path, pi, k) /\ pi' = k + 1 /\ pc' = pc
    BY <1>3, <1>6
  <2>2. k \in 1..m /\ path[k] = "/" /\ \A j \in pi..(k - 1) : path[j] # "/"
    BY <1>3, <2>1 DEF CopyEnd
  <2>3. k # pi
    BY <1>0, <1>2, <1>3, <2>2
  <2>4. k - 1 \in pi..m /\ (k - 1) + 1 = k /\ k \in Int
    BY <1>3, <2>2, <2>3
  <2>5. At((k - 1) + 1) = "/"
    BY <1>2, <1>3, <2>2, <2>4
  <2>6. PICK q \in Part, c \in Seq(Char) :
               /\ q = ReadOf(path)[k - 1] /\ Proper(q) /\ c = SubSeq(path, pi, k - 1)
               /\ ~Ended(q).beyond /\ buf \o Append(c, "/") = Root \o Slashed(Ended(q).left)
    BY <1>5, <2>2, <2>4, <2>5
  <2>7. ReadOf(path)[k] = Ended(q)
    <3>1. pi <= k /\ k <= Len(path)
      BY <1>3, <2>2
    <3>2. ReadOf(path)[k] = More(q, "/")
      BY <1>0, <2>2, <2>4, <2>6, <3>1, ComponentFacts
    <3>. QED
      BY <3>2 DEF More
  <2>8. Ended(q).next = << >>
    BY <2>6, EndedIs
  <2>9. SubSeq(path, pi, k) = Append(c, "/")
    <3>1. pi \in Nat /\ k \in Nat /\ 1 <= pi /\ pi <= k /\ k <= Len(path)
      BY <1>3, <2>2
    <3>2. Append(SubSeq(path, pi, k - 1), path[k]) = SubSeq(path, pi, k)
      BY <1>2, <3>1, SubSeqMore
    <3>. QED
      BY <2>2, <2>6, <3>2
  <2>10. pi' - 1 = k
    BY <2>1, <2>4
  <2>11. ComponentInv'
    BY <1>0, <1>1, <2>1, <2>6, <2>7, <2>8, <2>9, <2>10 DEF ComponentInv
  <2>. QED
    BY <1>0, <2>1, <2>11 DEF NormalInv, TrimInv, IsNormal
<1>7. CASE /\ \A k \in pi..Len(path) : path[k] # "/"
           /\ buf' = buf \o SubSeq(path, pi, Len(path)) /\ pc' = "done"
  <2>1. CASE pi = m + 1
    <3>1. SubSeq(path, pi, Len(path)) = << >>
      BY <1>2, <1>3, <2>1
    <3>2. buf' = buf
      BY <1>2, <1>7, <3>1, ConcatEmptySeq
    <3>3. PICK q \in Part : q = ReadOf(path)[Len(path)] /\ Proper(q) /\ q.next = << >> /\ ~q.beyond
                         /\ buf = Root \o Slashed(q.left)
      <4>1. pi - 1 = Len(path)
        BY <1>3, <2>1
      <4>. QED
        BY <1>4, <4>1 DEF r
    <3>4. Ended(q) = q
      BY <3>3, EndedIs
    <3>5. IsNormal'
      BY <1>0, <1>1, <1>7, <3>2, <3>3, <3>4 DEF IsNormal
    <3>. QED
      BY <1>7, <3>5 DEF NormalInv, ComponentInv, TrimInv
  <2>2. CASE pi # m + 1
    <3>1. m \in pi..m
      BY <1>3, <2>2
    <3>2. PICK q \in Part, c \in Seq(Char) :
               /\ q = ReadOf(path)[m] /\ q.next = c /\ c = SubSeq(path, pi, m) /\ c # << >>
               /\ ~Ended(q).beyond /\ buf \o c = Root \o Joined(Ended(q).left)
      BY <1>3, <1>5, <1>7, <3>1
    <3>3. IsNormal'
      BY <1>0, <1>1, <1>3, <1>7, <3>2 DEF IsNormal
    <3>. QED
      BY <1>7, <3>3 DEF NormalInv, ComponentInv, TrimInv
  <2>. QED
    BY <2>1, <2>2
<1>. QED
  BY <1>6, <1>7 DEF Copy

\* The '/' at the end of buf goes, unless it is the root.
LEMMA TrimNormal ==
  ASSUME IInv, TrimInv, Trim
  PROVE  NormalInv'
<1>0. TypeOK /\ pc = "trim" /\ pc' = "done" /\ path' = path
  BY DEF IInv, Trim
<1>1. Root' = Root
  BY <1>0 DEF Root, At
<1>2. path \in Seq(Char) /\ Len(path) \in 0..Len(path) /\ buf \in Seq(Char)
  <2>1. Len(path) \in Nat
    BY <1>0, PathFacts
  <2>. QED
    BY <1>0, <2>1, PathFacts
<1>3. PICK q \in Part : /\ q = ReadOf(path)[Len(path)] /\ Proper(q) /\ q.next # << >>
                      /\ ~Ended(q).beyond /\ buf = Root \o Slashed(Ended(q).left)
  <2>1. ReadOf(path)[Len(path)] \in Part /\ Proper(ReadOf(path)[Len(path)])
    BY <1>2, ReadType
  <2>. QED
    BY <1>0, <2>1 DEF TrimInv
<1>4. PICK cs \in Seq(Seq(Char)) : /\ cs = Ended(q).left
                                 /\ \A i \in 1..Len(cs) : Len(cs[i]) > 0
  <2>1. Ended(q) \in Part /\ Proper(Ended(q))
    BY <1>3, EndedIs
  <2>. QED
    BY <2>1 DEF Part, Proper
<1>5. buf' = Root \o Joined(cs)
  <2>1. CASE cs = << >>
    <3>1. buf = Root /\ Root \o Joined(cs) = Root
      BY <1>3, <1>4, <2>1, TextIs
    <3>2. buf' = buf
      <4>1. Len(buf) < 2 /\ Len(buf) \in Nat
        BY <1>2, <3>1, RootIs
      <4>2. ~(Len(buf) > 1)
        BY <4>1
      <4>. QED
        BY <4>2 DEF Trim
    <3>. QED
      BY <3>1, <3>2
  <2>2. CASE cs # << >>
    <3>1. PICK c \in Seq(Char) : c = cs[Len(cs)] /\ Len(c) > 0
      <4>1. Len(cs) \in 1..Len(cs)
        BY <2>2, Len(cs) \in Nat, Len(cs) # 0
      <4>. QED
        BY <1>4, <4>1
    <3>2. PICK p \in Seq(Char) : p = Root \o Slashed(Front(cs))
      BY <2>2, TextIs
    <3>3. buf = Append(p \o c, "/") /\ Root \o Joined(cs) = p \o c
      BY <1>3, <1>4, <2>2, <3>1, <3>2, TextIs
    <3>4. PICK t \in Seq(Char) : t = p \o c /\ Len(t) = Len(p) + Len(c)
      <4>1. p \o c \in Seq(Char) /\ Len(p \o c) = Len(p) + Len(c)
        BY ConcatIs
      <4>. QED
        BY <4>1
    <3>5. buf = Append(t, "/") /\ Len(buf) = Len(t) + 1 /\ Front(Append(t, "/")) = t
      <4>1. "/" \in Char
        BY DEF Char
      <4>2. Len(Append(t, "/")) = Len(t) + 1
        BY <4>1, AppendIs
      <4>3. Front(Append(t, "/")) = t
        BY <4>1, FrontConcat
      <4>. QED
        BY <3>3, <3>4, <4>2, <4>3
    <3>6. Len(buf) > 1
      <4>1. Len(p) \in Nat /\ Len(c) \in Nat
        OBVIOUS
      <4>. QED
        BY <3>1, <3>4, <3>5, <4>1
    <3>7. buf' = SubSeq(buf, 1, Len(buf) - 1)
      BY <3>6 DEF Trim
    <3>8. Front(buf) = SubSeq(buf, 1, Len(buf) - 1)
      BY DEF Front
    <3>. QED
      BY <3>3, <3>4, <3>5, <3>7, <3>8
  <2>. QED
    BY <2>1, <2>2
<1>6. IsNormal'
  BY <1>0, <1>1, <1>3, <1>4, <1>5 DEF IsNormal
<1>. QED
  BY <1>0, <1>6 DEF NormalInv, ComponentInv, TrimInv

\* The result is the path without what "." and ".." take away, as the tests of
\* normalizePath() have it: the components that are left, absolute if the path
\* is, with a '/' at the end only if the path has one; and the error exactly when
\* a ".." has nothing to remove.
THEOREM ResultIsNormal == Spec => []IsNormal
<1>1. Init => NormalInv
  BY DEF Init, NormalInv, ComponentInv, TrimInv, IsNormal
<1>2. IInv /\ NormalInv /\ [Next]_vars => NormalInv'
  <2>. SUFFICES ASSUME IInv, NormalInv, [Next]_vars PROVE NormalInv'
    OBVIOUS
  <2>1. ComponentInv /\ TrimInv
    BY DEF NormalInv
  <2>2. ASSUME UNCHANGED vars PROVE NormalInv'
    BY <2>2 DEF NormalInv, ComponentInv, TrimInv, IsNormal, Root, At, vars
  <2>. QED
    BY <2>1, <2>2, AbsoluteNormal, SkipNormal, DotNormal, DotDotNormal, CopyNormal, TrimNormal
       DEF Next, Terminated
<1>3. NormalInv => IsNormal
  BY DEF NormalInv
<1>. QED
  BY <1>1, <1>2, <1>3, Invariance, PTL DEF Spec
-----------------------------------------------------------------------------
(* Arithmetic: the provers are weak on products of variables.              *)

LEMMA DivMod ==
  ASSUME NEW a \in Nat, NEW b \in Nat \ {0}
  PROVE  /\ a \div b \in Nat /\ a % b \in 0..(b - 1)
         /\ a = b * (a \div b) + (a % b)
OBVIOUS

\* Rounding up gives enough groups, and no more groups than tasks.
LEMMA CeilDiv ==
  ASSUME NEW a \in Nat \ {0}, NEW b \in Nat \ {0}
  PROVE  LET n == (a + b - 1) \div b IN n \in Nat \ {0} /\ a <= n * b /\ n <= a
<1> DEFINE n == (a + b - 1) \div b
           r == (a + b - 1) % b
<1>1. n \in Nat /\ r \in 0..(b - 1) /\ a + b - 1 = b * n + r
  BY DivMod, a + b - 1 \in Nat
<1> HIDE DEF n, r
<1>2. b * n = n * b /\ b * n \in Nat
  BY <1>1
<1>3. a <= n * b
  BY <1>1, <1>2
<1>4. n # 0
  BY <1>1, <1>3
<1>5. n <= a
  <2> SUFFICES ASSUME n > a PROVE FALSE
    BY <1>1
  <2>1. b * n >= b * (a + 1)
    BY <1>1
  <2>2. b * (a + 1) = b * a + b /\ b * a >= a
    <3>1. b * (a + 1) = b * a + b
      OBVIOUS
    <3>2. b * a = (b - 1) * a + a /\ (b - 1) * a >= 0
      OBVIOUS
    <3> QED BY <3>1, <3>2
  <2> QED BY <1>1, <2>1, <2>2
<1> QED BY <1>1, <1>3, <1>4, <1>5 DEF n

LEMMA GroupCountPositive ==
  ASSUME GroupTypeOK, argument # 0, numTasks > 0
  PROVE  GroupCount(numTasks, argument) \in Nat \ {0}
<1>1. CASE argument > 0
  BY <1>1, CeilDiv DEF GroupTypeOK, GroupCount
<1>2. CASE argument < 0
  <2>1. -argument \in Nat \ {0} /\ numThreads \in Nat \ {0}
    BY <1>2 DEF GroupTypeOK
  <2>2. \A x, y \in Nat \ {0} : x * y \in Nat \ {0}
    OBVIOUS
  <2> QED BY <1>2, <2>1, <2>2 DEF GroupCount, GroupTypeOK
<1> QED BY <1>1, <1>2 DEF GroupTypeOK

-----------------------------------------------------------------------------
(* The inductive invariant.                                                *)

Chained ==
  /\ Len(result) = made
  /\ made = 0 => begin = 0
  /\ made > 0 => result[1].begin = 0 /\ result[made].end = begin
  /\ \A k \in 1..(made - 1) : result[k + 1].begin = result[k].end

\* Every group made so far has the common size, or one more if there is a
\* remainder to spread.
Sizes ==
  \A k \in 1..made :
    \/ SizeOf(k) = numTasksPerGroup
    \/ SizeOf(k) = numTasksPerGroup + 1 /\ numTasks % numGroups > 0

SplitInv ==
  stage \in {"loop", "done"} /\ numTasks > 0 =>
    /\ numGroups \in Nat \ {0} /\ argument # 0
    /\ numGroups = GroupCount(numTasks, argument)
    /\ numTasksPerGroup = numTasks \div numGroups

GroupsInv ==
  /\ GroupTypeOK
  /\ stage = "start" => numTasksPerGroup = argument
  /\ stage \in {"start", "zero"} => made = 0 /\ begin = 0 /\ result = << >>
  /\ stage = "loop" => numTasks > 0
  /\ stage = "done" => IF numTasks = 0 THEN made = 0 /\ result = << >> ELSE made > 0 /\ begin = numTasks
  /\ SplitInv
  /\ LoopInv
  /\ stage \in {"loop", "done"} => Chained /\ Sizes
  /\ NeverOverruns

LEMMA GroupsInvInit ==
  ASSUME GroupInit
  PROVE  GroupsInv
BY EmptySeq, InputsAssumption DEF InputsAssumption, GroupInit, GroupsInv, GroupTypeOK, SplitInv, LoopInv, NeverOverruns

LEMMA SplitStep ==
  ASSUME GroupsInv, Split
  PROVE  GroupsInv'
<1> USE DEF GroupsInv, Split, inputs
<1> DEFINE n == GroupCount(numTasks, argument)
<1>1. n \in Nat \ {0} /\ numTasks \in Nat \ {0} /\ numTasksPerGroup = argument
  BY GroupCountPositive DEF GroupTypeOK
<1>2. numGroups' = n /\ numTasksPerGroup' = numTasks \div n /\ remainder' = numTasks % n
  BY <1>1
<1>c. GroupCount(numTasks, argument)' = n
  BY DEF GroupCount
<1> HIDE DEF n
<1>3. /\ numTasks \div n \in Nat /\ numTasks % n \in 0..(n - 1)
      /\ numTasks = n * (numTasks \div n) + (numTasks % n)
  BY <1>1, DivMod
<1>4. GroupTypeOK'
  BY <1>1, <1>2, <1>3 DEF GroupTypeOK
<1>5. SplitInv'
  BY <1>1, <1>2, <1>c DEF SplitInv
<1>6. LoopInv'
  <2>1. made' = 0 /\ begin' = 0 /\ numGroups' - made' = n
    BY <1>1, <1>2
  <2> QED BY <1>1, <1>2, <1>3, <2>1 DEF LoopInv
<1>7. Chained' /\ Sizes'
  BY EmptySeq DEF Chained, Sizes
<1> QED BY <1>1, <1>4, <1>5, <1>6, <1>7 DEF NeverOverruns

LEMMA MakeGroupStep ==
  ASSUME GroupsInv, MakeGroup
  PROVE  GroupsInv'
<1> USE DEF GroupsInv, MakeGroup, inputs, split
<1> DEFINE p == numTasksPerGroup
           left == numGroups - made
           extra == IF remainder > 0 THEN 1 ELSE 0
           spread == IF remainder > 0 THEN remainder ELSE 0
           spread1 == IF remainder - 1 > 0 THEN remainder - 1 ELSE 0
<1>1. /\ p \in Nat /\ numGroups \in Nat \ {0} /\ made \in Nat /\ made < numGroups
      /\ begin \in Nat /\ numTasks \in Nat \ {0} /\ remainder \in Int
      /\ numTasks - begin = left * p + spread
  BY DEF LoopInv, GroupTypeOK
<1>2. left \in Nat \ {0} /\ spread \in Nat /\ spread1 \in Nat /\ extra \in {0, 1}
      /\ spread = spread1 + extra /\ EndOfGroup = begin + p + extra
  BY <1>1 DEF EndOfGroup
<1> HIDE DEF p, left, extra, spread, spread1
<1>3. left * p = (left - 1) * p + p /\ (left - 1) * p \in Nat
  BY <1>1, <1>2
<1>4. numTasks - EndOfGroup = (left - 1) * p + spread1
  BY <1>1, <1>2, <1>3
<1>5. EndOfGroup \in Nat /\ EndOfGroup <= numTasks /\ begin <= EndOfGroup
  BY <1>1, <1>2, <1>3, <1>4
<1>6. /\ result' = Append(result, [begin |-> begin, end |-> EndOfGroup])
      /\ begin' = EndOfGroup /\ made' = made + 1 /\ stage' = "loop" /\ remainder' = remainder - 1
  BY <1>1, <1>5
<1>7. GroupTypeOK'
  BY <1>1, <1>5, <1>6 DEF GroupTypeOK, TaskRange
<1>8. SplitInv'
  BY <1>6 DEF SplitInv, GroupCount
<1>9. LoopInv'
  <2>1. numGroups' - made' = left - 1 /\ numTasks' - begin' = (left - 1) * p + spread1
    BY <1>1, <1>4, <1>6 DEF left
  <2>2. spread1 = IF remainder' > 0 THEN remainder' ELSE 0
    BY <1>6 DEF spread1
  <2>3. made' <= numGroups' /\ remainder' = (numTasks' % numGroups') - made'
    <3>1. remainder = (numTasks % numGroups) - made /\ numTasks % numGroups \in Int
      BY <1>1, DivMod DEF LoopInv
    <3> QED BY <1>1, <1>6, <3>1
  <2> QED BY <1>1, <1>6, <2>1, <2>2, <2>3 DEF LoopInv, p
<1>10. /\ Len(result') = made + 1 /\ \A k \in 1..made : result'[k] = result[k]
       /\ result'[made + 1] = [begin |-> begin, end |-> EndOfGroup]
  <2>1. result \in Seq(TaskRange) /\ Len(result) = made
    BY DEF GroupTypeOK, Chained
  <2>2. [begin |-> begin, end |-> EndOfGroup] \in TaskRange
    BY <1>1, <1>5 DEF TaskRange
  <2> QED BY <1>6, <2>1, <2>2, AppendProperties
<1>11. Chained'
  <2>1. \A k \in 1..made : result'[k + 1].begin = result'[k].end
    <3> SUFFICES ASSUME NEW k \in 1..made PROVE result'[k + 1].begin = result'[k].end
      OBVIOUS
    <3>1. CASE k = made
      BY <1>1, <1>10, <3>1 DEF Chained
    <3>2. CASE k < made
      <4>1. k + 1 \in 1..made /\ k \in 1..(made - 1)
        BY <1>1, <3>2
      <4> QED BY <1>10, <4>1 DEF Chained
    <3> QED BY <1>1, <3>1, <3>2
  <2>2. result'[1].begin = 0 /\ result'[made + 1].end = EndOfGroup
    <3>1. CASE made = 0
      BY <1>10, <3>1 DEF Chained
    <3>2. CASE made > 0
      BY <1>1, <1>10, <3>2 DEF Chained
    <3> QED BY <1>1, <3>1, <3>2
  <2> QED BY <1>1, <1>6, <1>10, <2>1, <2>2 DEF Chained
<1>12. Sizes'
  <2>1. extra = 1 => numTasks % numGroups > 0
    BY <1>1, DivMod DEF LoopInv, extra
  <2>2. result'[made + 1].end - result'[made + 1].begin = p + extra
    BY <1>1, <1>2, <1>5, <1>10
  <2>3. \A k \in 1..made : SizeOf(k)' = SizeOf(k)
    BY <1>10 DEF SizeOf
  <2>4. 1..made' = (1..made) \cup {made + 1} /\ UNCHANGED <<numTasksPerGroup, numTasks, numGroups>>
    BY <1>1, <1>6
  <2> SUFFICES ASSUME NEW k \in 1..made'
               PROVE  \/ SizeOf(k)' = p
                      \/ SizeOf(k)' = p + 1 /\ numTasks % numGroups > 0
    BY <2>4 DEF Sizes, p
  <2>5. CASE k \in 1..made
    BY <2>3, <2>5 DEF Sizes, p
  <2>6. CASE k = made + 1
    <3>1. SizeOf(k)' = p + extra
      BY <2>2, <2>6 DEF SizeOf
    <3> QED BY <1>1, <1>2, <2>1, <3>1
  <2> QED BY <2>4, <2>5, <2>6
<1> QED BY <1>1, <1>6, <1>7, <1>8, <1>9, <1>11, <1>12 DEF NeverOverruns

LEMMA ReturnStep ==
  ASSUME GroupsInv, Return
  PROVE  GroupsInv'
<1> USE DEF GroupsInv, Return, inputs, split
<1>1. begin = numTasks /\ made > 0 /\ numTasks > 0
  <2>1. /\ numGroups \in Nat \ {0} /\ made = numGroups /\ numTasksPerGroup \in Nat
        /\ numTasks \in Nat \ {0} /\ begin \in Nat
        /\ remainder = (numTasks % numGroups) - made
        /\ numTasks - begin = (numGroups - made) * numTasksPerGroup + (IF remainder > 0 THEN remainder ELSE 0)
    BY DEF LoopInv, GroupTypeOK
  <2>2. remainder <= 0 /\ remainder \in Int
    BY <2>1, DivMod
  <2>3. (numGroups - made) * numTasksPerGroup = 0
    BY <2>1
  <2> QED BY <2>1, <2>2, <2>3
<1>2. GroupTypeOK' /\ SplitInv' /\ Chained' /\ Sizes'
  BY DEF GroupTypeOK, SplitInv, GroupCount, Chained, Sizes, SizeOf
<1> QED BY <1>1, <1>2 DEF NeverOverruns, LoopInv, GroupTypeOK

LEMMA TrivialStep ==
  ASSUME GroupsInv, Trivial
  PROVE  GroupsInv'
<1> USE DEF GroupsInv, Trivial, inputs, split
<1>1. GroupTypeOK' /\ SplitInv' /\ LoopInv'
  BY DEF GroupTypeOK, SplitInv, LoopInv
<1>2. Chained' /\ Sizes'
  BY EmptySeq DEF Chained, Sizes
<1> QED BY <1>1, <1>2 DEF NeverOverruns, GroupTypeOK

LEMMA GroupsInvStep == GroupsInv /\ [GroupNext]_groupVars => GroupsInv'
<1> SUFFICES ASSUME GroupsInv, [GroupNext]_groupVars PROVE GroupsInv'
  OBVIOUS
<1>1. CASE UNCHANGED groupVars
  BY <1>1 DEF groupVars, inputs, split, GroupsInv, GroupTypeOK, SplitInv, GroupCount, LoopInv, Chained, Sizes,
     SizeOf, NeverOverruns
<1> QED BY <1>1, TrivialStep, SplitStep, MakeGroupStep, ReturnStep DEF GroupNext, GroupsDone

\* What the loop of groupTasks() keeps, for every number of tasks, argument and
\* number of threads.
THEOREM GroupsInvariance == GroupSpec => []GroupsInv
<1>1. GroupInit => GroupsInv
  BY GroupsInvInit
<1> QED
  BY <1>1, GroupsInvStep, PTL DEF GroupSpec

\* The exception "groupTasks(): end > numTasks" is dead code for every input.
THEOREM OverrunIsDeadCode == GroupSpec => []NeverOverruns
<1>1. GroupsInv => NeverOverruns
  BY DEF GroupsInv
<1> QED BY <1>1, GroupsInvariance, PTL

\* The groups partition the tasks, in order.
THEOREM GroupsPartitionTasks == GroupSpec => []Partition
<1>1. GroupsInv => Partition
  <2> SUFFICES ASSUME GroupsInv, stage = "done", numTasks # 0, result # << >> PROVE
        /\ result[1].begin = 0 /\ result[Len(result)].end = numTasks
        /\ \A k \in 1..Len(result) : result[k].begin <= result[k].end
        /\ \A k \in 1..Len(result) - 1 : result[k + 1].begin = result[k].end
    BY EmptySeq DEF Partition, GroupsInv, Chained
  <2>1. numTasks \in Nat \ {0} /\ numGroups \in Nat \ {0} /\ numTasksPerGroup \in Nat
    BY DivMod DEF GroupsInv, GroupTypeOK, SplitInv
  <2>2. ASSUME NEW k \in 1..made PROVE result[k].begin <= result[k].end
    <3>1. result[k] \in TaskRange /\ SizeOf(k) >= 0
      BY <2>1, <2>2 DEF GroupsInv, GroupTypeOK, Chained, Sizes
    <3> QED BY <3>1 DEF SizeOf, TaskRange
  <2> QED BY <2>2 DEF GroupsInv, Chained, GroupTypeOK
<1> QED BY <1>1, GroupsInvariance, PTL

\* No two groups differ by more than one task.
THEOREM GroupsAreBalanced == GroupSpec => []Balanced
<1>1. GroupsInv => Balanced
  <2> SUFFICES ASSUME GroupsInv, NEW j \in 1..Len(result), NEW k \in 1..Len(result)
               PROVE  SizeOf(j) - SizeOf(k) <= 1
    BY DEF Balanced
  <2>1. stage \in {"loop", "done"} /\ j \in 1..made /\ k \in 1..made /\ numTasksPerGroup \in Int
    BY EmptySeq DEF GroupsInv, GroupTypeOK, Chained, NeverOverruns
  <2> QED BY <2>1 DEF GroupsInv, Sizes
<1> QED BY <1>1, GroupsInvariance, PTL

\* A positive argument bounds every group from above, and none is empty.
THEOREM ArgumentBoundsGroups == GroupSpec => []UpperBound
<1>1. GroupsInv => UpperBound
  <2> SUFFICES ASSUME GroupsInv, argument > 0, NEW k \in 1..Len(result)
               PROVE  SizeOf(k) \in 1..argument
    BY DEF UpperBound
  <2> DEFINE p == numTasksPerGroup
             n == numGroups
             r == numTasks % numGroups
  <2>1. stage \in {"loop", "done"} /\ k \in 1..made /\ numTasks \in Nat \ {0} /\ argument \in Nat \ {0}
    BY EmptySeq DEF GroupsInv, GroupTypeOK, Chained, NeverOverruns
  <2>2. /\ n \in Nat \ {0} /\ numTasks <= n * argument /\ n <= numTasks
    BY <2>1, CeilDiv DEF GroupsInv, SplitInv, GroupCount
  <2>3. p \in Nat /\ r \in 0..(n - 1) /\ numTasks = n * p + r
    <3>1. p = numTasks \div n
      BY <2>1 DEF GroupsInv, SplitInv
    <3> QED BY ONLY <2>1, <2>2, <3>1, DivMod DEF r, n
  <2>4. SizeOf(k) = p \/ (SizeOf(k) = p + 1 /\ r > 0)
    BY <2>1 DEF GroupsInv, Sizes
  <2> HIDE DEF p, n, r
  <2>5. p >= 1
    <3> SUFFICES ASSUME p = 0 PROVE FALSE
      BY <2>3
    <3> QED BY <2>2, <2>3
  <2>6. p <= argument
    <3> SUFFICES ASSUME p >= argument + 1 PROVE FALSE
      BY <2>1, <2>3
    <3>1. n * p >= n * (argument + 1) /\ n * (argument + 1) = n * argument + n
      BY <2>1, <2>2, <2>3
    <3> QED BY <2>1, <2>2, <2>3, <3>1
  <2>7. r > 0 => p < argument
    <3> SUFFICES ASSUME r > 0, p = argument PROVE FALSE
      BY <2>1, <2>3, <2>6
    <3> QED BY <2>1, <2>2, <2>3
  <2> QED BY <2>1, <2>3, <2>4, <2>5, <2>6, <2>7
<1> QED BY <1>1, GroupsInvariance, PTL

-----------------------------------------------------------------------------
(* forkExecStdCapture().                                                   *)

\* What read() takes is there, and less than a buffer only if it is all.
LEMMA ReadBounds ==
  ASSUME ForkTypeOK, NEW s \in Stream
  PROVE  /\ BytesRead(s) \in 0..Available(s)
         /\ BytesRead(s) < BufSize => BytesRead(s) = Available(s)
BY SizeAssumption DEF SizeAssumption, ForkTypeOK, BytesRead, Smaller, Available

\* The streams to read are the captured ones.
LEMMA CapturedStreams ==
  ASSUME ForkTypeOK
  PROVE  /\ Captured \in {<< >>, <<"out">>, <<"err">>, <<"out", "err">>}
         /\ \A s \in capture : \E i \in DOMAIN Captured : Captured[i] = s
<1>1. capture \in {{}, {"out"}, {"err"}, {"out", "err"}}
  BY DEF ForkTypeOK, Stream
<1> QED
  BY <1>1 DEF Captured, Stream

\* Reading one stream leaves the others as they are.
LEMMA ReadKeeps ==
  ASSUME ChildInv, Read
  PROVE  ChildInv'
<1>1. ForkTypeOK /\ ForkInv /\ LastInv /\ Verdict
  BY DEF ChildInv
<1> DEFINE s == Head(todo)
<1>2. /\ parent \in {"get", "last"} /\ parent' = parent
      /\ todo \in {<<"out">>, <<"err">>, <<"out", "err">>}
      /\ capture' = capture /\ requireStatus0' = requireStatus0
      /\ child' = child /\ status' = status /\ written' = written
      /\ got' = [got EXCEPT ![s] = @ + BytesRead(s)]
      /\ todo' = IF BytesRead(s) < BufSize THEN Tail(todo) ELSE todo
  BY <1>1 DEF Read, ForkTypeOK, paramVars, childVars
<1>3. /\ s \in Stream
      /\ \A i \in DOMAIN todo : todo[i] # s => \E j \in DOMAIN Tail(todo) : Tail(todo)[j] = todo[i]
  <2>1. CASE todo = <<"out">> \/ todo = <<"err">>
    BY <2>1 DEF Stream
  <2>2. CASE todo = <<"out", "err">>
    <3>1. Tail(todo) = <<"err">> /\ s = "out"
      BY <2>2
    <3>2. \A i \in DOMAIN todo : todo[i] # s => todo[i] = "err"
      BY <2>2, <3>1
    <3>3. 1 \in DOMAIN <<"err">> /\ <<"err">>[1] = "err"
      OBVIOUS
    <3>4. 1 \in DOMAIN Tail(todo) /\ Tail(todo)[1] = "err"
      BY <3>1, <3>3, Zenon
    <3> QED
      BY <3>1, <3>2, <3>4 DEF Stream
  <2> QED
    BY <1>2, <2>1, <2>2
<1>4. todo' \in {<< >>, <<"out">>, <<"err">>, <<"out", "err">>}
  <2>1. Tail(todo) \in {<< >>, <<"err">>}
    <3>1. CASE todo = <<"out">>
      BY <3>1
    <3>2. CASE todo = <<"err">>
      BY <3>2
    <3>3. CASE todo = <<"out", "err">>
      BY <3>3
    <3> QED
      BY <1>2, <3>1, <3>2, <3>3
  <2> QED
    BY <1>2, <2>1
<1> HIDE DEF s
<1>5. /\ got' \in [Stream -> 0..MaxBytes]
      /\ \A t \in Stream : got'[t] <= written'[t] /\ got[t] <= got'[t]
      /\ BytesRead(s) < BufSize => got'[s] = written'[s]
      /\ \A t \in Stream : t # s => got'[t] = got[t]
  <2>1. BytesRead(s) \in 0..(written[s] - got[s]) /\ (BytesRead(s) < BufSize => BytesRead(s) = written[s] - got[s])
    BY <1>1, <1>3, ReadBounds DEF Available
  <2>2. got \in [Stream -> 0..MaxBytes] /\ written \in [Stream -> 0..MaxBytes] /\ \A t \in Stream : got[t] <= written[t]
    BY <1>1 DEF ForkTypeOK
  <2>3. /\ got' = [t \in Stream |-> IF t = s THEN got[s] + BytesRead(s) ELSE got[t]]
    BY <1>2, <1>3, <2>2
  <2> QED
    BY <1>2, <1>3, <2>1, <2>2, <2>3, SizeAssumption DEF SizeAssumption
<1>6. ForkTypeOK'
  <2>1. got \in [Stream -> 0..MaxBytes] /\ written \in [Stream -> 0..MaxBytes]
    BY <1>1 DEF ForkTypeOK
  <2>2. capture \subseteq Stream /\ \A t \in capture : written[t] - got[t] <= Capacity
    BY <1>1 DEF ForkTypeOK
  <2>3. \A t \in capture' : written'[t] - got'[t] <= Capacity
    BY <1>2, <1>5, <2>1, <2>2, SizeAssumption DEF SizeAssumption
  <2> QED
    BY <1>1, <1>2, <1>4, <1>5, <2>3 DEF ForkTypeOK
<1>7. LastInv'
  <2> SUFFICES ASSUME parent = "last", NEW t \in capture, \A i \in DOMAIN todo' : todo'[i] # t
               PROVE  got'[t] = written'[t]
    BY <1>1, <1>2 DEF LastInv, Drained
  <2>1. t \in Stream
    BY <1>1 DEF ForkTypeOK
  <2>2. CASE t = s
    <3>1. BytesRead(s) < BufSize
      BY <1>2, <2>2 DEF s
    <3> QED
      BY <1>5, <2>2, <3>1
  <2>3. CASE t # s
    <3>1. \A i \in DOMAIN todo : todo[i] # t
      BY <1>2, <1>3, <2>3
    <3>2. Drained(t)
      BY <1>1, <3>1 DEF LastInv
    <3> QED
      BY <1>2, <1>5, <2>1, <2>3, <3>2 DEF Drained
  <2> QED
    BY <2>2, <2>3
<1>8. Verdict' /\ ForkInv'
  BY <1>1, <1>2 DEF Verdict, ForkInv
<1> QED
  BY <1>6, <1>7, <1>8 DEF ChildInv

\* The invariant: nothing is written during the last get(), and what is not to
\* be read again is empty.
LEMMA CaptureInvariance == ForkSpec => []ChildInv
<1>1. ForkInit => ChildInv
  BY SizeAssumption DEF SizeAssumption, ForkInit, ChildInv, ForkTypeOK, LastInv, Verdict, ForkInv, Stream
<1>2. ChildInv /\ [ForkNext]_forkVars => ChildInv'
  <2> SUFFICES ASSUME ChildInv, [ForkNext]_forkVars PROVE ChildInv'
    OBVIOUS
  <2>1. ForkTypeOK /\ ForkInv /\ LastInv /\ Verdict
    BY DEF ChildInv
  <2>2. CASE Fork
    <3>1. /\ parent' \in {"get", "threw"} /\ child' \in {child, "forked"} /\ (parent' = "threw" => child' = child)
          /\ capture' = capture /\ requireStatus0' = requireStatus0
          /\ status' = status /\ written' = written /\ got' = got
          /\ parent = "fork"
      BY <2>2 DEF Fork, paramVars
    <3>2. todo' \in {<< >>, <<"out">>, <<"err">>, <<"out", "err">>}
      BY <2>1, <2>2, CapturedStreams DEF Fork, ForkTypeOK
    <3>3. ForkTypeOK'
      BY <2>1, <3>1, <3>2 DEF ForkTypeOK, Stream
    <3> QED
      BY <2>1, <3>1, <3>3 DEF ChildInv, LastInv, Verdict, ForkInv
  <2>3. CASE Read
    BY <2>3, ReadKeeps
  <2>4. CASE EndGet
    BY <2>1, <2>4
       DEF EndGet, paramVars, childVars, ChildInv, ForkTypeOK, LastInv, Verdict, ForkInv,
           Drained
  <2>5. CASE StillRunning
    BY <2>1, <2>5, CapturedStreams
       DEF StillRunning, paramVars, childVars, ChildInv, ForkTypeOK, LastInv, Verdict,
           ForkInv
  <2>6. CASE Reaped
    BY <2>1, <2>6, CapturedStreams
       DEF Reaped, Refused, Over, paramVars, childVars, ChildInv, ForkTypeOK, LastInv,
           Verdict, ForkInv, Drained
  <2>7. CASE Exec
    BY <2>1, <2>7 DEF Stream, Exec, paramVars, ChildInv, ForkTypeOK, LastInv, Verdict, ForkInv
  <2>8. ASSUME NEW s \in Stream, BeginWrite(s) PROVE ChildInv'
    BY <2>1, <2>8 DEF BeginWrite, paramVars, ChildInv, ForkTypeOK, LastInv, Verdict, ForkInv, Stream
  <2>9. ASSUME NEW s \in Stream, Write(s) PROVE ChildInv'
    <3>1. /\ child = s /\ child' = "running" /\ written' = [written EXCEPT ![s] = @ + 1]
          /\ s \in capture => written[s] - got[s] < Capacity
          /\ parent' = parent /\ todo' = todo /\ capture' = capture /\ requireStatus0' = requireStatus0
          /\ status' = status /\ got' = got
      BY <2>9 DEF Write, Available, paramVars
    <3>2. parent \notin {"fork", "last", "returned", "threw"}
      BY <2>1, <3>1 DEF ForkInv, LastInv, Verdict, ForkInv, Stream
    <3>3. written[s] < MaxBytes /\ got[s] <= written[s]
      BY <2>1, <3>1 DEF ForkTypeOK
    <3>4. written' \in [Stream -> 0..MaxBytes] /\ written'[s] = written[s] + 1 /\ \A t \in Stream : t # s => written'[t] = written[t]
      BY <2>1, <3>1, <3>3, SizeAssumption DEF SizeAssumption, ForkTypeOK
    <3>5. \A t \in Stream : got'[t] <= written'[t]
      BY <2>1, <3>1, <3>4, SizeAssumption DEF SizeAssumption, ForkTypeOK
    <3>6. \A t \in capture' : written'[t] - got'[t] <= Capacity
      BY <2>1, <3>1, <3>4, SizeAssumption DEF SizeAssumption, ForkTypeOK
    <3>7. ForkTypeOK'
      BY <2>1, <3>1, <3>4, <3>5, <3>6 DEF ForkTypeOK, Stream
    <3> QED
      BY <3>1, <3>2, <3>7 DEF ChildInv, LastInv, Verdict, ForkInv
  <2>10. CASE Exit
    BY <2>1, <2>10 DEF Stream, Exit, paramVars, ChildInv, ForkTypeOK, LastInv, Verdict, ForkInv
  <2>11. CASE Kill
    BY <2>1, <2>11 DEF Kill, paramVars, ChildInv, ForkTypeOK, LastInv, Verdict, ForkInv, Stream
  <2>12. CASE UNCHANGED forkVars
    BY <2>1, <2>12
       DEF forkVars, paramVars, childVars, ChildInv, ForkTypeOK, LastInv, Verdict, ForkInv,
           Drained
  <2> QED
    BY <2>2, <2>3, <2>4, <2>5, <2>6, <2>7, <2>8, <2>9, <2>10, <2>11, <2>12
    DEF ForkNext, Caller, Program, ForkEnded
<1> QED
  BY <1>1, <1>2, PTL DEF ForkSpec

\* forkExecStdCapture() returns everything the program wrote to the captured
\* streams, whatever the sizes of the pipes and of get()'s buffer.
THEOREM AllIsCaptured == ForkSpec => []CapturesAll
<1>1. ChildInv => CapturesAll
  <2> SUFFICES ASSUME ChildInv, parent = "returned", NEW s \in capture PROVE got[s] = written[s]
    BY DEF CapturesAll
  <2>1. todo = << >> /\ ((\A i \in DOMAIN todo : todo[i] # s) => Drained(s))
    BY DEF ChildInv, LastInv
  <2> QED
    BY <2>1 DEF Drained
<1> QED
  BY <1>1, CaptureInvariance, PTL

\* It returns only with the status asked for, throws only for a reason, and has
\* waited for its child either way.
THEOREM VerdictIsRight == ForkSpec => []Verdict
<1>1. ChildInv => Verdict
  BY DEF ChildInv
<1> QED
  BY <1>1, CaptureInvariance, PTL
=============================================================================
