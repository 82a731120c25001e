------------------------ MODULE FilesCollectorProofs ------------------------
(***************************************************************************)
(* Proofs about FilesCollector, for any tree of directories, any images    *)
(* and any order of the tasks.                                             *)
(***************************************************************************)
EXTENDS FilesCollector, SequenceTheorems, FiniteSetTheorems, TLAPS

-----------------------------------------------------------------------------
(* Data.                                                                   *)

LEMMA Inserted ==
  ASSUME NEW map, NEW key, NEW value
  PROVE  /\ DOMAIN Insert(map, key, value) = DOMAIN map \cup {key}
         /\ \A x \in DOMAIN map : Insert(map, key, value)[x] = map[x]
         /\ key \notin DOMAIN map => Insert(map, key, value)[key] = value
BY DEF Insert

LEMMA PushPop ==
  ASSUME NEW S, NEW s \in Seq(S)
  PROVE  /\ \A e \in S : /\ <<e>> \o s \in Seq(S) /\ Len(<<e>> \o s) = Len(s) + 1
                         /\ Head(<<e>> \o s) = e /\ (<<e>> \o s)[1] = e
                         /\ \A i \in 1..Len(s) : (<<e>> \o s)[i + 1] = s[i]
         /\ s # << >> => /\ Tail(s) \in Seq(S) /\ Len(Tail(s)) = Len(s) - 1
                         /\ \A i \in 1..Len(Tail(s)) : Tail(s)[i] = s[i + 1]
                         /\ Head(s) = s[1] /\ Head(s) \in S /\ Len(s) \in Nat \ {0}
<1>1. ASSUME NEW e \in S
      PROVE  /\ <<e>> \o s \in Seq(S) /\ Len(<<e>> \o s) = Len(s) + 1
             /\ Head(<<e>> \o s) = e /\ (<<e>> \o s)[1] = e
             /\ \A i \in 1..Len(s) : (<<e>> \o s)[i + 1] = s[i]
  <2>1. PICK one : one = <<e>>
    OBVIOUS
  <2>2. one \in Seq(S) /\ Len(one) = 1 /\ one[1] = e
    BY <2>1
  <2>3. /\ one \o s \in Seq(S) /\ Len(one \o s) = Len(one) + Len(s)
        /\ \A i \in 1..(Len(one) + Len(s)) : (one \o s)[i] = IF i <= Len(one) THEN one[i] ELSE s[i - Len(one)]
    BY <2>2, ConcatProperties
  <2>4. Len(s) \in Nat /\ Len(one \o s) = Len(s) + 1
    BY <2>2, <2>3
  <2>5. (one \o s)[1] = e /\ Head(one \o s) = e
    BY <2>2, <2>3, <2>4
  <2>6. \A i \in 1..Len(s) : (one \o s)[i + 1] = s[i]
    BY <2>2, <2>3, <2>4
  <2>. QED
    BY <2>1, <2>3, <2>4, <2>5, <2>6
<1>2. ASSUME s # << >>
      PROVE  /\ Tail(s) \in Seq(S) /\ Len(Tail(s)) = Len(s) - 1
             /\ \A i \in 1..Len(Tail(s)) : Tail(s)[i] = s[i + 1]
             /\ Head(s) = s[1] /\ Head(s) \in S /\ Len(s) \in Nat \ {0}
  BY <1>2
<1>. QED
  BY <1>1, <1>2

\* Every set of numbers that is not empty has a least element.
LEMMA LeastElement ==
  ASSUME NEW S \in SUBSET Nat, S # {}
  PROVE  \E i \in S : \A j \in S : i <= j
<1>1. PICK i \in S : \A j \in S : ~ (<<j, i>> \in OpToRel(<, Nat))
  BY NatLessThanWellFounded, WFMin, Zenon
<1>2. ASSUME NEW j \in S
      PROVE  i <= j
  <2>1. i \in Nat /\ j \in Nat
    OBVIOUS
  <2>2. <<j, i>> \in Nat \X Nat
    BY <2>1
  <2>3. ~ (j < i)
    BY <1>1, <2>2, Zenon DEF OpToRel
  <2>. QED
    BY <2>1, <2>3
<1>. QED
  BY <1>2

\* g[n] is the first n of seqs, one after the other.
Flattening(seqs, g, n) == \A i \in 1..n : g[i] = IF i = 1 THEN seqs[i] ELSE g[i - 1] \o seqs[i]

\* What FlattenSeq computes.  Its recursive function exists by induction: at a
\* least i where it did not, the one before it could be extended.
LEMMA FlattenedBy ==
  ASSUME NEW S, NEW seqs \in Seq(Seq(S)), Len(seqs) # 0
  PROVE  \E g \in [1..Len(seqs) -> Seq(S)] : Flattening(seqs, g, Len(seqs)) /\ FlattenSeq(seqs) = g[Len(seqs)]
<1>. DEFINE Good(g, n) == \A i \in 1..n : g[i] = IF i = 1 THEN seqs[i] ELSE g[i - 1] \o seqs[i]
            Bad == {n \in 1..Len(seqs) : ~ \E g \in [1..n -> Seq(S)] : Good(g, n)}
<1>1. Len(seqs) \in Nat \ {0} /\ \A i \in 1..Len(seqs) : seqs[i] \in Seq(S)
  OBVIOUS
<1>2. Bad = {}
  <2>. SUFFICES ASSUME Bad # {} PROVE FALSE
    OBVIOUS
  <2>1. PICK n \in Bad : \A j \in Bad : n <= j
    <3>1. Bad \in SUBSET Nat
      BY <1>1
    <3>. HIDE DEF Bad
    <3>. QED
      BY <3>1, LeastElement
  <2>2. n \in 1..Len(seqs) /\ ~ \E g \in [1..n -> Seq(S)] : Good(g, n)
    OBVIOUS
  <2>3. CASE n = 1
    <3>1. [i \in 1..1 |-> seqs[i]] \in [1..1 -> Seq(S)]
      BY <1>1
    <3>2. Good([i \in 1..1 |-> seqs[i]], 1)
      OBVIOUS
    <3>. QED
      BY <2>2, <2>3, <3>1, <3>2
  <2>4. CASE n # 1
    <3>0. n - 1 \in 1..Len(seqs) /\ ~(n <= n - 1)
      BY <1>1, <2>2, <2>4
    <3>1. n - 1 \in 1..Len(seqs) /\ n - 1 \notin Bad
      BY <2>1, <3>0, Zenon
    <3>2. PICK g \in [1..(n - 1) -> Seq(S)] : Good(g, n - 1)
      BY <3>1
    <3>. DEFINE h == [i \in 1..n |-> IF i = n THEN g[n - 1] \o seqs[n] ELSE g[i]]
    <3>3. g[n - 1] \in Seq(S) /\ seqs[n] \in Seq(S)
      BY <1>1, <2>2, <3>1
    <3>4. g[n - 1] \o seqs[n] \in Seq(S)
      BY <3>3, ConcatProperties
    <3>5. h \in [1..n -> Seq(S)]
      BY <1>1, <2>2, <3>4
    <3>6. ASSUME NEW i \in 1..n
          PROVE  h[i] = IF i = 1 THEN seqs[i] ELSE h[i - 1] \o seqs[i]
      <4>1. CASE i = n
        <5>1. n \in 1..n /\ n - 1 \in 1..n /\ n - 1 # n
          BY <1>1, <2>2, <2>4
        <5>2. h[n] = g[n - 1] \o seqs[n] /\ h[n - 1] = g[n - 1]
          BY <5>1
        <5>. QED
          BY <2>4, <4>1, <5>2
      <4>2. CASE i # n
        <5>1. i \in 1..(n - 1) /\ h[i] = g[i]
          BY <1>1, <2>2, <4>2
        <5>2. i # 1 => i - 1 \in 1..n /\ i - 1 # n /\ h[i - 1] = g[i - 1]
          BY <1>1, <2>2, <5>1
        <5>. QED
          BY <3>2, <5>1, <5>2
      <4>. QED
        BY <4>1, <4>2
    <3>7. Good(h, n)
      BY <3>6
    <3>. QED
      BY <2>2, <3>5, <3>7
  <2>. QED
    BY <2>3, <2>4
<1>3. PICK g \in [1..Len(seqs) -> Seq(S)] : Good(g, Len(seqs))
  <2>1. Len(seqs) \in 1..Len(seqs)
    BY <1>1
  <2>2. Len(seqs) \notin Bad
    BY <1>2, Zenon
  <2>. QED
    BY <2>1, <2>2
<1>. DEFINE flatten[i \in 1..Len(seqs)] == IF i = 1 THEN seqs[i] ELSE flatten[i - 1] \o seqs[i]
<1>4. g = [i \in 1..Len(seqs) |-> IF i = 1 THEN seqs[i] ELSE g[i - 1] \o seqs[i]]
  BY <1>3
<1>5. flatten = [i \in 1..Len(seqs) |-> IF i = 1 THEN seqs[i] ELSE flatten[i - 1] \o seqs[i]]
  BY <1>4
<1>6. FlattenSeq(seqs) = flatten[Len(seqs)]
  BY DEF FlattenSeq
<1>. HIDE DEF flatten
<1>. DEFINE Wrong == {i \in 1..Len(seqs) : flatten[i] \notin Seq(S)}
<1>7. Wrong = {}
  <2>. SUFFICES ASSUME Wrong # {} PROVE FALSE
    OBVIOUS
  <2>1. PICK n \in Wrong : \A j \in Wrong : n <= j
    <3>1. Wrong \in SUBSET Nat
      BY <1>1
    <3>. HIDE DEF Wrong
    <3>. QED
      BY <3>1, LeastElement
  <2>2. n # 1
    BY <1>1, <1>5
  <2>3. n - 1 \in 1..Len(seqs) /\ n - 1 \notin Wrong
    BY <1>1, <2>1, <2>2
  <2>4. flatten[n - 1] \in Seq(S) /\ seqs[n] \in Seq(S)
    BY <1>1, <2>3
  <2>5. flatten[n] = flatten[n - 1] \o seqs[n]
    BY <1>5, <2>2
  <2>6. flatten[n - 1] \o seqs[n] \in Seq(S)
    BY <2>4, ConcatProperties
  <2>. QED
    BY <2>5, <2>6
<1>8. flatten \in [1..Len(seqs) -> Seq(S)]
  BY <1>5, <1>7
<1>9. Flattening(seqs, flatten, Len(seqs))
  BY <1>5 DEF Flattening
<1>. QED
  BY <1>6, <1>8, <1>9

LEMMA FlattenedNone == ASSUME NEW seqs, Len(seqs) = 0 PROVE FlattenSeq(seqs) = seqs
BY DEF FlattenSeq

LEMMA Flattened ==
  ASSUME NEW S, NEW seqs \in Seq(Seq(S))
  PROVE  FlattenSeq(seqs) \in Seq(S)
<1>1. CASE Len(seqs) = 0
  <2>1. seqs = << >>
    BY <1>1
  <2>2. FlattenSeq(seqs) = seqs
    BY <1>1, FlattenedNone, Zenon
  <2>3. << >> \in Seq(S)
    OBVIOUS
  <2>. QED
    BY <2>1, <2>2, <2>3, Zenon
<1>2. CASE Len(seqs) # 0
  <2>1. PICK g \in [1..Len(seqs) -> Seq(S)] : FlattenSeq(seqs) = g[Len(seqs)]
    BY <1>2, FlattenedBy
  <2>2. Len(seqs) \in 1..Len(seqs)
    BY <1>2
  <2>. QED
    BY <2>1, <2>2
<1>. QED
  BY <1>1, <1>2

\* The configuration's search paths of a file, whatever its rules say of them.
LEMMA ConfigPathsIn ==
  ASSUME NEW S, NEW f \in File, rules \in SetToSeqs(PrefixRules),
         PackageRules[f] \in Seq(S), \A r \in PrefixRules : r.paths \in Seq(S)
  PROVE  ConfigPaths(f) \in Seq(S)
<1>. DEFINE applied == [i \in DOMAIN rules |-> IF Applies(rules[i].prefix, f) THEN rules[i].paths ELSE << >>]
<1>1. Cardinality(PrefixRules) \in Nat
  BY TreeAssumption, FS_CardinalityType
<1>2. DOMAIN rules = 1..Cardinality(PrefixRules) /\ \A i \in DOMAIN rules : rules[i] \in PrefixRules
  BY DEF SetToSeqs
<1>3. << >> \in Seq(S)
  OBVIOUS
<1>4. \A i \in DOMAIN rules : applied[i] \in Seq(S)
  BY <1>2, <1>3
<1>5. applied \in Seq(Seq(S))
  <2>1. PICK n \in Nat : n = Cardinality(PrefixRules)
    BY <1>1
  <2>2. applied \in [1..n -> Seq(S)]
    BY <1>2, <1>4, <2>1
  <2>. HIDE DEF applied
  <2>. QED
    BY <2>2
<1>6. FlattenSeq(applied) \in Seq(S)
  BY <1>5, Flattened
<1>. QED
  BY <1>6, ConcatProperties DEF ConfigPaths

-----------------------------------------------------------------------------
(* Types.                                                                  *)

Frames == Seq([dir : Dir, todo : SUBSET (Dir \cup Path)])

\* What the helpers do to the variables of the walk and of the files.
LEMMA WithoutType ==
  ASSUME NEW c, stack \in Frames, stack # << >>
  PROVE  /\ Without(c) \in Frames /\ Len(Without(c)) = Len(stack) /\ Without(c) # << >>
         /\ Without(c)[1].dir = stack[1].dir /\ Without(c)[1].todo = stack[1].todo \ {c}
         /\ \A i \in 1..Len(stack) : i # 1 => Without(c)[i] = stack[i]
<1>. DEFINE F == [dir : Dir, todo : SUBSET (Dir \cup Path)]
            top == [Head(stack) EXCEPT !.todo = @ \ {c}]
<1>1. /\ Tail(stack) \in Seq(F) /\ Len(Tail(stack)) = Len(stack) - 1
      /\ \A i \in 1..Len(Tail(stack)) : Tail(stack)[i] = stack[i + 1]
      /\ Head(stack) = stack[1] /\ Head(stack) \in F /\ Len(stack) \in Nat \ {0}
  BY PushPop DEF Frames
<1>2. top \in F /\ top.dir = stack[1].dir /\ top.todo = stack[1].todo \ {c}
  BY <1>1
<1>. HIDE DEF top, F
<1>3. PICK rest \in Seq(F) : rest = Tail(stack)
  BY <1>1
<1>4. /\ <<top>> \o rest \in Seq(F) /\ Len(<<top>> \o rest) = Len(rest) + 1
      /\ (<<top>> \o rest)[1] = top
      /\ \A i \in 1..Len(rest) : (<<top>> \o rest)[i + 1] = rest[i]
  BY <1>2, PushPop
<1>5. Without(c) = <<top>> \o rest
  BY <1>3 DEF Without, top
<1>6. Len(rest) = Len(stack) - 1 /\ Len(rest) + 1 = Len(stack)
  BY <1>1, <1>3
<1>7. ASSUME NEW i \in 1..Len(stack), i # 1
      PROVE  (<<top>> \o rest)[i] = stack[i]
  <2>1. i - 1 \in 1..Len(rest) /\ (i - 1) + 1 = i
    BY <1>1, <1>6, <1>7
  <2>. QED
    BY <1>1, <1>3, <1>4, <2>1
<1>8. Without(c) \in Frames
  BY <1>4, <1>5 DEF Frames, F
<1>9. Len(Without(c)) = Len(stack) /\ Without(c)[1] = top
  BY <1>4, <1>5, <1>6
<1>10. Without(c) # << >>
  BY <1>1, <1>9
<1>. QED
  BY <1>2, <1>5, <1>7, <1>8, <1>9, <1>10

LEMMA FrameType ==
  ASSUME NEW d \in Dir, NEW rest \in Frames
  PROVE  /\ <<Frame(d)>> \o rest \in Frames /\ Len(<<Frame(d)>> \o rest) = Len(rest) + 1
         /\ (<<Frame(d)>> \o rest)[1] = [dir |-> d, todo |-> Children[d]]
         /\ Head(<<Frame(d)>> \o rest) = [dir |-> d, todo |-> Children[d]]
         /\ \A i \in 1..Len(rest) : (<<Frame(d)>> \o rest)[i + 1] = rest[i]
<1>. DEFINE F == [dir : Dir, todo : SUBSET (Dir \cup Path)]
<1>1. Frame(d) = [dir |-> d, todo |-> Children[d]] /\ Frame(d) \in F
  BY TreeAssumption DEF Frame
<1>. HIDE DEF F
<1>2. rest \in Seq(F)
  BY DEF Frames, F
<1>3. /\ <<Frame(d)>> \o rest \in Seq(F) /\ Len(<<Frame(d)>> \o rest) = Len(rest) + 1
      /\ Head(<<Frame(d)>> \o rest) = Frame(d) /\ (<<Frame(d)>> \o rest)[1] = Frame(d)
      /\ \A i \in 1..Len(rest) : (<<Frame(d)>> \o rest)[i + 1] = rest[i]
  BY <1>1, <1>2, PushPop
<1>. QED
  BY <1>1, <1>3 DEF Frames, F

LEMMA EnterType ==
  ASSUME NEW d \in Dir, NEW inode, NEW rest \in Frames, Enter(d, inode, rest)
  PROVE  stack' \in Frames
BY FrameType DEF Enter

\* Files are only added, and only those of File.
LEMMA AddFileEffect ==
  ASSUME TypeInv, NEW f \in File, AddFile(f)
  PROVE  /\ DOMAIN files' = DOMAIN files \cup {f} /\ DOMAIN files' \subseteq File
         /\ \A g \in DOMAIN files : files'[g] = files[g]
         /\ iteration' = iteration \cup (IF f \in DOMAIN files THEN {} ELSE {f})
         /\ f \notin DOMAIN files => ~files'[f].isInspected
         /\ f \in DOMAIN WithFile(f) \/ f \in DOMAIN files
         /\ DOMAIN all \subseteq DOMAIN WithFile(f) /\ DOMAIN WithFile(f) \subseteq DOMAIN all \cup {f}
         /\ \A p \in DOMAIN WithFile(f) : WithFile(f)[p] = LdReal(p)
         /\ \A p \in DOMAIN WithFile(f) : WithFile(f)[p] \in DOMAIN files'
<1>1. /\ DOMAIN files \subseteq File /\ \A p \in DOMAIN all : all[p] = LdReal(p) /\ all[p] \in DOMAIN files
  BY DEF TypeInv, TypeOK, Range
<1>2. LdReal(f) = f
  BY TreeAssumption DEF LdReal
<1>3. CASE f \in DOMAIN files
  BY <1>1, <1>3 DEF AddFile, WithFile
<1>4. CASE f \notin DOMAIN files
  <2>1. PICK junk \in BOOLEAN : files' = Insert(files, f, Fresh(junk))
    BY <1>4 DEF AddFile
  <2>2. /\ DOMAIN files' = DOMAIN files \cup {f} /\ files'[f] = Fresh(junk)
        /\ \A g \in DOMAIN files : files'[g] = files[g]
    BY <1>4, <2>1, Inserted
  <2>3. ~Fresh(junk).isInspected
    BY DEF Fresh
  <2>4. /\ DOMAIN WithFile(f) = DOMAIN all \cup {f}
        /\ \A p \in DOMAIN all : WithFile(f)[p] = all[p]
        /\ f \notin DOMAIN all => WithFile(f)[f] = f
    <3>1. WithFile(f) = Insert(all, f, f)
      BY <1>4 DEF WithFile
    <3>2. /\ DOMAIN Insert(all, f, f) = DOMAIN all \cup {f}
          /\ \A p \in DOMAIN all : Insert(all, f, f)[p] = all[p]
          /\ f \notin DOMAIN all => Insert(all, f, f)[f] = f
      BY Inserted
    <3>. QED
      BY <3>1, <3>2, Zenon
  <2>5. f \notin DOMAIN all
    BY <1>1, <1>2, <1>4
  <2>6. iteration' = iteration \cup {f}
    BY <1>4 DEF AddFile
  <2>. QED
    BY <1>1, <1>2, <1>4, <2>2, <2>3, <2>4, <2>5, <2>6
<1>. QED
  BY <1>3, <1>4

\* TypeInv in three parts: each action leaves at least one of them alone.
WalkType ==
  /\ queue \in Seq(SearchPath) /\ stack \in Frames
  /\ \A f \in DOMAIN task : task[f].at = "config" => task[f].left \in Seq(SearchPath)
FileType ==
  /\ DOMAIN files \subseteq File /\ iteration \subseteq DOMAIN files
  /\ DOMAIN all \subseteq Path /\ Range(all) \subseteq DOMAIN files
  /\ DOMAIN task \subseteq iteration
  /\ Range(ldCache) \cup Range(libs) \subseteq DOMAIN files
  /\ \A p \in DOMAIN all : all[p] = LdReal(p)
StageType ==
  /\ pc \in {"scan", "inspect", "ldconfig", "fill", "done", "error"}
  /\ error \in {"none", "realpath", "duplicate key", "already inspected", "ldconfig"}
  /\ second \in BOOLEAN
  /\ rules \in SetToSeqs(PrefixRules)

LEMMA TypeParts == TypeInv <=> WalkType /\ FileType /\ StageType
BY DEF TypeInv, TypeOK, WalkType, FileType, StageType, Frames

LEMMA FailKeepsType ==
  ASSUME TypeInv, UNCHANGED systemVars,
         NEW what \in {"realpath", "duplicate key", "already inspected", "ldconfig"}, Fail(what)
  PROVE  TypeInv'
<1>1. WalkType' /\ FileType'
  BY TypeParts DEF WalkType, FileType, Fail, walkVars, fileVars, ldVars, LdReal
<1>2. StageType'
  BY TypeParts DEF StageType, Fail, systemVars
<1>. QED
  BY <1>1, <1>2, TypeParts, PTL

LEMMA AddKeepsType ==
  ASSUME TypeInv, NEW f \in File, AddFile(f), task' = task, ldCache' = ldCache, libs' = libs,
         DOMAIN all' \subseteq Path,
         \A p \in DOMAIN all' : all'[p] = LdReal(p) /\ all'[p] \in DOMAIN files'
  PROVE  FileType'
<1>1. FileType
  BY TypeParts
<1>2. /\ DOMAIN files \subseteq DOMAIN files' /\ DOMAIN files' \subseteq File
      /\ iteration \subseteq iteration' /\ iteration' \subseteq DOMAIN files'
  BY <1>1, AddFileEffect, ZenonT(40) DEF FileType
<1>3. Range(all') \subseteq DOMAIN files'
  BY DEF Range
<1>4. Range(ldCache') \cup Range(libs') \subseteq DOMAIN files'
  BY <1>1, <1>2 DEF FileType, Range
<1>5. \A p \in DOMAIN all' : all'[p] = LdReal(p)'
  BY DEF LdReal
<1>. QED
  BY <1>1, <1>2, <1>3, <1>4, <1>5 DEF FileType

LEMMA ScanKeepsType ==
  ASSUME TypeInv, UNCHANGED systemVars, Scan
  PROVE  TypeInv'
<1>. USE DEF systemVars, walkVars, fileVars, ldVars
<1>1. WalkType /\ FileType /\ StageType
  BY TypeParts
<1>2. ASSUME WalkType', UNCHANGED <<pc, error, second, fileVars, task, ldVars>>
      PROVE  TypeInv'
  <2>1. FileType' /\ StageType'
    BY <1>1, <1>2 DEF FileType, StageType, LdReal
  <2>. QED
    BY <1>2, <2>1, TypeParts, PTL
<1>3. stack # << >> => Tail(stack) \in Frames
  BY <1>1, PushPop DEF WalkType, Frames
<1>4. << >> \in Frames
  BY DEF Frames
<1>5. CASE Dequeue
  <2>1. /\ queue # << >> /\ queue' = Tail(queue) /\ Enter(Head(queue).dir, Head(queue).inode, << >>)
        /\ UNCHANGED <<pc, error, second, fileVars, task, ldVars>>
    BY <1>5 DEF Dequeue
  <2>2. Head(queue) \in SearchPath /\ queue' \in Seq(SearchPath)
    BY <1>1, <2>1, PushPop DEF WalkType
  <2>3. stack' \in Frames
    BY <1>4, <2>1, <2>2, EnterType DEF SearchPath
  <2>. QED
    BY <1>1, <1>2, <2>1, <2>2, <2>3 DEF WalkType
<1>6. CASE EndOfDir
  BY <1>1, <1>2, <1>3, <1>6 DEF EndOfDir, WalkType
<1>7. CASE EndOfQueue
  <2>1. WalkType'
    BY <1>1, <1>7 DEF EndOfQueue, WalkType
  <2>2. FileType'
    <3>1. DOMAIN task' \subseteq iteration
      BY <1>1, <1>7 DEF EndOfQueue, FileType
    <3>. QED
      BY <1>1, <1>7, <3>1 DEF EndOfQueue, FileType, LdReal
  <2>3. StageType'
    BY <1>1, <1>7 DEF EndOfQueue, StageType
  <2>. QED
    BY <2>1, <2>2, <2>3, TypeParts, PTL
<1>8. ASSUME NEW f \in File, ReadFile(f)
      PROVE  TypeInv'
  <2>1. CASE Duplicate(f)
    BY <1>8, <2>1, FailKeepsType DEF ReadFile
  <2>2. CASE ~Duplicate(f)
    <3>1. /\ AddFile(f) /\ all' = WithFile(f) /\ stack' = Without(f) /\ stack # << >>
          /\ UNCHANGED <<pc, error, second, queue, processedDirs, scanned, task, ldVars>>
      BY <1>8, <2>2 DEF ReadFile, Reading
    <3>2. WalkType'
      BY <1>1, <3>1, WithoutType DEF WalkType
    <3>3. FileType'
      <4>1. /\ DOMAIN all' \subseteq Path
            /\ \A p \in DOMAIN all' : all'[p] = LdReal(p) /\ all'[p] \in DOMAIN files'
        BY <1>1, <3>1, AddFileEffect DEF FileType, Path
      <4>. QED
        BY <1>1, <3>1, <4>1, AddKeepsType
    <3>4. StageType'
      BY <1>1, <3>1 DEF StageType
    <3>. QED
      BY <3>2, <3>3, <3>4, TypeParts, PTL
  <2>. QED
    BY <2>1, <2>2
<1>9. ASSUME NEW f \in File, SkipFile(f)
      PROVE  TypeInv'
  BY <1>1, <1>2, <1>9, WithoutType DEF SkipFile, Reading, WalkType
<1>10. ASSUME NEW d \in Dir, ReadDir(d)
       PROVE  TypeInv'
  <2>1. Without(d) \in Frames
    BY <1>1, <1>10, WithoutType DEF ReadDir, Reading, WalkType
  <2>2. stack' \in Frames
    BY <1>10, <2>1, EnterType DEF ReadDir
  <2>. QED
    BY <1>1, <1>2, <1>10, <2>2 DEF ReadDir, WalkType
<1>11. ASSUME NEW l \in Link, SkipLink(l)
       PROVE  TypeInv'
  BY <1>1, <1>2, <1>11, WithoutType DEF SkipLink, Reading, WalkType
<1>12. ASSUME NEW l \in Link, LinkThrows(l)
       PROVE  TypeInv'
  BY <1>12, FailKeepsType DEF LinkThrows
<1>13. ASSUME NEW l \in Link, LinkToFile(l)
       PROVE  TypeInv'
  <2>. DEFINE f == RealPath[l]
  <2>1. CASE Duplicate(f) \/ l \in DOMAIN WithFile(f)
    BY <1>13, <2>1, FailKeepsType DEF LinkToFile
  <2>2. CASE ~(Duplicate(f) \/ l \in DOMAIN WithFile(f))
    <3>1. /\ f \in File /\ AddFile(f) /\ all' = Insert(WithFile(f), l, f) /\ stack' = Without(l) /\ stack # << >>
          /\ UNCHANGED <<pc, error, second, queue, processedDirs, scanned, task, ldVars>>
      BY <1>13, <2>2, TreeAssumption DEF LinkToFile, LinkIs, Reading
    <3>2. WalkType'
      BY <1>1, <3>1, WithoutType DEF WalkType
    <3>3. PICK with : with = WithFile(f) /\ l \notin DOMAIN with /\ all' = Insert(with, l, f)
      BY <2>2, <3>1
    <3>. HIDE DEF f
    <3>4. /\ DOMAIN all' = DOMAIN with \cup {l} /\ all'[l] = f
          /\ \A p \in DOMAIN with : all'[p] = with[p]
      <4>1. l \notin DOMAIN with /\ all' = Insert(with, l, f)
        BY <3>3
      <4>2. /\ DOMAIN Insert(with, l, f) = DOMAIN with \cup {l}
            /\ \A p \in DOMAIN with : Insert(with, l, f)[p] = with[p]
            /\ l \notin DOMAIN with => Insert(with, l, f)[l] = f
        BY DEF Insert
      <4>. QED
        BY <4>1, <4>2, Zenon
    <3>5. /\ DOMAIN with \subseteq DOMAIN all \cup {f} /\ DOMAIN files' = DOMAIN files \cup {f}
          /\ \A p \in DOMAIN with : with[p] = LdReal(p) /\ with[p] \in DOMAIN files'
      BY <3>1, <3>3, AddFileEffect
    <3>6. FileType'
      <4>1. LdReal(l) = f
        BY DEF LdReal, f
      <4>2. DOMAIN all' \subseteq Path
        BY <1>1, <3>1, <3>4, <3>5 DEF FileType, Path
      <4>3. \A p \in DOMAIN all' : all'[p] = LdReal(p) /\ all'[p] \in DOMAIN files'
        BY <3>4, <3>5, <4>1
      <4>. QED
        BY <1>1, <3>1, <4>2, <4>3, AddKeepsType
    <3>7. StageType'
      BY <1>1, <3>1 DEF StageType
    <3>. QED
      BY <3>2, <3>6, <3>7, TypeParts, PTL
  <2>. QED
    BY <2>1, <2>2
<1>14. ASSUME NEW l \in Link, LinkToDir(l)
       PROVE  TypeInv'
  <2>1. Without(l) \in Frames /\ RealPath[l] \in Dir
    BY <1>1, <1>14, WithoutType DEF LinkToDir, LinkIs, Reading, WalkType
  <2>2. stack' \in Frames
    BY <1>14, <2>1, EnterType DEF LinkToDir
  <2>. QED
    BY <1>1, <1>2, <1>14, <2>2 DEF LinkToDir, WalkType
<1>. QED
  BY <1>5, <1>6, <1>7, <1>8, <1>9, <1>10, <1>11, <1>12, <1>13, <1>14 DEF Scan

LEMMA TaskKeepsType ==
  ASSUME TypeInv, UNCHANGED systemVars, NEW f \in File, Task(f)
  PROVE  TypeInv'
<1>1. WalkType /\ FileType /\ StageType
  BY TypeParts
<1>2. /\ pc = "inspect" /\ f \in DOMAIN task /\ f \in DOMAIN files
      /\ UNCHANGED <<pc, error, second, stack, processedDirs, scanned, iteration, all, ldVars>>
  BY <1>1 DEF Task, Open, RunPath, EndOfELF, AddConfigPath, EndOfTask, Running, InspectUnchanged, FileType
<1>3. StageType'
  BY <1>1, <1>2 DEF StageType, systemVars
<1>4. ASSUME DOMAIN task' = DOMAIN task, DOMAIN files' = DOMAIN files
      PROVE  FileType'
  BY <1>1, <1>2, <1>4 DEF FileType, LdReal, ldVars, Range
<1>5. ASSUME NEW at, NEW left, At(f, at, left), DOMAIN files' = DOMAIN files, queue' \in Seq(SearchPath),
             at = "config" => left \in Seq(SearchPath)
      PROVE  TypeInv'
  <2>1. /\ DOMAIN task' = DOMAIN task /\ task'[f] = [at |-> at, left |-> left]
        /\ \A g \in DOMAIN task : g # f => task'[g] = task[g]
    BY <1>2, <1>5 DEF At
  <2>2. WalkType'
    BY <1>1, <1>2, <1>5, <2>1 DEF WalkType
  <2>3. FileType'
    BY <1>4, <1>5, <2>1
  <2>. QED
    BY <1>3, <2>2, <2>3, TypeParts, PTL
<1>6. queue \in Seq(SearchPath)
  BY <1>1 DEF WalkType
<1>7. CASE Open(f)
  <2>1. queue' = queue /\ DOMAIN files' = DOMAIN files
    BY <1>7 DEF Open
  <2>2. \E at \in {"done", "threw", "run paths"} : \E left : At(f, at, left)
    BY <1>7 DEF Open
  <2>. QED
    BY <1>5, <1>6, <2>1, <2>2
<1>8. CASE RunPath(f)
  <2>. DEFINE next == Head(task[f].left)
              dir == Target(f, next.part)
              sp == [dir |-> dir, inode |-> StatInode[dir]]
  <2>1. /\ At(f, IF dir = Unresolvable THEN "done" ELSE "run paths", Tail(task[f].left))
        /\ IF dir \notin Dir THEN UNCHANGED <<queue, files>>
           ELSE /\ queue' = Append(queue, sp)
                /\ files' = [files EXCEPT ![f][next.list] = Append(@, sp)]
    BY <1>8 DEF RunPath
  <2>2. DOMAIN files' = DOMAIN files
    BY <2>1
  <2>3. dir \in Dir => sp \in SearchPath
    BY TreeAssumption DEF SearchPath
  <2>. HIDE DEF dir, sp
  <2>4. queue' \in Seq(SearchPath)
    <3>1. CASE dir \in Dir
      <4>1. Append(queue, sp) \in Seq(SearchPath)
        BY <1>6, <2>3, <3>1
      <4>. QED
        BY <2>1, <3>1, <4>1
    <3>2. CASE dir \notin Dir
      BY <1>6, <2>1, <3>2
    <3>. QED
      BY <3>1, <3>2
  <2>. QED
    BY <1>5, <2>1, <2>2, <2>4
<1>9. CASE EndOfELF(f)
  <2>1. queue' = queue /\ DOMAIN files' = DOMAIN files
    BY <1>9 DEF EndOfELF
  <2>2. ConfigPaths(f) \in Seq(SearchPath)
    BY <1>1, ConfigPathsIn, TreeAssumption DEF StageType
  <2>3. At(f, "config", ConfigPaths(f)) \/ At(f, "done", << >>)
    BY <1>9 DEF EndOfELF
  <2>. QED
    BY <1>5, <1>6, <2>1, <2>2, <2>3
<1>10. CASE AddConfigPath(f)
  <2>. DEFINE sp == Head(task[f].left)
  <2>1. /\ task[f].at = "config" /\ task[f].left # << >> /\ At(f, "config", Tail(task[f].left))
        /\ queue' = (IF sp.inode # 0 THEN Append(queue, sp) ELSE queue)
        /\ DOMAIN files' = DOMAIN files
    BY <1>10 DEF AddConfigPath, Running
  <2>2. task[f].left \in Seq(SearchPath)
    BY <1>1, <1>2, <2>1 DEF WalkType
  <2>3. sp \in SearchPath /\ Tail(task[f].left) \in Seq(SearchPath)
    BY <2>1, <2>2, PushPop
  <2>4. queue' \in Seq(SearchPath)
    BY <1>6, <2>1, <2>3
  <2>. QED
    BY <1>5, <2>1, <2>3, <2>4
<1>11. CASE EndOfTask(f)
  <2>1. At(f, "done", << >>) /\ queue' = queue /\ files' = files
    BY <1>11 DEF EndOfTask
  <2>. QED
    BY <1>5, <1>6, <2>1
<1>. QED
  BY <1>7, <1>8, <1>9, <1>10, <1>11 DEF Task

LEMMA RestKeepsType ==
  ASSUME TypeInv, UNCHANGED systemVars,
         WaitAll \/ LdStart \/ LdOther \/ LdThrows \/ LdAdd \/ LdEnd \/ Fill
  PROVE  TypeInv'
<1>. USE DEF systemVars, walkVars, fileVars, ldVars
<1>1. WalkType /\ FileType /\ StageType
  BY TypeParts
<1>2. CASE WaitAll
  <2>1. CASE \E f \in DOMAIN task : task[f].at = "threw"
    BY <1>2, <2>1, FailKeepsType DEF WaitAll
  <2>2. CASE ~ \E f \in DOMAIN task : task[f].at = "threw"
    <3>1. /\ pc' = "scan" /\ iteration' = {} /\ task' = << >>
          /\ UNCHANGED <<error, second, queue, stack, files, all, ldCache, libs, rules>>
      BY <1>2, <2>2 DEF WaitAll
    <3>2. DOMAIN task' = {}
      BY <3>1
    <3>3. WalkType'
      BY <1>1, <3>1, <3>2 DEF WalkType
    <3>4. FileType'
      BY <1>1, <3>1, <3>2 DEF FileType, LdReal
    <3>5. StageType'
      BY <1>1, <3>1 DEF StageType
    <3>. QED
      BY <3>3, <3>4, <3>5, TypeParts, PTL
  <2>. QED
    BY <2>1, <2>2
<1>3. ASSUME UNCHANGED <<files, iteration, all, task, ldCache, libs, queue, stack, error, rules>>,
             pc' \in {"scan", "ldconfig"}, second' \in BOOLEAN
      PROVE  TypeInv'
  <2>1. WalkType' /\ FileType' /\ StageType'
    BY <1>1, <1>3 DEF WalkType, FileType, StageType, LdReal
  <2>. QED
    BY <2>1, TypeParts, PTL
<1>4. CASE LdStart
  <2>1. CASE ldconfig.count < 0
    BY <1>4, <2>1, FailKeepsType DEF LdStart
  <2>2. CASE ~ (ldconfig.count < 0)
    BY <1>1, <1>3, <1>4, <2>2 DEF LdStart, LdUnchanged, StageType
  <2>. QED
    BY <2>1, <2>2
<1>5. CASE LdOther
  BY <1>1, <1>3, <1>5 DEF LdOther, LdRow, LdUnchanged, StageType
<1>6. CASE LdThrows
  BY <1>6, FailKeepsType DEF LdThrows
<1>7. CASE LdAdd
  <2>. DEFINE path == LdLines[line].path
              f == LdReal(path)
              key == <<LdLines[line].name, files'[f].is32>>
  <2>1. /\ pc = "ldconfig" /\ f \in File /\ ldCache' = Insert(ldCache, key, f)
        /\ UNCHANGED <<pc, error, second, queue, stack, task, libs, rules>>
    BY <1>7 DEF LdAdd, LdRow, LdUnchanged
  <2>2. IF path \in DOMAIN all \/ f \in DOMAIN all THEN UNCHANGED fileVars
        ELSE AddFile(f) /\ all' = WithFile(f)
    BY <1>7 DEF LdAdd
  <2>3. LdReal(f) = f
    BY <2>1, TreeAssumption DEF LdReal
  <2>. HIDE DEF f, key, path
  <2>4. PICK k : ldCache' = Insert(ldCache, k, f)
    BY <2>1
  <2>5. DOMAIN ldCache' = DOMAIN ldCache \cup {k} /\ \A x \in DOMAIN ldCache' : ldCache'[x] \in Range(ldCache) \cup {f}
    BY <2>4 DEF Insert, Range
  <2>6. WalkType' /\ StageType'
    BY <1>1, <2>1 DEF WalkType, StageType
  <2>7. CASE path \in DOMAIN all \/ f \in DOMAIN all
    <3>1. f \in DOMAIN files
      BY <1>1, <2>3, <2>7 DEF FileType, Range, f
    <3>2. UNCHANGED fileVars
      BY <2>2, <2>7
    <3>3. Range(ldCache') \cup Range(libs') \subseteq DOMAIN files'
      BY <1>1, <2>1, <2>5, <3>1, <3>2 DEF FileType, Range
    <3>4. FileType'
      BY <1>1, <2>1, <3>2, <3>3 DEF FileType, LdReal
    <3>. QED
      BY <2>6, <3>4, TypeParts, PTL
  <2>8. CASE ~(path \in DOMAIN all \/ f \in DOMAIN all)
    <3>1. AddFile(f) /\ all' = WithFile(f)
      BY <2>2, <2>8
    <3>2. /\ DOMAIN files' = DOMAIN files \cup {f} /\ DOMAIN files' \subseteq File
          /\ iteration \subseteq iteration' /\ iteration' \subseteq iteration \cup {f}
          /\ DOMAIN all' \subseteq DOMAIN all \cup {f}
          /\ \A p \in DOMAIN all' : all'[p] = LdReal(p) /\ all'[p] \in DOMAIN files'
      BY <2>1, <3>1, AddFileEffect
    <3>3. Range(ldCache') \cup Range(libs') \subseteq DOMAIN files'
      BY <1>1, <2>1, <2>5, <3>2 DEF FileType, Range
    <3>4. FileType'
      BY <1>1, <2>1, <3>2, <3>3 DEF FileType, LdReal, Range, Path
    <3>. QED
      BY <2>6, <3>4, TypeParts, PTL
  <2>. QED
    BY <2>7, <2>8
<1>8. CASE LdEnd
  <2>1. CASE line < Len(LdLines) \/ line - 1 # ldconfig.count
    BY <1>8, <2>1, FailKeepsType DEF LdEnd
  <2>2. CASE ~(line < Len(LdLines) \/ line - 1 # ldconfig.count)
    BY <1>1, <1>3, <1>8, <2>2 DEF LdEnd, StageType
  <2>. QED
    BY <2>1, <2>2
<1>9. CASE Fill
  <2>1. /\ libs' = [k \in {<<p, files[all[p]].is32>> : p \in LibPaths} |-> all[k[1]]]
        /\ pc' = "done" /\ all' = << >>
        /\ UNCHANGED <<error, second, queue, stack, iteration, files, task, ldCache, rules>>
    BY <1>9 DEF Fill
  <2>2. Range(libs') \subseteq DOMAIN files
    BY <1>1, <2>1 DEF LibPaths, FileType, Range
  <2>3. FileType'
    BY <1>1, <2>1, <2>2 DEF FileType, Range
  <2>4. WalkType' /\ StageType'
    BY <1>1, <2>1 DEF WalkType, StageType
  <2>. QED
    BY <2>3, <2>4, TypeParts, PTL
<1>. QED
  BY <1>2, <1>4, <1>5, <1>6, <1>7, <1>8, <1>9

LEMMA TypeInit == Init => TypeInv
<1>. SUFFICES ASSUME Init PROVE TypeInv
  OBVIOUS
<1>1. WalkType
  <2>1. DOMAIN task = {} /\ stack = << >> /\ queue = ScanPaths
    BY DEF Init
  <2>. QED
    BY <2>1, TreeAssumption DEF WalkType, Frames
<1>2. FileType
  <2>1. DOMAIN files = {} /\ DOMAIN all = {} /\ DOMAIN task = {} /\ iteration = {} /\ DOMAIN ldCache = {} /\ DOMAIN libs = {}
    BY DEF Init
  <2>. QED
    BY <2>1 DEF FileType, Range
<1>3. StageType
  BY DEF Init, StageType
<1>. QED
  BY <1>1, <1>2, <1>3, TypeParts

LEMMA TypeInvariance == Spec => []TypeInv
<1>1. TypeInv /\ [Next]_vars => TypeInv'
  <2>. SUFFICES ASSUME TypeInv, [Next]_vars PROVE TypeInv'
    OBVIOUS
  <2>1. CASE UNCHANGED vars
    <3>1. WalkType' /\ FileType' /\ StageType'
      BY <2>1, TypeParts DEF vars, systemVars, walkVars, fileVars, ldVars, WalkType, FileType, StageType, LdReal
    <3>. QED
      BY <3>1, TypeParts, PTL
  <2>2. CASE Next
    BY <2>1, <2>2, ScanKeepsType, TaskKeepsType, RestKeepsType DEF Next, Main, Stopped
  <2>. QED
    BY <2>1, <2>2
<1>. QED
  BY TypeInit, <1>1, PTL DEF Spec

\* The type invariant; in particular, every library and every file that
\* ldCache names is one that was collected, with mounts as well.
THEOREM TypeCorrect == Spec => []TypeOK
<1>1. TypeInv => TypeOK
  BY DEF TypeInv
<1>. QED
  BY TypeInvariance, <1>1, PTL

-----------------------------------------------------------------------------
(* Where inode numbers identify directories.                               *)

StackInv ==
  /\ scanned \subseteq Dir
  /\ pc # "done" => processedDirs = {StatInode[d] : d \in scanned}
  /\ \A i \in DOMAIN stack : stack[i].dir \in scanned /\ stack[i].todo \subseteq Children[stack[i].dir]
  /\ \A i, j \in DOMAIN stack : stack[i].dir = stack[j].dir => i = j
RequestInv ==
  /\ queue \in Seq(Current)
  /\ \A f \in DOMAIN task : task[f].at = "config" => task[f].left \in Seq(CurrentOrGone)
FileKeys == pc # "done" => \A f \in File : f \in DOMAIN all <=> f \in DOMAIN files
LinkKeys ==
  \A l \in Link \cap DOMAIN all :
    /\ \E d \in scanned : l \in Children[d]
    /\ \A i \in DOMAIN stack : l \notin stack[i].todo

LEMMA InvParts == IInv <=> StackInv /\ RequestInv /\ FileKeys /\ LinkKeys /\ InspectInv /\ NoInternalError
BY DEF IInv, WalkInv, AllInv, StackInv, RequestInv, FileKeys, LinkKeys

\* A directory that is entered was not entered before.
Once == Len(stack') > Len(stack) => Head(stack').dir \notin scanned

\* The same directories are being read, each with no more to come.
Narrowed(rest) ==
  /\ rest \in Frames /\ Len(rest) = Len(stack)
  /\ \A i \in 1..Len(stack) : rest[i].dir = stack[i].dir /\ rest[i].todo \subseteq stack[i].todo

LEMMA Narrows ==
  ASSUME stack \in Frames
  PROVE  /\ stack = << >> => Narrowed(<< >>)
         /\ \A c : stack # << >> => Narrowed(Without(c))
<1>1. ASSUME stack = << >> PROVE Narrowed(<< >>)
  BY <1>1 DEF Narrowed, Frames
<1>2. ASSUME NEW c, stack # << >> PROVE Narrowed(Without(c))
  <2>1. /\ Without(c) \in Frames /\ Len(Without(c)) = Len(stack)
        /\ Without(c)[1].dir = stack[1].dir /\ Without(c)[1].todo = stack[1].todo \ {c}
        /\ \A i \in 1..Len(stack) : i # 1 => Without(c)[i] = stack[i]
    BY <1>2, WithoutType
  <2>2. ASSUME NEW i \in 1..Len(stack)
        PROVE  Without(c)[i].dir = stack[i].dir /\ Without(c)[i].todo \subseteq stack[i].todo
    <3>1. CASE i = 1
      BY <2>1, <3>1
    <3>2. CASE i # 1
      <4>1. Without(c)[i] = stack[i]
        BY <2>1, <3>2
      <4>. QED
        BY <4>1
    <3>. QED
      BY <3>1, <3>2
  <2>. QED
    BY <2>1, <2>2 DEF Narrowed
<1>. QED
  BY <1>1, <1>2

LEMMA NarrowedKeeps ==
  ASSUME stack \in Frames, StackInv, NEW rest, Narrowed(rest)
  PROVE  /\ DOMAIN rest = 1..Len(stack) /\ DOMAIN stack = 1..Len(stack)
         /\ \A i \in DOMAIN rest : rest[i].dir \in scanned /\ rest[i].todo \subseteq Children[rest[i].dir]
         /\ \A i, j \in DOMAIN rest : rest[i].dir = rest[j].dir => i = j
<1>1. DOMAIN rest = 1..Len(stack) /\ DOMAIN stack = 1..Len(stack)
  BY DEF Narrowed, Frames
<1>2. \A i \in 1..Len(stack) : rest[i].dir = stack[i].dir /\ rest[i].todo \subseteq stack[i].todo
  BY DEF Narrowed
<1>. QED
  BY <1>1, <1>2 DEF StackInv

\* What comes after a step that only reads on in the directories being read.
LEMMA ReadOn ==
  ASSUME stack \in Frames, StackInv, Narrowed(stack'), UNCHANGED <<processedDirs, scanned, pc>>
  PROVE  StackInv' /\ Once
<1>1. StackInv'
  BY NarrowedKeeps DEF StackInv
<1>2. Len(stack') = Len(stack) /\ Len(stack) \in Nat
  BY DEF Narrowed, Frames
<1>. QED
  BY <1>1, <1>2 DEF Once

LEMMA EnterOnce ==
  ASSUME OneFileSystem, stack \in Frames, StackInv, LinkKeys, pc # "done", NEW d \in Dir, NEW rest, Narrowed(rest),
         Enter(d, StatInode[d], rest), UNCHANGED <<pc, all>>
  PROVE  StackInv' /\ LinkKeys' /\ Once
<1>1. /\ DOMAIN rest = 1..Len(stack) /\ DOMAIN stack = 1..Len(stack) /\ Len(stack) \in Nat /\ rest \in Frames
      /\ Len(rest) = Len(stack)
      /\ \A i \in DOMAIN rest : rest[i].dir \in scanned /\ rest[i].todo \subseteq Children[rest[i].dir]
      /\ \A i, j \in DOMAIN rest : rest[i].dir = rest[j].dir => i = j
  <2>1. rest \in Frames /\ Len(rest) = Len(stack)
    BY DEF Narrowed
  <2>2. Len(stack) \in Nat
    BY DEF Frames
  <2>3. /\ DOMAIN rest = 1..Len(stack) /\ DOMAIN stack = 1..Len(stack)
        /\ \A i \in DOMAIN rest : rest[i].dir \in scanned /\ rest[i].todo \subseteq Children[rest[i].dir]
        /\ \A i, j \in DOMAIN rest : rest[i].dir = rest[j].dir => i = j
    BY NarrowedKeeps
  <2>. QED
    BY <2>1, <2>2, <2>3
<1>2. \A l \in Link \cap DOMAIN all : \A i \in DOMAIN rest : l \notin rest[i].todo
  <2>1. \A i \in 1..Len(stack) : rest[i].todo \subseteq stack[i].todo
    BY DEF Narrowed
  <2>. QED
    BY <1>1, <2>1 DEF LinkKeys
<1>3. CASE Refused(d, StatInode[d])
  <2>1. stack' = rest /\ UNCHANGED <<processedDirs, scanned>>
    BY <1>3 DEF Enter
  <2>2. StackInv'
    BY <1>1, <2>1 DEF StackInv
  <2>3. LinkKeys'
    BY <1>2, <2>1 DEF LinkKeys
  <2>4. Once
    BY <1>1, <2>1 DEF Once
  <2>. QED
    BY <2>2, <2>3, <2>4
<1>4. CASE ~Refused(d, StatInode[d])
  <2>1. /\ processedDirs' = processedDirs \cup {StatInode[d]} /\ scanned' = scanned \cup {d}
        /\ stack' = <<Frame(d)>> \o rest
    BY <1>4 DEF Enter
  <2>2. d \notin scanned
    BY <1>4 DEF Refused, StackInv
  <2>3. /\ stack' \in Frames /\ Len(stack') = Len(stack) + 1
        /\ stack'[1] = [dir |-> d, todo |-> Children[d]] /\ Head(stack') = [dir |-> d, todo |-> Children[d]]
        /\ \A i \in 1..Len(stack) : stack'[i + 1] = rest[i]
    <3>1. /\ <<Frame(d)>> \o rest \in Frames /\ Len(<<Frame(d)>> \o rest) = Len(rest) + 1
          /\ (<<Frame(d)>> \o rest)[1] = [dir |-> d, todo |-> Children[d]]
          /\ Head(<<Frame(d)>> \o rest) = [dir |-> d, todo |-> Children[d]]
          /\ \A i \in 1..Len(rest) : (<<Frame(d)>> \o rest)[i + 1] = rest[i]
      BY <1>1, FrameType
    <3>. QED
      BY <1>1, <2>1, <3>1, Zenon
  <2>4. DOMAIN stack' = 1..(Len(stack) + 1)
    BY <2>3 DEF Frames
  <2>5. ASSUME NEW i \in DOMAIN stack', i # 1
        PROVE  i - 1 \in DOMAIN rest /\ stack'[i] = rest[i - 1]
    <3>1. i - 1 \in 1..Len(stack) /\ (i - 1) + 1 = i
      BY <1>1, <2>4, <2>5
    <3>2. stack'[(i - 1) + 1] = rest[i - 1]
      BY <2>3, <3>1
    <3>. QED
      BY <1>1, <3>1, <3>2
  <2>6. stack'[1].dir = d /\ stack'[1].todo = Children[d]
    BY <2>3
  <2>7. ASSUME NEW i \in DOMAIN stack'
        PROVE  /\ stack'[i].dir \in scanned' /\ stack'[i].todo \subseteq Children[stack'[i].dir]
               /\ i # 1 => stack'[i].dir # d
               /\ \A l \in Link \cap DOMAIN all : l \notin stack'[i].todo
    <3>1. CASE i = 1
      <4>1. \A l \in Link \cap DOMAIN all : l \notin Children[d]
        <5>. SUFFICES ASSUME NEW l \in Link \cap DOMAIN all, l \in Children[d] PROVE FALSE
          OBVIOUS
        <5>1. PICK e \in scanned : l \in Children[e]
          BY DEF LinkKeys
        <5>2. e \in Dir /\ e # d
          BY <2>2, <5>1 DEF StackInv
        <5>. QED
          BY <5>1, <5>2 DEF OneFileSystem
      <4>. QED
        BY <2>1, <2>6, <3>1, <4>1
    <3>2. CASE i # 1
      <4>1. i - 1 \in DOMAIN rest /\ stack'[i] = rest[i - 1]
        BY <2>5, <3>2
      <4>. QED
        BY <1>1, <1>2, <2>1, <2>2, <4>1
    <3>. QED
      BY <3>1, <3>2
  <2>8. ASSUME NEW i \in DOMAIN stack', NEW j \in DOMAIN stack', stack'[i].dir = stack'[j].dir
        PROVE  i = j
    <3>1. CASE i = 1 \/ j = 1
      BY <2>6, <2>7, <2>8, <3>1
    <3>2. CASE i # 1 /\ j # 1
      <4>1. /\ i - 1 \in DOMAIN rest /\ stack'[i] = rest[i - 1]
            /\ j - 1 \in DOMAIN rest /\ stack'[j] = rest[j - 1]
        BY <2>5, <3>2
      <4>2. rest[i - 1].dir = rest[j - 1].dir
        BY <2>8, <4>1
      <4>3. i - 1 = j - 1
        BY <1>1, <4>1, <4>2
      <4>. QED
        BY <1>1, <2>4, <4>3
    <3>. QED
      BY <3>1, <3>2
  <2>9. StackInv'
    <3>1. scanned' \subseteq Dir /\ processedDirs' = {StatInode[e] : e \in scanned'}
      BY <2>1 DEF StackInv
    <3>. QED
      BY <2>7, <2>8, <3>1 DEF StackInv
  <2>10. LinkKeys'
    BY <2>1, <2>7 DEF LinkKeys
  <2>11. Once
    BY <2>2, <2>3 DEF Once
  <2>. QED
    BY <2>9, <2>10, <2>11
<1>. QED
  BY <1>3, <1>4

\* Files are new in the map of all paths exactly if they are new.
LEMMA AddFileKeys ==
  ASSUME TypeInv, FileKeys, LinkKeys, pc # "done", NEW f \in File, AddFile(f)
  PROVE  /\ ~Duplicate(f)
         /\ \A g \in File : g \in DOMAIN WithFile(f) <=> g \in DOMAIN files'
         /\ Link \cap DOMAIN WithFile(f) = Link \cap DOMAIN all
         /\ (\A g \in iteration : ~files[g].isInspected) => \A g \in iteration' : ~files'[g].isInspected
<1>1. /\ DOMAIN files' = DOMAIN files \cup {f}
      /\ \A g \in DOMAIN files : files'[g] = files[g]
      /\ iteration' = iteration \cup (IF f \in DOMAIN files THEN {} ELSE {f})
      /\ f \notin DOMAIN files => ~files'[f].isInspected
      /\ f \in DOMAIN WithFile(f) \/ f \in DOMAIN files
      /\ DOMAIN all \subseteq DOMAIN WithFile(f) /\ DOMAIN WithFile(f) \subseteq DOMAIN all \cup {f}
  BY AddFileEffect
<1>2. \A g \in File : g \in DOMAIN all <=> g \in DOMAIN files
  BY DEF FileKeys
<1>3. iteration \subseteq DOMAIN files
  BY DEF TypeInv, TypeOK
<1>4. ~Duplicate(f)
  BY <1>2 DEF Duplicate
<1>5. \A g \in File : g \in DOMAIN WithFile(f) <=> g \in DOMAIN files'
  BY <1>1, <1>2
<1>6. Link \cap DOMAIN WithFile(f) = Link \cap DOMAIN all
  BY <1>1, TreeAssumption
<1>7. ASSUME \A g \in iteration : ~files[g].isInspected
      PROVE  \A g \in iteration' : ~files'[g].isInspected
  BY <1>1, <1>3, <1>7
<1>. QED
  BY <1>4, <1>5, <1>6, <1>7

LEMMA FailKeeps ==
  ASSUME IInv, NEW what \in {"realpath", "ldconfig"}, Fail(what), pc # "done"
  PROVE  IInv' /\ Once
<1>1. stack' = stack /\ pc' = "error" /\ error' = what
  BY DEF Fail, walkVars
<1>2. IInv'
  BY InvParts, <1>1 DEF Fail, walkVars, fileVars, ldVars, IInv, WalkInv, AllInv, InspectInv, NoInternalError
<1>. QED
  BY <1>1, <1>2 DEF Once

LEMMA ScanKeeps ==
  ASSUME OneFileSystem, TypeInv, IInv, Scan
  PROVE  IInv' /\ Once
<1>. USE DEF walkVars, fileVars, ldVars
<1>1. StackInv /\ RequestInv /\ FileKeys /\ LinkKeys /\ InspectInv /\ NoInternalError
  BY InvParts
<1>2. stack \in Frames /\ DOMAIN stack = 1..Len(stack) /\ Len(stack) \in Nat
  <2>1. stack \in Frames
    BY TypeParts DEF WalkType
  <2>. QED
    BY <2>1 DEF Frames
<1>3. pc = "scan"
  BY DEF Scan, Dequeue, EndOfDir, EndOfQueue, ReadFile, SkipFile, ReadDir, SkipLink, LinkThrows, LinkToFile, LinkToDir,
         LinkIs, Reading
<1>4. pc # "done"
  BY <1>3
<1>5. ASSUME StackInv', LinkKeys', Once, RequestInv', UNCHANGED <<pc, error, second, fileVars, task, ldVars>>
      PROVE  IInv' /\ Once
  <2>1. FileKeys' /\ InspectInv' /\ NoInternalError'
    BY <1>1, <1>5 DEF FileKeys, InspectInv, NoInternalError
  <2>. QED
    BY <1>5, <2>1, InvParts, PTL
\* Reading on.
<1>6. ASSUME Narrowed(stack'), UNCHANGED <<pc, error, second, queue, processedDirs, scanned, fileVars, task, ldVars>>
      PROVE  IInv' /\ Once
  <2>1. StackInv' /\ Once
    BY <1>1, <1>2, <1>6, ReadOn
  <2>2. LinkKeys'
    <3>1. \A i \in DOMAIN stack' : i \in DOMAIN stack /\ stack'[i].todo \subseteq stack[i].todo
      BY <1>2, <1>6 DEF Narrowed, Frames
    <3>. QED
      BY <1>1, <1>6, <3>1 DEF LinkKeys
  <2>3. RequestInv'
    BY <1>1, <1>6 DEF RequestInv
  <2>. QED
    BY <1>5, <1>6, <2>1, <2>2, <2>3
\* Entering a directory.
<1>7. ASSUME NEW d \in Dir, NEW rest, Narrowed(rest), Enter(d, StatInode[d], rest),
             UNCHANGED <<pc, error, second, fileVars, task, ldVars>>, queue' \in Seq(Current)
      PROVE  IInv' /\ Once
  <2>1. StackInv' /\ LinkKeys' /\ Once
    BY <1>1, <1>2, <1>4, <1>7, EnterOnce
  <2>2. RequestInv'
    BY <1>1, <1>7 DEF RequestInv
  <2>. QED
    BY <1>5, <1>7, <2>1, <2>2
<1>8. queue \in Seq(Current)
  BY <1>1 DEF RequestInv
\* Adding a file f, found at the path p.
<1>9. ASSUME NEW f \in File, NEW p \in Path, AddFile(f), Reading(p), stack' = Without(p),
             UNCHANGED <<pc, error, second, queue, processedDirs, scanned, task, ldVars>>,
             DOMAIN all' = DOMAIN WithFile(f) \cup (IF p \in Link THEN {p} ELSE {})
      PROVE  IInv' /\ Once
  <2>0. /\ \A g \in File : g \in DOMAIN WithFile(f) <=> g \in DOMAIN files'
        /\ Link \cap DOMAIN WithFile(f) = Link \cap DOMAIN all
        /\ (\A g \in iteration : ~files[g].isInspected) => \A g \in iteration' : ~files'[g].isInspected
    BY <1>1, <1>4, <1>9, AddFileKeys
  <2>1. stack # << >> /\ p \in Head(stack).todo
    BY <1>9 DEF Reading
  <2>2. Narrowed(stack')
    BY <1>2, <1>9, <2>1, Narrows
  <2>3. StackInv' /\ Once
    BY <1>1, <1>2, <1>9, <2>2, ReadOn
  <2>4. RequestInv'
    BY <1>1, <1>9 DEF RequestInv
  <2>5. FileKeys'
    BY <1>9, <2>0, TreeAssumption DEF FileKeys
  <2>6. InspectInv'
    <3>1. \A g \in iteration' : ~files'[g].isInspected
      BY <1>1, <1>3, <2>0 DEF InspectInv
    <3>2. task' = << >> /\ DOMAIN task' = {}
      BY <1>1, <1>3, <1>9 DEF InspectInv
    <3>. QED
      BY <1>3, <1>9, <3>1, <3>2 DEF InspectInv
  <2>7. LinkKeys'
    <3>1. /\ 1 \in DOMAIN stack /\ p \in stack[1].todo /\ DOMAIN stack' = DOMAIN stack
          /\ \A i \in DOMAIN stack : stack'[i].todo \subseteq stack[i].todo
          /\ stack'[1].todo = stack[1].todo \ {p}
      <4>1. Head(stack) = stack[1] /\ Len(stack) # 0
        BY <1>2, <2>1 DEF Frames
      <4>2. /\ Without(p)[1].todo = stack[1].todo \ {p}
        BY <1>2, <2>1, WithoutType
      <4>. QED
        BY <1>2, <1>9, <2>1, <2>2, <4>1, <4>2 DEF Narrowed, Frames
    <3>2. ASSUME NEW l \in Link \cap DOMAIN all'
          PROVE  /\ \E d \in scanned' : l \in Children[d]
                 /\ \A i \in DOMAIN stack' : l \notin stack'[i].todo
      <4>1. CASE l \in DOMAIN all
        BY <1>1, <1>9, <3>1, <4>1 DEF LinkKeys
      <4>2. CASE l \notin DOMAIN all
        <5>1. l = p
          BY <1>9, <2>0, <3>2, <4>2
        <5>2. stack[1].dir \in scanned /\ p \in Children[stack[1].dir]
          BY <1>1, <3>1 DEF StackInv
        <5>3. ASSUME NEW i \in DOMAIN stack, i # 1
              PROVE  p \notin stack[i].todo
          <6>1. stack[i].dir \in Dir /\ stack[1].dir \in Dir /\ stack[i].dir # stack[1].dir
            BY <1>1, <3>1, <5>3 DEF StackInv
          <6>2. p \notin Children[stack[i].dir]
            BY <3>2, <5>1, <5>2, <6>1 DEF OneFileSystem
          <6>. QED
            BY <1>1, <6>2 DEF StackInv
        <5>. QED
          BY <1>9, <3>1, <5>1, <5>2, <5>3
      <4>. QED
        BY <4>1, <4>2
    <3>. QED
      BY <3>2 DEF LinkKeys
  <2>8. NoInternalError'
    BY <1>1, <1>9 DEF NoInternalError
  <2>. QED
    BY <2>3, <2>4, <2>5, <2>6, <2>7, <2>8, InvParts, PTL
<1>10. CASE Dequeue
  <2>1. /\ stack = << >> /\ queue # << >> /\ queue' = Tail(queue) /\ Enter(Head(queue).dir, Head(queue).inode, << >>)
        /\ UNCHANGED <<pc, error, second, fileVars, task, ldVars>>
    BY <1>10 DEF Dequeue
  <2>2. Head(queue) \in Current /\ queue' \in Seq(Current)
    BY <1>8, <2>1, PushPop
  <2>3. Head(queue).dir \in Dir /\ Head(queue).inode = StatInode[Head(queue).dir]
    BY <2>2 DEF Current, SearchPath
  <2>4. Narrowed(<< >>)
    BY <1>2, <2>1, Narrows
  <2>. QED
    BY <1>7, <2>1, <2>2, <2>3, <2>4
<1>11. CASE EndOfDir
  <2>1. /\ stack # << >> /\ stack' = Tail(stack)
        /\ UNCHANGED <<pc, error, second, queue, processedDirs, scanned, fileVars, task, ldVars>>
    BY <1>11 DEF EndOfDir
  <2>2. /\ Tail(stack) \in Frames /\ Len(Tail(stack)) = Len(stack) - 1
        /\ \A i \in 1..Len(Tail(stack)) : Tail(stack)[i] = stack[i + 1]
    BY <1>2, <2>1, PushPop DEF Frames
  <2>3. \A i \in DOMAIN stack' : i \in Nat /\ i + 1 \in DOMAIN stack /\ stack'[i] = stack[i + 1]
    <3>1. DOMAIN stack' = 1..Len(Tail(stack))
      BY <2>1, <2>2 DEF Frames
    <3>. QED
      BY <1>2, <2>1, <2>2, <3>1
  <2>4. StackInv'
    <3>1. \A i \in DOMAIN stack' : stack'[i].dir \in scanned /\ stack'[i].todo \subseteq Children[stack'[i].dir]
      BY <1>1, <2>3 DEF StackInv
    <3>2. ASSUME NEW i \in DOMAIN stack', NEW j \in DOMAIN stack', stack'[i].dir = stack'[j].dir
          PROVE  i = j
      <4>1. /\ i \in Nat /\ i + 1 \in DOMAIN stack /\ stack'[i] = stack[i + 1]
            /\ j \in Nat /\ j + 1 \in DOMAIN stack /\ stack'[j] = stack[j + 1]
        BY <2>3
      <4>2. stack[i + 1].dir = stack[j + 1].dir
        BY <3>2, <4>1
      <4>3. i + 1 = j + 1
        BY <1>1, <4>1, <4>2 DEF StackInv
      <4>. QED
        BY <4>1, <4>3
    <3>. QED
      BY <1>1, <2>1, <3>1, <3>2 DEF StackInv
  <2>5. LinkKeys'
    BY <1>1, <2>1, <2>3 DEF LinkKeys
  <2>6. RequestInv' /\ Once
    BY <1>1, <1>2, <2>1, <2>2 DEF RequestInv, Once
  <2>. QED
    BY <1>5, <2>1, <2>4, <2>5, <2>6
<1>12. CASE EndOfQueue
  <2>1. /\ stack = << >> /\ UNCHANGED <<error, second, queue, stack, processedDirs, scanned, fileVars, ldVars>>
        /\ pc' \in {"inspect", "fill", "ldconfig"}
    BY <1>12 DEF EndOfQueue
  <2>2. StackInv' /\ LinkKeys' /\ FileKeys' /\ NoInternalError' /\ Once
    <3>1. StackInv'
      BY <1>1, <1>4, <2>1 DEF StackInv
    <3>2. LinkKeys'
      BY <1>1, <2>1 DEF LinkKeys
    <3>3. FileKeys' /\ NoInternalError'
      BY <1>1, <1>4, <2>1 DEF FileKeys, NoInternalError
    <3>4. Once
      BY <1>2, <2>1 DEF Once
    <3>. QED
      BY <3>1, <3>2, <3>3, <3>4
  <2>3. task = << >> /\ DOMAIN task = {} /\ \A f \in iteration : ~files[f].isInspected
    BY <1>1, <1>3 DEF InspectInv
  <2>4. RequestInv' /\ InspectInv'
    <3>1. CASE iteration # {}
      <4>1. pc' = "inspect" /\ task' = [f \in iteration |-> [at |-> "open", left |-> << >>]]
        BY <1>12, <3>1 DEF EndOfQueue
      <4>. QED
        BY <1>8, <2>1, <2>3, <4>1 DEF RequestInv, InspectInv
    <3>2. CASE iteration = {}
      <4>1. pc' \in {"fill", "ldconfig"} /\ task' = task
        BY <1>12, <3>2 DEF EndOfQueue
      <4>. QED
        BY <1>8, <2>1, <2>3, <4>1 DEF RequestInv, InspectInv
    <3>. QED
      BY <3>1, <3>2
  <2>. QED
    BY <2>2, <2>4, InvParts, PTL
<1>13. ASSUME NEW f \in File, ReadFile(f)
       PROVE  IInv' /\ Once
  <2>1. ~Duplicate(f)
    BY <1>1, <1>4 DEF Duplicate, FileKeys
  <2>2. /\ Reading(f) /\ AddFile(f) /\ all' = WithFile(f) /\ stack' = Without(f)
        /\ UNCHANGED <<pc, error, second, queue, processedDirs, scanned, task, ldVars>>
    BY <1>13, <2>1 DEF ReadFile
  <2>3. f \in Path /\ f \notin Link
    BY TreeAssumption DEF Path
  <2>. QED
    BY <1>9, <2>2, <2>3
<1>14. ASSUME NEW f \in File, SkipFile(f)
       PROVE  IInv' /\ Once
  BY <1>2, <1>6, <1>14, Narrows DEF SkipFile, Reading
<1>15. ASSUME NEW d \in Dir, ReadDir(d)
       PROVE  IInv' /\ Once
  <2>1. EntryInode[d] = StatInode[d]
    BY DEF OneFileSystem
  <2>. QED
    BY <1>2, <1>7, <1>8, <1>15, <2>1, Narrows DEF ReadDir, Reading
<1>16. ASSUME NEW l \in Link, SkipLink(l)
       PROVE  IInv' /\ Once
  BY <1>2, <1>6, <1>16, Narrows DEF SkipLink, Reading
<1>17. ASSUME NEW l \in Link, LinkThrows(l)
       PROVE  IInv' /\ Once
  BY <1>4, <1>17, FailKeeps DEF LinkThrows
<1>18. ASSUME NEW l \in Link, LinkToFile(l)
       PROVE  IInv' /\ Once
  <2>1. Reading(l) /\ RealPath[l] \in File
    BY <1>18, TreeAssumption DEF LinkToFile, LinkIs
  <2>2. ~Duplicate(RealPath[l])
    BY <1>1, <1>4, <2>1 DEF Duplicate, FileKeys
  <2>3. l \notin DOMAIN all
    <3>1. 1 \in DOMAIN stack /\ l \in stack[1].todo
      BY <1>2, <2>1 DEF Reading, Frames
    <3>. QED
      BY <1>1, <3>1 DEF LinkKeys
  <2>4. l \notin DOMAIN WithFile(RealPath[l])
    <3>1. l # RealPath[l]
      BY <2>1, TreeAssumption
    <3>2. DOMAIN Insert(all, RealPath[l], RealPath[l]) = DOMAIN all \cup {RealPath[l]}
      BY DEF Insert
    <3>. QED
      BY <2>3, <3>1, <3>2 DEF WithFile
  <2>5. /\ AddFile(RealPath[l]) /\ all' = Insert(WithFile(RealPath[l]), l, RealPath[l]) /\ stack' = Without(l)
        /\ UNCHANGED <<pc, error, second, queue, processedDirs, scanned, task, ldVars>>
    BY <1>18, <2>2, <2>4 DEF LinkToFile
  <2>6. DOMAIN Insert(WithFile(RealPath[l]), l, RealPath[l]) = DOMAIN WithFile(RealPath[l]) \cup {l}
    BY DEF Insert
  <2>7. DOMAIN all' = DOMAIN WithFile(RealPath[l]) \cup (IF l \in Link THEN {l} ELSE {}) /\ l \in Path
    BY <2>5, <2>6 DEF Path
  <2>. QED
    BY <1>9, <2>1, <2>5, <2>7
<1>19. ASSUME NEW l \in Link, LinkToDir(l)
       PROVE  IInv' /\ Once
  BY <1>2, <1>7, <1>8, <1>19, Narrows DEF LinkToDir, LinkIs, Reading
<1>. QED
  BY <1>10, <1>11, <1>12, <1>13, <1>14, <1>15, <1>16, <1>17, <1>18, <1>19 DEF Scan

LEMMA TaskKeeps ==
  ASSUME OneFileSystem, TypeInv, IInv, NEW f \in File, Task(f)
  PROVE  IInv' /\ Once
<1>. USE DEF walkVars, fileVars, ldVars
<1>1. StackInv /\ RequestInv /\ FileKeys /\ LinkKeys /\ InspectInv /\ NoInternalError
  BY InvParts
<1>2. /\ pc = "inspect" /\ f \in DOMAIN task
      /\ UNCHANGED <<pc, error, second, stack, processedDirs, scanned, iteration, all, ldVars>>
  BY DEF Task, Open, RunPath, EndOfELF, AddConfigPath, EndOfTask, Running, InspectUnchanged
<1>3. f \in DOMAIN files
  BY <1>2 DEF TypeInv, TypeOK
<1>4. StackInv' /\ LinkKeys' /\ NoInternalError'
  BY <1>1, <1>2 DEF StackInv, LinkKeys, NoInternalError
<1>5. Once
  <2>1. Len(stack) \in Nat
    BY TypeParts DEF WalkType, Frames
  <2>. QED
    BY <1>2, <2>1 DEF Once
<1>6. queue \in Seq(Current) /\ \A g \in DOMAIN task : task[g].at = "config" => task[g].left \in Seq(CurrentOrGone)
  BY <1>1 DEF RequestInv
\* The task goes on at another place; the files of other tasks stay as they are.
<1>7. ASSUME NEW at \in {"run paths", "config", "done"}, NEW left, At(f, at, left),
             at = "config" => left \in Seq(CurrentOrGone), queue' \in Seq(Current),
             DOMAIN files' = DOMAIN files, \A g \in DOMAIN files : g # f => files'[g] = files[g]
      PROVE  IInv' /\ Once
  <2>1. /\ DOMAIN task' = DOMAIN task /\ task'[f] = [at |-> at, left |-> left]
        /\ \A g \in DOMAIN task : g # f => task'[g] = task[g]
    BY <1>2, <1>7 DEF At
  <2>2. task'[f].at = at /\ task'[f].left = left
    <3>1. PICK place : place = [at |-> at, left |-> left]
      OBVIOUS
    <3>2. place.at = at /\ place.left = left
      BY <3>1
    <3>3. task'[f] = place
      BY <2>1, <3>1, Zenon
    <3>. QED
      BY <3>2, <3>3, Zenon
  <2>3. RequestInv'
    <3>1. ASSUME NEW g \in DOMAIN task', task'[g].at = "config"
          PROVE  task'[g].left \in Seq(CurrentOrGone)
      <4>1. CASE g = f
        BY <1>7, <2>2, <3>1, <4>1
      <4>2. CASE g # f
        BY <1>6, <2>1, <3>1, <4>2
      <4>. QED
        BY <4>1, <4>2
    <3>. QED
      BY <1>7, <3>1 DEF RequestInv
  <2>4. FileKeys'
    BY <1>1, <1>2, <1>7 DEF FileKeys
  <2>5. InspectInv'
    <3>1. DOMAIN task \subseteq DOMAIN files
      BY DEF TypeInv, TypeOK
    <3>2. ASSUME NEW g \in DOMAIN task'
          PROVE  /\ task'[g].at \in {"open", "run paths", "config", "done"}
                 /\ task'[g].at = "open" => ~files'[g].isInspected
      <4>1. CASE g = f
        BY <1>7, <2>2, <4>1
      <4>2. CASE g # f
        <5>1. g \in DOMAIN task /\ g \in DOMAIN files /\ task'[g] = task[g] /\ files'[g] = files[g]
          BY <1>7, <2>1, <3>1, <4>2
        <5>. QED
          BY <1>1, <5>1 DEF InspectInv
      <4>. QED
        BY <4>1, <4>2
    <3>. QED
      BY <1>1, <1>2, <2>1, <3>2 DEF InspectInv
  <2>. QED
    BY <1>4, <1>5, <2>3, <2>4, <2>5, InvParts, PTL
<1>8. CASE Open(f)
  <2>1. task[f].at = "open"
    BY <1>8 DEF Open, Running
  <2>2. ~files[f].isInspected
    BY <1>1, <1>2, <2>1 DEF InspectInv
  <2>3. At(f, "done", << >>) \/ At(f, "run paths", RunPathsIn(image[f]))
    BY <1>8, <2>2 DEF Open
  <2>4. queue' = queue /\ DOMAIN files' = DOMAIN files /\ \A g \in DOMAIN files : g # f => files'[g] = files[g]
    BY <1>8 DEF Open
  <2>. QED
    BY <1>6, <1>7, <2>3, <2>4
<1>9. CASE RunPath(f)
  <2>. DEFINE dir == Target(f, Head(task[f].left).part)
              list == Head(task[f].left).list
              sp == [dir |-> dir, inode |-> StatInode[dir]]
              at == IF dir = Unresolvable THEN "done" ELSE "run paths"
  <2>1. /\ At(f, at, Tail(task[f].left))
        /\ IF dir \notin Dir THEN UNCHANGED <<queue, files>>
           ELSE queue' = Append(queue, sp) /\ files' = [files EXCEPT ![f][list] = Append(@, sp)]
    BY <1>9 DEF RunPath
  <2>2. at \in {"run paths", "config", "done"} /\ at # "config"
    OBVIOUS
  <2>3. dir \in Dir => sp \in Current
    BY TreeAssumption DEF Current, SearchPath
  <2>. HIDE DEF dir, list, sp, at
  <2>4. queue' \in Seq(Current)
    <3>1. CASE dir \in Dir
      <4>1. Append(queue, sp) \in Seq(Current)
        BY <1>6, <2>3, <3>1
      <4>. QED
        BY <2>1, <3>1, <4>1
    <3>2. CASE dir \notin Dir
      BY <1>6, <2>1, <3>2
    <3>. QED
      BY <3>1, <3>2
  <2>5. DOMAIN files' = DOMAIN files /\ \A g \in DOMAIN files : g # f => files'[g] = files[g]
    BY <2>1
  <2>. QED
    BY <1>7, <2>1, <2>2, <2>4, <2>5
<1>10. CASE EndOfELF(f)
  <2>1. queue' = queue /\ DOMAIN files' = DOMAIN files /\ \A g \in DOMAIN files : g # f => files'[g] = files[g]
    BY <1>10 DEF EndOfELF
  <2>2. ConfigPaths(f) \in Seq(CurrentOrGone)
    <3>1. rules \in SetToSeqs(PrefixRules)
      BY DEF TypeInv
    <3>. QED
      BY <3>1, ConfigPathsIn DEF OneFileSystem
  <2>3. At(f, "config", ConfigPaths(f)) \/ At(f, "done", << >>)
    BY <1>10 DEF EndOfELF
  <2>. QED
    BY <1>6, <1>7, <2>1, <2>2, <2>3
<1>11. CASE AddConfigPath(f)
  <2>. DEFINE sp == Head(task[f].left)
  <2>1. /\ task[f].at = "config" /\ task[f].left # << >> /\ At(f, "config", Tail(task[f].left))
        /\ queue' = (IF sp.inode # 0 THEN Append(queue, sp) ELSE queue)
        /\ DOMAIN files' = DOMAIN files /\ \A g \in DOMAIN files : g # f => files'[g] = files[g]
    BY <1>11 DEF AddConfigPath, Running
  <2>2. task[f].left \in Seq(CurrentOrGone)
    BY <1>2, <1>6, <2>1
  <2>3. sp \in CurrentOrGone /\ Tail(task[f].left) \in Seq(CurrentOrGone)
    BY <2>1, <2>2, PushPop
  <2>4. sp.inode # 0 => sp \in Current
    BY <2>3 DEF CurrentOrGone, Current
  <2>5. queue' \in Seq(Current)
    BY <1>6, <2>1, <2>4
  <2>. QED
    BY <1>7, <2>1, <2>3, <2>5
<1>12. CASE EndOfTask(f)
  <2>1. At(f, "done", << >>) /\ queue' = queue /\ files' = files
    BY <1>12 DEF EndOfTask
  <2>. QED
    BY <1>6, <1>7, <2>1
<1>. QED
  BY <1>8, <1>9, <1>10, <1>11, <1>12 DEF Task

LEMMA RestKeeps ==
  ASSUME TypeInv, IInv, WaitAll \/ LdStart \/ LdOther \/ LdThrows \/ LdAdd \/ LdEnd \/ Fill
  PROVE  IInv' /\ Once
<1>. USE DEF walkVars, fileVars, ldVars
<1>1. StackInv /\ RequestInv /\ FileKeys /\ LinkKeys /\ InspectInv /\ NoInternalError
  BY InvParts
<1>2. pc # "done"
  BY DEF WaitAll, LdStart, LdOther, LdThrows, LdAdd, LdEnd, Fill, LdRow, AtLdEnd
<1>3. stack' = stack => Once
  <2>1. Len(stack) \in Nat
    BY TypeParts DEF WalkType, Frames
  <2>. QED
    BY <2>1 DEF Once
\* Nothing but the place in ldconfig's output changes.
<1>4. ASSUME UNCHANGED <<error, walkVars, fileVars, task>>, pc = "ldconfig", pc' \in {"ldconfig", "scan"}
      PROVE  IInv' /\ Once
  <2>1. StackInv' /\ RequestInv' /\ FileKeys' /\ LinkKeys' /\ InspectInv' /\ NoInternalError'
    BY <1>1, <1>2, <1>4 DEF StackInv, RequestInv, FileKeys, LinkKeys, InspectInv, NoInternalError
  <2>2. Once
    BY <1>3, <1>4
  <2>. QED
    BY <2>1, <2>2, InvParts, PTL
<1>5. CASE WaitAll
  <2>1. \A f \in DOMAIN task : task[f].at # "threw"
    BY <1>1 DEF InspectInv
  <2>2. /\ pc' = "scan" /\ iteration' = {} /\ task' = << >> /\ DOMAIN task' = {}
        /\ UNCHANGED <<error, second, walkVars, files, all, ldVars>>
    <3>1. /\ pc' = "scan" /\ iteration' = {} /\ task' = << >>
          /\ UNCHANGED <<error, second, walkVars, files, all, ldVars>>
      BY <1>5, <2>1 DEF WaitAll
    <3>. QED
      BY <3>1
  <2>3. StackInv' /\ RequestInv'
    BY <1>1, <1>2, <2>2 DEF StackInv, RequestInv
  <2>4. FileKeys' /\ LinkKeys'
    BY <1>1, <1>2, <2>2 DEF FileKeys, LinkKeys
  <2>5. InspectInv' /\ NoInternalError'
    BY <1>1, <2>2 DEF InspectInv, NoInternalError
  <2>6. Once
    BY <1>3, <2>2
  <2>. QED
    BY <2>3, <2>4, <2>5, <2>6, InvParts, PTL
<1>6. CASE LdStart
  <2>1. CASE ldconfig.count < 0
    BY <1>2, <1>6, <2>1, FailKeeps DEF LdStart
  <2>2. CASE ~ (ldconfig.count < 0)
    BY <1>4, <1>6, <2>2 DEF LdStart, LdUnchanged
  <2>. QED
    BY <2>1, <2>2
<1>7. CASE LdOther
  BY <1>4, <1>7 DEF LdOther, LdRow, LdUnchanged
<1>8. CASE LdThrows
  BY <1>2, <1>8, FailKeeps DEF LdThrows
<1>9. CASE LdAdd
  <2>. DEFINE path == LdLines[line].path
              f == LdReal(path)
  <2>1. /\ pc = "ldconfig" /\ f \in File /\ UNCHANGED <<pc, error, walkVars, task>>
        /\ IF path \in DOMAIN all \/ f \in DOMAIN all THEN UNCHANGED fileVars
           ELSE AddFile(f) /\ all' = WithFile(f)
    BY <1>9 DEF LdAdd, LdRow, LdUnchanged
  <2>. HIDE DEF f, path
  <2>2. CASE path \in DOMAIN all \/ f \in DOMAIN all
    BY <1>4, <2>1, <2>2
  <2>3. CASE ~(path \in DOMAIN all \/ f \in DOMAIN all)
    <3>1. AddFile(f) /\ all' = WithFile(f)
      BY <2>1, <2>3
    <3>2. /\ \A g \in File : g \in DOMAIN WithFile(f) <=> g \in DOMAIN files'
          /\ Link \cap DOMAIN WithFile(f) = Link \cap DOMAIN all
          /\ (\A g \in iteration : ~files[g].isInspected) => \A g \in iteration' : ~files'[g].isInspected
      BY <1>1, <1>2, <2>1, <3>1, AddFileKeys
    <3>3. StackInv' /\ RequestInv'
      BY <1>1, <1>2, <2>1 DEF StackInv, RequestInv
    <3>4. FileKeys' /\ LinkKeys'
      BY <1>1, <2>1, <3>1, <3>2 DEF FileKeys, LinkKeys
    <3>5. InspectInv' /\ NoInternalError'
      <4>1. task' = << >> /\ DOMAIN task' = {} /\ pc' = "ldconfig"
        BY <1>1, <2>1 DEF InspectInv
      <4>2. \A g \in iteration' : ~files'[g].isInspected
        BY <1>1, <2>1, <3>2 DEF InspectInv
      <4>. QED
        BY <1>1, <2>1, <4>1, <4>2 DEF InspectInv, NoInternalError
    <3>6. Once
      BY <1>3, <2>1
    <3>. QED
      BY <3>3, <3>4, <3>5, <3>6, InvParts, PTL
  <2>. QED
    BY <2>2, <2>3
<1>10. CASE LdEnd
  <2>1. CASE line < Len(LdLines) \/ line - 1 # ldconfig.count
    BY <1>2, <1>10, <2>1, FailKeeps DEF LdEnd
  <2>2. CASE ~(line < Len(LdLines) \/ line - 1 # ldconfig.count)
    BY <1>4, <1>10, <2>2 DEF LdEnd, AtLdEnd
  <2>. QED
    BY <2>1, <2>2
<1>11. CASE Fill
  <2>1. /\ pc = "fill" /\ pc' = "done" /\ all' = << >> /\ DOMAIN all' = {}
        /\ UNCHANGED <<error, second, queue, stack, scanned, iteration, files, task, line, ldCache>>
    BY <1>11 DEF Fill
  <2>2. StackInv' /\ RequestInv'
    BY <1>1, <2>1 DEF StackInv, RequestInv
  <2>3. FileKeys' /\ LinkKeys'
    BY <2>1 DEF FileKeys, LinkKeys
  <2>4. InspectInv' /\ NoInternalError'
    BY <1>1, <2>1 DEF InspectInv, NoInternalError
  <2>5. Once
    BY <1>3, <2>1
  <2>. QED
    BY <2>2, <2>3, <2>4, <2>5, InvParts, PTL
<1>. QED
  BY <1>5, <1>6, <1>7, <1>8, <1>9, <1>10, <1>11

LEMMA InvInit == ASSUME OneFileSystem, Init PROVE IInv
<1>1. /\ pc = "scan" /\ error = "none" /\ queue = ScanPaths /\ processedDirs = {} /\ scanned = {} /\ iteration = {}
      /\ task = << >> /\ DOMAIN task = {} /\ DOMAIN stack = {} /\ DOMAIN files = {} /\ DOMAIN all = {}
  BY DEF Init
<1>2. StackInv /\ RequestInv
  BY <1>1 DEF StackInv, RequestInv, OneFileSystem
<1>3. FileKeys /\ LinkKeys
  BY <1>1 DEF FileKeys, LinkKeys
<1>4. InspectInv /\ NoInternalError
  BY <1>1 DEF InspectInv, NoInternalError
<1>. QED
  BY <1>2, <1>3, <1>4, InvParts

LEMMA Step ==
  ASSUME OneFileSystem, TypeInv, IInv, [Next]_vars
  PROVE  IInv' /\ [Once]_vars
<1>1. CASE UNCHANGED vars
  <2>1. IInv'
    BY <1>1 DEF vars, systemVars, walkVars, fileVars, ldVars, IInv, WalkInv, AllInv, InspectInv, NoInternalError
  <2>. QED
    BY <1>1, <2>1
<1>2. CASE Next
  BY <1>1, <1>2, ScanKeeps, TaskKeeps, RestKeeps DEF Next, Main, Stopped
<1>. QED
  BY <1>1, <1>2

LEMMA Invariance == OneFileSystem => (Spec => []IInv /\ [][Once]_vars)
<1>. SUFFICES ASSUME OneFileSystem PROVE Spec => []IInv /\ [][Once]_vars
  OBVIOUS
<1>1. Init => IInv
  BY InvInit
<1>2. TypeInv /\ IInv /\ [Next]_vars => IInv' /\ [Once]_vars
  BY Step
<1>. QED
  BY <1>1, <1>2, TypeInvariance, PTL DEF Spec

\* Where inode numbers identify directories, no file is found new twice and no
\* file is given to a task twice, whatever the tree, the links in it and the
\* order of the tasks: neither check in the code ever throws.
THEOREM NoInternalErrorOccurs == OneFileSystem => (Spec => []NoInternalError)
<1>1. IInv => NoInternalError
  BY DEF IInv
<1>. QED
  BY Invariance, <1>1, PTL

\* Where inode numbers identify directories, no directory is scanned twice.
THEOREM NoDirScannedTwice == OneFileSystem => (Spec => DirScannedOnce)
<1>1. Once => (Len(stack') > Len(stack) => Head(stack').dir \notin scanned)
  BY DEF Once
<1>. QED
  BY Invariance, <1>1, PTL DEF DirScannedOnce

\* One more sequence behind those that were flattened.
LEMMA FlattenedMore ==
  ASSUME NEW S, NEW seqs \in Seq(Seq(S)), NEW last \in Seq(S)
  PROVE  FlattenSeq(Append(seqs, last)) = FlattenSeq(seqs) \o last
<1>. DEFINE more == Append(seqs, last)
<1>1. PICK n \in Nat : n = Len(seqs)
  OBVIOUS
<1>2. /\ more \in Seq(Seq(S)) /\ Len(more) = n + 1 /\ more[n + 1] = last /\ \A i \in 1..n : more[i] = seqs[i]
  BY <1>1
<1>. HIDE DEF more
<1>3. PICK h \in [1..(n + 1) -> Seq(S)] : Flattening(more, h, n + 1) /\ FlattenSeq(more) = h[n + 1]
  <2>1. Len(more) # 0
    BY <1>2
  <2>2. \E h \in [1..Len(more) -> Seq(S)] : Flattening(more, h, Len(more)) /\ FlattenSeq(more) = h[Len(more)]
    BY <1>2, <2>1, FlattenedBy
  <2>. QED
    BY <1>2, <2>2
<1>4. CASE n = 0
  <2>1. seqs = << >> /\ FlattenSeq(seqs) = seqs
    <3>1. Len(seqs) = 0
      BY <1>1, <1>4
    <3>2. FlattenSeq(seqs) = seqs
      BY <3>1, FlattenedNone, Zenon
    <3>. QED
      BY <3>1, <3>2
  <2>2. h[1] = last
    BY <1>2, <1>3, <1>4 DEF Flattening
  <2>3. << >> \o last = last
    OBVIOUS
  <2>4. FlattenSeq(more) = last
    BY <1>3, <1>4, <2>2
  <2>. QED
    BY <2>1, <2>3, <2>4, Zenon DEF more
<1>5. CASE n # 0
  <2>1. PICK g \in [1..n -> Seq(S)] : Flattening(seqs, g, n) /\ FlattenSeq(seqs) = g[n]
    BY <1>1, <1>5, FlattenedBy
  <2>. DEFINE Wrong == {i \in 1..n : h[i] # g[i]}
  <2>2. Wrong = {}
    <3>. SUFFICES ASSUME Wrong # {} PROVE FALSE
      OBVIOUS
    <3>1. PICK i \in Wrong : \A j \in Wrong : i <= j
      <4>1. Wrong \in SUBSET Nat
        OBVIOUS
      <4>. HIDE DEF Wrong
      <4>. QED
        BY <4>1, LeastElement
    <3>2. i \in 1..n /\ i \in 1..(n + 1) /\ h[i] # g[i]
      OBVIOUS
    <3>3. h[i] = IF i = 1 THEN seqs[i] ELSE h[i - 1] \o seqs[i]
      BY <1>2, <1>3, <3>2 DEF Flattening
    <3>4. g[i] = IF i = 1 THEN seqs[i] ELSE g[i - 1] \o seqs[i]
      BY <2>1, <3>2 DEF Flattening
    <3>5. i # 1 => i - 1 \in 1..n /\ i - 1 \notin Wrong
      BY <3>1, <3>2
    <3>. QED
      BY <3>2, <3>3, <3>4, <3>5
  <2>3. n \in 1..n /\ n \notin Wrong
    <3>1. n \in 1..n
      BY <1>5
    <3>2. n \notin Wrong
      BY <2>2, Zenon
    <3>. QED
      BY <3>1, <3>2, Zenon
  <2>4. h[n + 1] = h[n] \o last
    <3>1. n + 1 \in 1..(n + 1) /\ n + 1 # 1 /\ (n + 1) - 1 = n
      BY <1>5
    <3>2. h[n + 1] = h[(n + 1) - 1] \o more[n + 1]
      BY <1>3, <3>1 DEF Flattening
    <3>. QED
      BY <1>2, <3>1, <3>2
  <2>5. h[n] = g[n]
    BY <2>3
  <2>6. FlattenSeq(more) = FlattenSeq(seqs) \o last
    BY <1>3, <2>1, <2>4, <2>5, Zenon
  <2>. QED
    BY <2>6 DEF more
<1>. QED
  BY <1>4, <1>5

-----------------------------------------------------------------------------
(* What ELFInspector makes of an image.                                    *)

\* The loop over the sections ends somewhere.
LEMMA LoopEnds ==
  ASSUME NEW c, c.sections \in Seq(Range(c.sections))
  PROVE  LET n == LoopEnd(c, FALSE)
         IN  /\ n \in 1 .. Len(c.sections) + 1
             /\ n \in DOMAIN c.sections => ThrowsAt(c, n, FALSE)
             /\ \A i \in 1 .. n - 1 : ~ThrowsAt(c, i, FALSE)
<1>. DEFINE Ends(n) == n \in DOMAIN c.sections => ThrowsAt(c, n, FALSE) \/ (FALSE /\ Dynamic(c, n))
            Before(n) == \A i \in 1 .. n - 1 : ~ThrowsAt(c, i, FALSE) /\ ~(FALSE /\ Dynamic(c, i))
            S == {n \in 1 .. Len(c.sections) + 1 : Ends(n)}
<1>1. PICK m \in Nat : m = Len(c.sections) /\ DOMAIN c.sections = 1 .. m
  OBVIOUS
<1>2. S \in SUBSET Nat /\ S # {}
  <2>1. m + 1 \in 1 .. m + 1 /\ m + 1 \notin 1 .. m
    OBVIOUS
  <2>2. m + 1 \in S
    BY <1>1, <2>1, Zenon
  <2>3. S \subseteq 1 .. m + 1
    BY <1>1
  <2>4. 1 .. m + 1 \subseteq Nat
    OBVIOUS
  <2>. HIDE DEF S
  <2>. QED
    BY <2>2, <2>3, <2>4
<1>3. PICK n \in S : \A j \in S : n <= j
  <2>. HIDE DEF S
  <2>. QED
    BY <1>2, LeastElement
<1>4. ASSUME NEW i \in 1 .. n - 1
      PROVE  ~ThrowsAt(c, i, FALSE)
  <2>1. n \in 1 .. m + 1
    BY <1>1, <1>3
  <2>2. i \in 1 .. m + 1 /\ ~(n <= i)
    BY <2>1
  <2>3. ~Ends(i)
    BY <1>1, <1>3, <2>2
  <2>. QED
    BY <2>3
<1>5. n \in 1 .. Len(c.sections) + 1 /\ Ends(n) /\ Before(n)
  BY <1>3, <1>4
<1>6. LoopEnd(c, FALSE) = CHOOSE k \in 1 .. Len(c.sections) + 1 : Ends(k) /\ Before(k)
  BY DEF LoopEnd
<1>. HIDE DEF Ends, Before
<1>7. /\ LoopEnd(c, FALSE) \in 1 .. Len(c.sections) + 1 /\ Ends(LoopEnd(c, FALSE)) /\ Before(LoopEnd(c, FALSE))
  BY <1>5, <1>6
<1>. QED
  BY <1>7 DEF Ends, Before

LEMMA ScannedType ==
  ASSUME NEW c, IsImage(c)
  PROVE  /\ Scanned(c) \in Seq(Range(Scanned(c)))
         /\ \A e \in Range(Scanned(c)) :
              e.tag = "NEEDED" \/ (e.tag \in {"RPATH", "RUNPATH"} /\ e.parts \in Seq(Range(e.parts)))
<1>. DEFINE here == {i \in 1 .. LoopEnd(c, FALSE) - 1 : Dynamic(c, i)}
            k == CHOOSE i \in here : TRUE
<1>1. CASE HasSections(c) /\ here # {}
  <2>1. k \in here
    BY <1>1
  <2>2. PICK m \in Nat : m = Len(c.sections) /\ DOMAIN c.sections = 1 .. m
    BY DEF IsImage
  <2>3. LoopEnd(c, FALSE) \in 1 .. m + 1
    BY <2>2, LoopEnds DEF IsImage
  <2>4. k \in DOMAIN c.sections /\ c.sections[k].type = "DYNAMIC"
    <3>1. PICK n \in 1 .. m + 1 : n = LoopEnd(c, FALSE)
      BY <2>3
    <3>2. Dynamic(c, k) /\ k \in 1 .. n - 1
      BY <2>1, <3>1
    <3>. QED
      BY <2>2, <3>2 DEF Dynamic
  <2>. HIDE DEF k, here
  <2>5. IsSection(c.sections[k])
    BY <2>4 DEF IsImage, Range
  <2>6. Scanned(c) = c.sections[k].entries
    BY <1>1 DEF Scanned, here, k
  <2>. QED
    BY <2>4, <2>5, <2>6 DEF IsSection
<1>2. CASE ~(HasSections(c) /\ here # {})
  <2>1. Scanned(c) = << >>
    BY <1>2 DEF Scanned
  <2>2. DOMAIN << >> = {}
    OBVIOUS
  <2>3. Range(Scanned(c)) = {}
    BY <2>1, <2>2 DEF Range
  <2>. QED
    BY <2>1, <2>3
<1>. QED
  BY <1>1, <1>2

\* Run paths, whatever their parts are.
AnyPart(c) == UNION {Range(e.parts) : e \in Range(Scanned(c))}
AnyRunPath(c) == [list : {"rPaths", "runPaths"}, part : AnyPart(c)]

LEMMA RunPathsType == ASSUME NEW c, IsImage(c) PROVE RunPathsIn(c) \in Seq(AnyRunPath(c))
<1>1. PICK s : s = Scanned(c)
  OBVIOUS
<1>2. /\ s \in Seq(Range(s))
      /\ \A e \in Range(s) : e.tag = "NEEDED" \/ (e.tag \in {"RPATH", "RUNPATH"} /\ e.parts \in Seq(Range(e.parts)))
  BY <1>1, ScannedType
<1>3. PICK n \in Nat : n = Len(s) /\ DOMAIN s = 1..n
  BY <1>2
<1>4. ASSUME NEW i \in 1..n
      PROVE  PartsOf(s[i]) \in Seq(AnyRunPath(c))
  <2>1. PICK e : e = s[i]
    OBVIOUS
  <2>2. e \in Range(s)
    BY <1>3, <2>1 DEF Range
  <2>3. CASE e.tag = "NEEDED"
    BY <2>1, <2>3 DEF PartsOf
  <2>4. CASE e.tag # "NEEDED"
    <3>1. e.parts \in Seq(Range(e.parts))
      BY <1>2, <2>2, <2>4
    <3>2. PICK m \in Nat : m = Len(e.parts) /\ DOMAIN e.parts = 1..m
      BY <3>1
    <3>3. \A j \in 1..m : e.parts[j] \in AnyPart(c)
      BY <1>1, <2>2, <3>2 DEF AnyPart, Range
    <3>4. PartsOf(e) = [j \in 1..m |-> [list |-> IF e.tag = "RPATH" THEN "rPaths" ELSE "runPaths", part |-> e.parts[j]]]
      BY <2>4, <3>2 DEF PartsOf
    <3>5. \A j \in 1..m : [list |-> IF e.tag = "RPATH" THEN "rPaths" ELSE "runPaths", part |-> e.parts[j]] \in AnyRunPath(c)
      BY <3>3 DEF AnyRunPath
    <3>6. PartsOf(e) \in [1..m -> AnyRunPath(c)]
      BY <3>4, <3>5
    <3>. QED
      BY <2>1, <3>6
  <2>. QED
    BY <2>3, <2>4
<1>5. PICK split : split = [i \in 1..n |-> PartsOf(s[i])]
  OBVIOUS
<1>6. split \in [1..n -> Seq(AnyRunPath(c))]
  BY <1>4, <1>5
<1>7. split \in Seq(Seq(AnyRunPath(c)))
  BY <1>6
<1>8. FlattenSeq(split) \in Seq(AnyRunPath(c))
  BY <1>7, Flattened
<1>9. RunPathsIn(c) = FlattenSeq(split)
  BY <1>1, <1>3, <1>5, Zenon DEF RunPathsIn
<1>. QED
  BY <1>8, <1>9

\* The flags are set for a file with one DYNAMIC section, a sound one, and no
\* section that cannot be read.
LEMMA FlagsAreSet ==
  ASSUME NEW c, IsImage(c)
  PROVE  HasSections(c) /\ ~Throws(c, FALSE) /\ FoundDynamic(c, FALSE)
         <=> LET dynamic == {i \in DOMAIN c.sections : c.sections[i].type = "DYNAMIC"}
             IN  /\ c.header \in {"ET_EXEC", "ET_DYN"}
                 /\ \A i \in DOMAIN c.sections : c.sections[i].type # "unreadable"
                 /\ Cardinality(dynamic) = 1 /\ \A i \in dynamic : c.sections[i].sound
<1>. DEFINE dynamic == {i \in DOMAIN c.sections : c.sections[i].type = "DYNAMIC"}
            Whole == /\ \A i \in DOMAIN c.sections : c.sections[i].type # "unreadable"
                     /\ Cardinality(dynamic) = 1 /\ \A i \in dynamic : c.sections[i].sound
<1>1. PICK m \in Nat : m = Len(c.sections) /\ DOMAIN c.sections = 1 .. m
  BY DEF IsImage
<1>2. PICK n \in 1 .. m + 1 : n = LoopEnd(c, FALSE)
  BY <1>1, LoopEnds DEF IsImage
<1>3. (n \in 1 .. m => ThrowsAt(c, n, FALSE)) /\ \A i \in 1 .. n - 1 : ~ThrowsAt(c, i, FALSE)
  BY <1>1, <1>2, LoopEnds DEF IsImage
<1>4. ASSUME ~Throws(c, FALSE), FoundDynamic(c, FALSE)
      PROVE  Whole
  <2>0. n \notin 1 .. m
    BY <1>1, <1>2, <1>3, <1>4, Zenon DEF Throws
  <2>1. n = m + 1 /\ \A i \in 1 .. m : i \in 1 .. n - 1
    BY <2>0
  <2>2. \A i \in 1 .. m : ~ThrowsAt(c, i, FALSE)
    BY <1>3, <2>1, Zenon
  <2>3. PICK k \in 1 .. m : Dynamic(c, k)
    BY <1>1, <1>4 DEF FoundDynamic
  <2>4. ASSUME NEW i \in 1 .. m, Dynamic(c, i)
        PROVE  i = k
    <3>1. ~(k < i) /\ ~(i < k)
      <4>1. CASE k < i
        <5>1. k \in 1 .. i - 1
          BY <2>3, <4>1
        <5>. QED
          BY <2>2, <2>3, <2>4, <5>1 DEF ThrowsAt
      <4>2. CASE i < k
        <5>1. i \in 1 .. k - 1
          BY <4>2
        <5>. QED
          BY <2>2, <2>3, <2>4, <5>1 DEF ThrowsAt
      <4>. QED
        BY <4>1, <4>2
    <3>. QED
      BY <3>1
  <2>5. dynamic = {k}
    BY <1>1, <2>3, <2>4 DEF Dynamic
  <2>6. Cardinality(dynamic) = 1
    <3>. HIDE DEF dynamic
    <3>. QED
      BY <2>5, FS_Singleton
  <2>7. \A i \in DOMAIN c.sections : c.sections[i].type # "unreadable"
    BY <1>1, <2>2 DEF ThrowsAt
  <2>8. \A i \in dynamic : c.sections[i].sound
    BY <1>1, <2>2 DEF ThrowsAt, Dynamic
  <2>. QED
    BY <2>6, <2>7, <2>8
<1>5. ASSUME Whole
      PROVE  ~Throws(c, FALSE) /\ FoundDynamic(c, FALSE)
  <2>0. IsFiniteSet(dynamic)
    <3>1. IsFiniteSet(1 .. m)
      BY FS_Interval
    <3>2. dynamic \subseteq 1 .. m
      BY <1>1
    <3>. HIDE DEF dynamic
    <3>. QED
      BY <3>1, <3>2, FS_Subset
  <2>1. PICK k : dynamic = {k}
    <3>. HIDE DEF dynamic
    <3>. QED
      BY <1>5, <2>0, FS_Singleton DEF Whole
  <2>2. k \in 1 .. m /\ Dynamic(c, k)
    <3>1. k \in dynamic
      BY <2>1
    <3>. QED
      BY <1>1, <3>1 DEF Dynamic
  <2>3. ASSUME NEW i \in 1 .. m
        PROVE  ~ThrowsAt(c, i, FALSE)
    <3>1. c.sections[i].type # "unreadable"
      BY <1>1, <1>5
    <3>2. Dynamic(c, i) => i = k /\ c.sections[i].sound
      <4>1. Dynamic(c, i) => i \in dynamic
        BY <1>1 DEF Dynamic
      <4>. QED
        BY <1>5, <2>1, <4>1
    <3>3. \A j \in 1 .. i - 1 : j \in 1 .. m /\ j # i /\ (Dynamic(c, j) => j = k)
      <4>1. \A j \in 1 .. m : Dynamic(c, j) => j \in dynamic
        BY <1>1 DEF Dynamic
      <4>2. \A j \in 1 .. i - 1 : j \in 1 .. m /\ j # i
        OBVIOUS
      <4>. QED
        BY <2>1, <4>1, <4>2
    <3>. QED
      BY <3>1, <3>2, <3>3 DEF ThrowsAt
  <2>4. n \notin 1 .. m
    BY <1>3, <2>3, Zenon
  <2>5. ~Throws(c, FALSE)
    BY <1>1, <1>2, <2>4, Zenon DEF Throws
  <2>6. FoundDynamic(c, FALSE)
    <3>1. k <= n
      BY <2>2, <2>4
    <3>. QED
      BY <1>1, <1>2, <2>2, <3>1, Zenon DEF FoundDynamic
  <2>. QED
    BY <2>5, <2>6
<1>. HIDE DEF Whole
<1>6. HasSections(c) /\ ~Throws(c, FALSE) /\ FoundDynamic(c, FALSE) <=> c.header \in {"ET_EXEC", "ET_DYN"} /\ Whole
  BY <1>4, <1>5 DEF HasSections
<1>. QED
  BY <1>6 DEF Whole
-----------------------------------------------------------------------------
(* The run paths of a file, and what is chosen at the start.               *)

SystemInv ==
  /\ \A f \in File : IsImage(image[f])
  /\ ldconfig.count \in Int /\ LdLines \in Seq(Range(LdLines))

Parts(f) == RunPathsIn(image[f])
DirsTo(f, n) == {Target(f, Parts(f)[i].part) : i \in 1..n} \cap Dir
Taken(f, list, n) == FlattenSeq([i \in 1..n |-> DirIn(f, list, Parts(f)[i])])

\* The first n run paths of f do not throw.
FineTo(f, n) == \A i \in 1..n : Target(f, Parts(f)[i].part) # Unresolvable

LEMMA PartsType ==
  ASSUME SystemInv, NEW f \in File
  PROVE  /\ Parts(f) \in Seq(AnyRunPath(image[f])) /\ Len(Parts(f)) \in Nat /\ DOMAIN Parts(f) = 1..Len(Parts(f))
         /\ \A i \in 1..Len(Parts(f)) : Parts(f)[i].list \in {"rPaths", "runPaths"}
<1>1. Parts(f) \in Seq(AnyRunPath(image[f]))
  BY RunPathsType DEF SystemInv, Parts
<1>2. \A i \in 1..Len(Parts(f)) : Parts(f)[i] \in AnyRunPath(image[f])
  BY <1>1
<1>. QED
  BY <1>1, <1>2 DEF AnyRunPath

LEMMA RunPathsReadAre ==
  ASSUME SystemInv, NEW f \in File, NEW n \in Nat, n <= Len(Parts(f)), FineTo(f, n)
  PROVE  \E k \in n..Len(Parts(f)) :
           /\ RunDirs(f) = DirsTo(f, k)
           /\ n < Len(Parts(f)) => k > n
           /\ n < Len(Parts(f)) /\ Target(f, Parts(f)[n + 1].part) = Unresolvable => k = n + 1
           /\ n = Len(Parts(f)) => RunPathsRead(f) = Parts(f)
<1>. DEFINE bad == {i \in DOMAIN Parts(f) : Target(f, Parts(f)[i].part) = Unresolvable}
<1>1. PICK parts \in Seq(AnyRunPath(image[f])) : parts = Parts(f)
  BY PartsType
<1>2. PICK m \in Nat : m = Len(parts) /\ DOMAIN parts = 1..m
  BY <1>1
<1>3. bad \subseteq 1..m /\ \A i \in bad : i > n
  <2>1. ASSUME NEW i \in bad PROVE i \in 1..m /\ i > n
    <3>1. i \in 1..m /\ Target(f, Parts(f)[i].part) = Unresolvable
      BY <1>1, <1>2
    <3>2. i \notin 1..n
      BY <3>1 DEF FineTo
    <3>. QED
      BY <3>1, <3>2
  <2>. QED
    BY <2>1
<1>4. ASSUME NEW k \in 0..m, NEW read, read \in Seq(AnyRunPath(image[f])), Len(read) = k,
             \A i \in 1..k : read[i] = parts[i], read = RunPathsRead(f)
      PROVE  RunDirs(f) = DirsTo(f, k)
  <2>1. Range(read) = {Parts(f)[i] : i \in 1..k}
    <3>1. DOMAIN read = 1..k
      BY <1>4
    <3>2. Range(read) = {read[i] : i \in 1..k}
      BY <3>1 DEF Range
    <3>. QED
      BY <1>1, <1>4, <3>2
  <2>2. RunDirs(f) = {Target(f, p.part) : p \in {Parts(f)[i] : i \in 1..k}} \cap Dir
    BY <1>4, <2>1 DEF RunDirs
  <2>. QED
    BY <2>2 DEF DirsTo
<1>5. CASE bad = {}
  <2>1. RunPathsRead(f) = parts
    BY <1>1, <1>5 DEF RunPathsRead, Parts
  <2>2. RunDirs(f) = DirsTo(f, m)
    BY <1>2, <1>4, <2>1
  <2>3. ~(n < m /\ Target(f, Parts(f)[n + 1].part) = Unresolvable)
    <3>1. n < m => n + 1 \in DOMAIN Parts(f)
      BY <1>1, <1>2
    <3>. QED
      BY <1>5, <3>1
  <2>. QED
    BY <1>1, <1>2, <2>1, <2>2, <2>3
<1>6. CASE bad # {}
  <2>. DEFINE least == CHOOSE i \in bad : \A j \in bad : i <= j
  <2>1. least \in bad /\ \A j \in bad : least <= j
    <3>1. bad \in SUBSET Nat
      BY <1>3
    <3>. HIDE DEF bad
    <3>2. \E i \in bad : \A j \in bad : i <= j
      BY <1>6, <3>1, LeastElement
    <3>. QED
      BY <3>2
  <2>2. PICK k : k = least
    OBVIOUS
  <2>3. k \in 1..m /\ k > n /\ k \in bad
    BY <1>3, <2>1, <2>2
  <2>4. RunPathsRead(f) = SubSeq(parts, 1, k)
    <3>1. RunPathsRead(f) = SubSeq(Parts(f), 1, least)
      BY <1>6 DEF RunPathsRead, Parts
    <3>. HIDE DEF least
    <3>. QED
      BY <1>1, <2>2, <3>1
  <2>5. SubSeq(parts, 1, k) \in Seq(AnyRunPath(image[f])) /\ Len(SubSeq(parts, 1, k)) = k
        /\ \A i \in 1..k : SubSeq(parts, 1, k)[i] = parts[i]
    BY <1>1, <1>2, <2>3
  <2>6. RunDirs(f) = DirsTo(f, k)
    <3>1. k \in 0..m
      BY <2>3
    <3>. HIDE DEF bad, least
    <3>. QED
      BY <1>4, <2>4, <2>5, <3>1
  <2>7. n < m
    BY <1>1, <1>2, <2>3
  <2>8. Target(f, Parts(f)[n + 1].part) = Unresolvable => k = n + 1
    <3>1. n + 1 \in DOMAIN Parts(f)
      BY <1>1, <1>2, <2>7
    <3>2. Target(f, Parts(f)[n + 1].part) = Unresolvable => k <= n + 1
      BY <2>1, <2>2, <3>1
    <3>. QED
      BY <2>3, <3>2
  <2>. QED
    BY <1>1, <1>2, <2>3, <2>6, <2>7, <2>8
<1>. QED
  BY <1>5, <1>6

\* The directories that the first n run paths name, and the next one's.
LEMMA RunDirsAre ==
  ASSUME SystemInv, NEW f \in File, NEW n \in Nat, n <= Len(Parts(f)), FineTo(f, n)
  PROVE  /\ DirsTo(f, n) \subseteq RunDirs(f)
         /\ n < Len(Parts(f)) =>
              LET next == Target(f, Parts(f)[n + 1].part)
              IN  /\ DirsTo(f, n + 1) = DirsTo(f, n) \cup ({next} \cap Dir)
                  /\ next \in Dir => next \in RunDirs(f)
                  /\ next = Unresolvable => RunDirs(f) = DirsTo(f, n)
         /\ n = Len(Parts(f)) => RunPathsRead(f) = Parts(f) /\ RunDirs(f) = DirsTo(f, n)
<1>1. PICK m \in Nat : m = Len(Parts(f))
  BY PartsType
<1>2. PICK k \in n..m :
           /\ RunDirs(f) = DirsTo(f, k)
           /\ n < m => k > n
           /\ n < m /\ Target(f, Parts(f)[n + 1].part) = Unresolvable => k = n + 1
           /\ n = m => RunPathsRead(f) = Parts(f)
  BY <1>1, RunPathsReadAre
<1>3. DirsTo(f, n) \subseteq RunDirs(f)
  <2>1. 1..n \subseteq 1..k
    BY <1>2
  <2>. QED
    BY <1>2, <2>1 DEF DirsTo
<1>4. ASSUME n < m
      PROVE  LET next == Target(f, Parts(f)[n + 1].part)
             IN  /\ DirsTo(f, n + 1) = DirsTo(f, n) \cup ({next} \cap Dir)
                 /\ next \in Dir => next \in RunDirs(f)
                 /\ next = Unresolvable => RunDirs(f) = DirsTo(f, n)
  <2>. DEFINE next == Target(f, Parts(f)[n + 1].part)
  <2>1. 1..(n + 1) = 1..n \cup {n + 1} /\ n + 1 \in 1..k
    BY <1>2, <1>4
  <2>2. DirsTo(f, n + 1) = DirsTo(f, n) \cup ({next} \cap Dir)
    BY <2>1 DEF DirsTo
  <2>3. next \in Dir => next \in RunDirs(f)
    BY <1>2, <2>1 DEF DirsTo
  <2>4. next = Unresolvable => RunDirs(f) = DirsTo(f, n)
    <3>1. Unresolvable \notin Dir
      BY TreeAssumption DEF Nowhere
    <3>. HIDE DEF next
    <3>2. next = Unresolvable => DirsTo(f, n + 1) = DirsTo(f, n)
      BY <2>2, <3>1
    <3>. QED
      BY <1>2, <1>4, <3>2 DEF next
  <2>. QED
    BY <2>2, <2>3, <2>4
<1>5. n = m => RunPathsRead(f) = Parts(f) /\ RunDirs(f) = DirsTo(f, n)
  BY <1>2
<1>. QED
  BY <1>1, <1>3, <1>4, <1>5

\* The directories of one list, in order.
LEMMA TakenMore ==
  ASSUME SystemInv, NEW f \in File, NEW list
  PROVE  /\ Taken(f, list, 0) = << >>
         /\ \A n \in Nat : n < Len(Parts(f)) =>
              Taken(f, list, n + 1) = Taken(f, list, n) \o DirIn(f, list, Parts(f)[n + 1])
         /\ \A n \in Nat : n <= Len(Parts(f)) => Taken(f, list, n) \in Seq(Dir)
         /\ RunPathsRead(f) = Parts(f) => ListOf(f, list) = Taken(f, list, Len(Parts(f)))
<1>. DEFINE To(n) == [i \in 1..n |-> DirIn(f, list, Parts(f)[i])]
<1>1. PICK m \in Nat : m = Len(Parts(f)) /\ DOMAIN Parts(f) = 1..m
  BY PartsType
<1>2. \A p : DirIn(f, list, p) \in Seq(Dir)
  BY DEF DirIn
<1>3. \A n \in Nat : To(n) \in [1..n -> Seq(Dir)]
  BY <1>2
<1>4. \A n \in Nat : To(n) \in Seq(Seq(Dir)) /\ Len(To(n)) = n
  BY <1>3
<1>5. \A n \in Nat : To(n + 1) = Append(To(n), DirIn(f, list, Parts(f)[n + 1]))
  BY <1>4
<1>. HIDE DEF To
<1>6. \A n \in Nat : Taken(f, list, n) = FlattenSeq(To(n))
  BY DEF Taken, To
<1>7. Taken(f, list, 0) = << >>
  <2>1. To(0) = << >> /\ Len(To(0)) = 0
    BY <1>4
  <2>2. FlattenSeq(To(0)) = To(0)
    BY <2>1, FlattenedNone, Zenon
  <2>. QED
    BY <1>6, <2>1, <2>2, Zenon
<1>8. ASSUME NEW n \in Nat
      PROVE  /\ Taken(f, list, n + 1) = Taken(f, list, n) \o DirIn(f, list, Parts(f)[n + 1])
             /\ Taken(f, list, n) \in Seq(Dir)
  <2>1. PICK more \in Seq(Dir) : more = DirIn(f, list, Parts(f)[n + 1])
    BY <1>2
  <2>2. PICK seqs \in Seq(Seq(Dir)) : seqs = To(n)
    BY <1>4
  <2>3. FlattenSeq(Append(seqs, more)) = FlattenSeq(seqs) \o more
    BY FlattenedMore
  <2>4. FlattenSeq(seqs) \in Seq(Dir)
    BY Flattened
  <2>5. n + 1 \in Nat
    OBVIOUS
  <2>6. Taken(f, list, n + 1) = FlattenSeq(Append(seqs, more)) /\ Taken(f, list, n) = FlattenSeq(seqs)
    BY <1>5, <1>6, <2>1, <2>2, <2>5, Zenon
  <2>. QED
    BY <2>1, <2>3, <2>4, <2>6, Zenon
<1>9. RunPathsRead(f) = Parts(f) => ListOf(f, list) = Taken(f, list, m)
  BY <1>1 DEF ListOf, Taken
<1>. QED
  BY <1>1, <1>7, <1>8, <1>9

\* Nothing that depends on the system alone changes.
LEMMA SystemKept ==
  ASSUME UNCHANGED systemVars, NEW f
  PROVE  /\ image' = image /\ ldconfig' = ldconfig /\ rules' = rules
         /\ Parts(f)' = Parts(f) /\ ConfigPaths(f)' = ConfigPaths(f)
         /\ IsDynamic(f)' = IsDynamic(f)
         /\ RunDirs(f)' = RunDirs(f) /\ ConfigDirs(f)' = ConfigDirs(f)
         /\ \A list : ListOf(f, list)' = ListOf(f, list)
         /\ \A list, n : Taken(f, list, n)' = Taken(f, list, n)
         /\ \A n : FineTo(f, n)' = FineTo(f, n) /\ DirsTo(f, n)' = DirsTo(f, n)
<1>1. image' = image /\ ldconfig' = ldconfig /\ rules' = rules
  BY DEF systemVars
<1>2. Parts(f)' = Parts(f) /\ ConfigPaths(f)' = ConfigPaths(f)
  BY <1>1 DEF Parts, ConfigPaths
<1>3. IsDynamic(f)' = IsDynamic(f)
  BY <1>1 DEF IsDynamic
<1>4. RunPathsRead(f)' = RunPathsRead(f)
  BY <1>1 DEF RunPathsRead
<1>5. RunDirs(f)' = RunDirs(f)
  BY <1>4 DEF RunDirs
<1>6. ConfigDirs(f)' = ConfigDirs(f)
  BY <1>2, <1>3 DEF ConfigDirs
<1>7. \A list : ListOf(f, list)' = ListOf(f, list)
  BY <1>4 DEF ListOf
<1>8. \A list, n : Taken(f, list, n)' = Taken(f, list, n)
  BY <1>2 DEF Taken
<1>9. \A n : FineTo(f, n)' = FineTo(f, n) /\ DirsTo(f, n)' = DirsTo(f, n)
  BY <1>2 DEF FineTo, DirsTo
<1>. QED
  BY <1>1, <1>2, <1>3, <1>5, <1>6, <1>7, <1>8, <1>9
-----------------------------------------------------------------------------
(* The record of a file, from the step that finds it to its last.          *)

\* left is the end of s.
IsRest(left, s) ==
  /\ left \in Seq(Range(s)) /\ Len(left) <= Len(s)
  /\ \A i \in 1..Len(left) : left[i] = s[Len(s) - Len(left) + i]

LEMMA RestOf ==
  ASSUME NEW S, NEW s \in Seq(S), NEW left, IsRest(left, s)
  PROVE  /\ Len(left) \in Nat /\ Len(s) - Len(left) \in Nat
         /\ left # << >> => /\ IsRest(Tail(left), s) /\ Len(Tail(left)) = Len(left) - 1 /\ Len(left) > 0
                            /\ Head(left) = s[(Len(s) - Len(left)) + 1]
         /\ left = << >> => Len(left) = 0
         /\ IsRest(s, s)
<1>1. PICK n \in Nat : n = Len(s) /\ DOMAIN s = 1..n
  OBVIOUS
<1>2. PICK T : T = Range(s)
  OBVIOUS
<1>3. \A i \in 1..n : s[i] \in T
  BY <1>1, <1>2 DEF Range
<1>4. s \in Seq(T)
  <2>1. s = [i \in 1..n |-> s[i]]
    BY <1>1
  <2>2. [i \in 1..n |-> s[i]] \in [1..n -> T]
    BY <1>3
  <2>. QED
    BY <2>1, <2>2
<1>5. left \in Seq(T) /\ Len(left) <= n /\ \A i \in 1..Len(left) : left[i] = s[n - Len(left) + i]
  BY <1>1, <1>2 DEF IsRest
<1>6. PICK k \in Nat : k = Len(left)
  BY <1>5
<1>7. ASSUME left # << >>
      PROVE  /\ IsRest(Tail(left), s) /\ Len(Tail(left)) = k - 1 /\ k > 0
             /\ Head(left) = s[(n - k) + 1]
  <2>1. /\ Tail(left) \in Seq(T) /\ Len(Tail(left)) = k - 1 /\ k > 0 /\ Head(left) = left[1]
        /\ \A i \in 1..(k - 1) : Tail(left)[i] = left[i + 1]
    BY <1>5, <1>6, <1>7, PushPop
  <2>2. Head(left) = s[(n - k) + 1]
    BY <1>5, <1>6, <2>1
  <2>3. ASSUME NEW i \in 1..(k - 1)
        PROVE  Tail(left)[i] = s[n - (k - 1) + i]
    <3>1. i + 1 \in 1..k /\ n - k + (i + 1) = n - (k - 1) + i
      BY <1>6
    <3>. QED
      BY <1>5, <1>6, <2>1, <3>1
  <2>4. IsRest(Tail(left), s)
    BY <1>1, <1>2, <1>5, <1>6, <2>1, <2>3 DEF IsRest
  <2>. QED
    BY <2>1, <2>2, <2>4
<1>8. IsRest(s, s)
  BY <1>1, <1>2, <1>4 DEF IsRest
<1>. QED
  BY <1>1, <1>5, <1>6, <1>7, <1>8

LEMMA Appended ==
  ASSUME NEW S, NEW s \in Seq(S), NEW x \in S, NEW n \in Nat, n = Len(s)
  PROVE  /\ Append(s, x) \in Seq(S) /\ Len(Append(s, x)) = n + 1 /\ Append(s, x)[n + 1] = x
         /\ \A i \in 1..n : Append(s, x)[i] = s[i]
OBVIOUS

LEMMA AppendHead ==
  ASSUME NEW S, NEW s \in Seq(S), NEW left \in Seq(S), left # << >>
  PROVE  Append(s, Head(left)) \o Tail(left) = s \o left
<1>1. PICK n \in Nat : n = Len(s)
  OBVIOUS
<1>2. PICK k \in Nat : k = Len(left) /\ k > 0
  OBVIOUS
<1>3. /\ Tail(left) \in Seq(S) /\ Len(Tail(left)) = k - 1 /\ Head(left) = left[1] /\ Head(left) \in S
      /\ \A i \in 1..(k - 1) : Tail(left)[i] = left[i + 1]
  BY <1>2, PushPop
<1>4. PICK one \in Seq(S) : one = Append(s, Head(left)) /\ Len(one) = n + 1
                            /\ one[n + 1] = left[1] /\ \A i \in 1..n : one[i] = s[i]
  <2>1. PICK x \in S : x = left[1] /\ x = Head(left)
    BY <1>3
  <2>2. /\ Append(s, x) \in Seq(S) /\ Len(Append(s, x)) = n + 1 /\ Append(s, x)[n + 1] = x
        /\ \A i \in 1..n : Append(s, x)[i] = s[i]
    BY <1>1, Appended
  <2>. QED
    BY <2>1, <2>2, Zenon
<1>5. PICK rest \in Seq(S) : rest = Tail(left)
  BY <1>3
<1>6. /\ one \o rest \in Seq(S) /\ Len(one \o rest) = n + k
      /\ \A i \in 1..(n + k) : (one \o rest)[i] = IF i <= n + 1 THEN one[i] ELSE rest[i - (n + 1)]
  <2>1. /\ one \o rest \in Seq(S) /\ Len(one \o rest) = Len(one) + Len(rest)
        /\ \A i \in 1..(Len(one) + Len(rest)) : (one \o rest)[i] = IF i <= Len(one) THEN one[i] ELSE rest[i - Len(one)]
    BY ConcatProperties
  <2>2. Len(one) = n + 1 /\ Len(rest) = k - 1 /\ (n + 1) + (k - 1) = n + k
    BY <1>3, <1>4, <1>5
  <2>. QED
    BY <2>1, <2>2
<1>7. /\ s \o left \in Seq(S) /\ Len(s \o left) = n + k
      /\ \A i \in 1..(n + k) : (s \o left)[i] = IF i <= n THEN s[i] ELSE left[i - n]
  BY <1>1, <1>2, ConcatProperties
<1>8. ASSUME NEW i \in 1..(n + k)
      PROVE  (one \o rest)[i] = (s \o left)[i]
  <2>0. CASE i <= n
    <3>1. i \in 1..n /\ i <= n + 1
      BY <2>0
    <3>2. (one \o rest)[i] = one[i] /\ (s \o left)[i] = s[i]
      BY <1>6, <1>7, <2>0, <3>1
    <3>. QED
      BY <1>4, <3>1, <3>2
  <2>1. CASE i = n + 1
    <3>1. i <= n + 1 /\ ~(i <= n) /\ i - n = 1
      BY <2>1
    <3>2. (one \o rest)[i] = one[i] /\ (s \o left)[i] = left[1]
      BY <1>6, <1>7, <3>1
    <3>. QED
      BY <1>4, <2>1, <3>2
  <2>2. CASE i > n + 1
    <3>1. rest[i - (n + 1)] = left[i - n]
      <4>1. i - (n + 1) \in 1..(k - 1) /\ (i - (n + 1)) + 1 = i - n
        BY <2>2
      <4>. QED
        BY <1>3, <1>5, <4>1
    <3>2. ~(i <= n + 1) /\ ~(i <= n)
      BY <2>2
    <3>3. (one \o rest)[i] = rest[i - (n + 1)] /\ (s \o left)[i] = left[i - n]
      BY <1>6, <1>7, <3>2
    <3>. QED
      BY <3>1, <3>3
  <2>. QED
    <3>1. i <= n \/ i = n + 1 \/ i > n + 1
      OBVIOUS
    <3>. QED
      BY <2>0, <2>1, <2>2, <3>1, Zenon
<1>9. one \o rest = s \o left
  <2>1. PICK a \in Seq(S) : a = one \o rest
    BY <1>6
  <2>2. PICK b \in Seq(S) : b = s \o left
    BY <1>7
  <2>3. Len(a) = n + k /\ Len(b) = n + k /\ \A i \in 1..(n + k) : a[i] = b[i]
    BY <1>6, <1>7, <1>8, <2>1, <2>2
  <2>4. a = b
    BY <2>3
  <2>. QED
    BY <2>1, <2>2, <2>4
<1>. QED
  BY <1>4, <1>5, <1>9

LEMMA DirsMore ==
  ASSUME NEW paths \in Seq(SearchPath), NEW sp \in SearchPath
  PROVE  /\ Append(paths, sp) \in Seq(SearchPath)
         /\ Dirs(Append(paths, sp)) = Dirs(paths) \o <<sp.dir>>
<1>1. PICK n \in Nat : n = Len(paths) /\ DOMAIN paths = 1..n
  OBVIOUS
<1>0. PICK S : S = SearchPath
  OBVIOUS
<1>2. PICK more : more = Append(paths, sp)
  OBVIOUS
<1>3. /\ Len(more) = n + 1 /\ more[n + 1] = sp /\ more \in Seq(S)
      /\ \A i \in 1..n : more[i] = paths[i]
  BY <1>0, <1>1, <1>2, Appended
<1>3a. DOMAIN more = 1..(n + 1)
  BY <1>3
<1>4. Dirs(more) = [i \in 1..(n + 1) |-> more[i].dir]
  BY <1>3a DEF Dirs
<1>5. PICK dirs : dirs = [i \in 1..n |-> paths[i].dir]
  OBVIOUS
<1>6. Dirs(paths) = dirs
  BY <1>1, <1>5 DEF Dirs
<1>7. \A i \in 1..n : paths[i].dir \in Dir
  <2>1. \A i \in 1..n : paths[i] \in S
    BY <1>0, <1>1
  <2>2. \A x \in S : x.dir \in Dir
    BY <1>0 DEF SearchPath
  <2>. QED
    BY <2>1, <2>2
<1>8. dirs \in Seq(Dir) /\ Len(dirs) = n
  <2>1. dirs \in [1..n -> Dir]
    BY <1>5, <1>7
  <2>. QED
    BY <2>1
<1>9. PICK one : one = <<sp.dir>>
  OBVIOUS
<1>10. one \in Seq(Dir) /\ Len(one) = 1 /\ one[1] = sp.dir
  BY <1>9 DEF SearchPath
<1>11. /\ dirs \o one \in Seq(Dir) /\ Len(dirs \o one) = n + 1
       /\ \A i \in 1..(n + 1) : (dirs \o one)[i] = IF i <= n THEN dirs[i] ELSE one[i - n]
  <2>1. /\ dirs \o one \in Seq(Dir) /\ Len(dirs \o one) = Len(dirs) + Len(one)
        /\ \A i \in 1..(Len(dirs) + Len(one)) : (dirs \o one)[i] = IF i <= Len(dirs) THEN dirs[i] ELSE one[i - Len(dirs)]
    BY <1>8, <1>10, ConcatProperties
  <2>. QED
    BY <1>8, <1>10, <2>1
<1>12. \A i \in 1..(n + 1) : (dirs \o one)[i] = more[i].dir
  <2>1. ASSUME NEW i \in 1..(n + 1) PROVE (dirs \o one)[i] = more[i].dir
    <3>1. CASE i <= n
      <4>1. i \in 1..n
        BY <3>1
      <4>. QED
        BY <1>3, <1>5, <1>11, <3>1, <4>1
    <3>2. CASE i = n + 1
      <4>1. ~(i <= n) /\ i - n = 1
        BY <3>2
      <4>. QED
        BY <1>3, <1>10, <1>11, <3>2, <4>1
    <3>3. i <= n \/ i = n + 1
      OBVIOUS
    <3>. QED
      BY <3>1, <3>2, <3>3, Zenon
  <2>. QED
    BY <2>1
<1>13. Dirs(more) = dirs \o one
  <2>1. PICK d \in Seq(Dir) : d = dirs \o one
    BY <1>11
  <2>2. d = [i \in 1..(n + 1) |-> d[i]]
    <3>1. Len(d) = n + 1
      BY <1>11, <2>1
    <3>. QED
      BY <3>1
  <2>3. \A i \in 1..(n + 1) : d[i] = more[i].dir
    BY <1>12, <2>1
  <2>4. d = [i \in 1..(n + 1) |-> more[i].dir]
    BY <2>2, <2>3
  <2>. QED
    BY <1>4, <2>1, <2>4
<1>14. Append(paths, sp) \in Seq(SearchPath)
  BY <1>0, <1>2, <1>3
<1>. QED
  BY <1>2, <1>6, <1>9, <1>13, <1>14

Records(f) ==
  [isInspected : BOOLEAN, isDynamicELF : BOOLEAN, isLib : BOOLEAN, is32 : BOOLEAN,
   rPaths : Seq(SearchPath), runPaths : Seq(SearchPath), configPaths : Seq(SearchPath),
   neededLibs : {{}, NeededIn(image[f])}]

\* As many run paths have been read as there are fewer than all left.
ReadSoFar(f, left) == Len(Parts(f)) - Len(left)

IsNew(r) == \E junk \in BOOLEAN : r = Fresh(junk)
PartlyRead(f, r, left) ==
  /\ IsRest(left, Parts(f)) /\ FineTo(f, ReadSoFar(f, left))
  /\ ~r.isDynamicELF /\ ~r.isLib /\ r.configPaths = << >>
  /\ HasSections(image[f]) => r.is32 = image[f].is32
  /\ Dirs(r.rPaths) = Taken(f, "rPaths", ReadSoFar(f, left))
  /\ Dirs(r.runPaths) = Taken(f, "runPaths", ReadSoFar(f, left))
PartlyConfigured(f, r, left) == IsDynamic(f) /\ Inspected(f, [r EXCEPT !.configPaths = @ \o left])
InTask(f, r, t) ==
  \/ t.at = "open" /\ IsNew(r)
  \/ t.at = "run paths" /\ PartlyRead(f, r, t.left)
  \/ t.at = "config" /\ PartlyConfigured(f, r, t.left)
  \/ t.at = "done" /\ Inspected(f, r)
FileState(f) ==
  \A r, t : r = files[f] /\ t = task[f] =>
    /\ r \in Records(f)
    /\ IF f \in DOMAIN task THEN InTask(f, r, t)
       ELSE IF f \in iteration THEN IsNew(r)
       ELSE Inspected(f, r)
FileInv == \A f \in DOMAIN files : FileState(f)

\* A file that is no dynamic ELF file.
LEMMA InspectedNot ==
  ASSUME NEW f, NEW r \in Records(f), ~IsDynamic(f), ~r.isDynamicELF, ~r.isLib, r.configPaths = << >>
  PROVE  Inspected(f, r)
BY DEF Inspected

LEMMA OpenKeeps ==
  ASSUME SystemInv, NEW f \in File, NEW r, IsNew(r)
  PROVE  /\ r \in Records(f)
         /\ image[f].header = "no handle" => Inspected(f, r)
         /\ Headed(r, image[f]) \in Records(f) /\ PartlyRead(f, Headed(r, image[f]), Parts(f))
<1>1. PICK junk \in BOOLEAN : r = Fresh(junk)
  BY DEF IsNew
<1>2. r = [isInspected |-> FALSE, isDynamicELF |-> FALSE, isLib |-> FALSE, is32 |-> junk,
           rPaths |-> << >>, runPaths |-> << >>, configPaths |-> << >>, neededLibs |-> {}]
  BY <1>1 DEF Fresh
<1>3. << >> \in Seq(SearchPath)
  OBVIOUS
<1>4. r \in Records(f) /\ ~r.isDynamicELF /\ ~r.isLib /\ r.configPaths = << >>
  BY <1>2, <1>3 DEF Records
<1>5. image[f].header = "no handle" => Inspected(f, r)
  <2>1. image[f].header = "no handle" => ~IsDynamic(f)
    BY DEF IsDynamic
  <2>. QED
    BY <1>4, <2>1, InspectedNot
<1>6. PICK b \in BOOLEAN : /\ b = (IF image[f].header \in {"object", "ET_EXEC", "ET_DYN"} THEN image[f].is32 ELSE junk)
                           /\ HasSections(image[f]) => b = image[f].is32
  <2>1. image[f].is32 \in BOOLEAN
    BY DEF SystemInv, IsImage
  <2>. QED
    BY <2>1 DEF HasSections
<1>7. PICK h : h = Headed(r, image[f])
  OBVIOUS
<1>8. h = [isInspected |-> TRUE, isDynamicELF |-> FALSE, isLib |-> FALSE, is32 |-> b,
           rPaths |-> << >>, runPaths |-> << >>, configPaths |-> << >>, neededLibs |-> {}]
  BY <1>2, <1>6, <1>7 DEF Headed
<1>9. /\ h \in Records(f) /\ ~h.isDynamicELF /\ ~h.isLib /\ h.configPaths = << >> /\ h.is32 = b
      /\ h.rPaths = << >> /\ h.runPaths = << >>
  BY <1>3, <1>8 DEF Records
<1>10. PICK m \in Nat : m = Len(Parts(f))
  BY PartsType
<1>11. ReadSoFar(f, Parts(f)) = 0
  BY <1>10 DEF ReadSoFar
<1>12. IsRest(Parts(f), Parts(f))
  <2>1. PICK S : S = AnyRunPath(image[f])
    OBVIOUS
  <2>2. PICK s \in Seq(S) : s = Parts(f)
    BY <2>1, PartsType
  <2>3. PICK T : T = Range(s)
    OBVIOUS
  <2>4. s \in Seq(T)
    <3>1. PICK n \in Nat : n = Len(s) /\ DOMAIN s = 1..n
      OBVIOUS
    <3>2. \A i \in 1..n : s[i] \in T
      BY <2>3, <3>1 DEF Range
    <3>3. s = [i \in 1..n |-> s[i]]
      BY <3>1
    <3>4. [i \in 1..n |-> s[i]] \in [1..n -> T]
      BY <3>2
    <3>. QED
      BY <3>3, <3>4
  <2>5. IsRest(s, s)
    BY <2>3, <2>4 DEF IsRest
  <2>. QED
    BY <2>2, <2>5
<1>13. FineTo(f, 0)
  BY DEF FineTo
<1>14. Dirs(<< >>) = << >>
  BY DEF Dirs
<1>15. Taken(f, "rPaths", 0) = << >> /\ Taken(f, "runPaths", 0) = << >>
  BY TakenMore
<1>16. PartlyRead(f, h, Parts(f))
  BY <1>6, <1>9, <1>11, <1>12, <1>13, <1>14, <1>15, Zenon DEF PartlyRead
<1>. QED
  BY <1>4, <1>5, <1>7, <1>9, <1>16
-----------------------------------------------------------------------------
(* The steps of a task.                                                    *)

Longer(r, list, sp) == [r EXCEPT ![list] = Append(@, sp)]
IsLonger(s, r, list, sp) ==
  /\ s.isDynamicELF = r.isDynamicELF /\ s.isLib = r.isLib /\ s.is32 = r.is32 /\ s.configPaths = r.configPaths
  /\ Dirs(s.rPaths) = Dirs(r.rPaths) \o (IF list = "rPaths" THEN <<sp.dir>> ELSE << >>)
  /\ Dirs(s.runPaths) = Dirs(r.runPaths) \o (IF list = "runPaths" THEN <<sp.dir>> ELSE << >>)

\* The record of f after its search path sp was appended to list.
LEMMA ListMore ==
  ASSUME NEW f, NEW r \in Records(f), NEW list \in {"rPaths", "runPaths"}, NEW sp \in SearchPath, NEW s,
         s = Longer(r, list, sp)
  PROVE  s \in Records(f) /\ IsLonger(s, r, list, sp)
<1>1. r = [isInspected |-> r.isInspected, isDynamicELF |-> r.isDynamicELF, isLib |-> r.isLib, is32 |-> r.is32,
         rPaths |-> r.rPaths, runPaths |-> r.runPaths, configPaths |-> r.configPaths, neededLibs |-> r.neededLibs]
  BY DEF Records
<1>0. /\ r.rPaths \in Seq(SearchPath) /\ r.runPaths \in Seq(SearchPath)
      /\ r.isInspected \in BOOLEAN /\ r.isDynamicELF \in BOOLEAN /\ r.isLib \in BOOLEAN /\ r.is32 \in BOOLEAN
      /\ r.configPaths \in Seq(SearchPath) /\ r.neededLibs \in {{}, NeededIn(image[f])}
  BY DEF Records
<1>2. ASSUME NEW paths \in Seq(SearchPath)
      PROVE  /\ Append(paths, sp) \in Seq(SearchPath)
             /\ Dirs(Append(paths, sp)) = Dirs(paths) \o <<sp.dir>>
             /\ Dirs(paths) \o << >> = Dirs(paths)
  <2>1. Dirs(paths) \in Seq(Dir)
    <3>1. PICK S : S = SearchPath
      OBVIOUS
    <3>2. \A x \in S : x.dir \in Dir
      BY <3>1 DEF SearchPath
    <3>3. PICK n \in Nat : n = Len(paths) /\ DOMAIN paths = 1..n
      OBVIOUS
    <3>4. \A i \in 1..n : paths[i] \in S
      BY <3>1, <3>3
    <3>5. Dirs(paths) \in [1..n -> Dir]
      BY <3>2, <3>3, <3>4 DEF Dirs
    <3>. QED
      BY <3>5
  <2>. QED
    BY <2>1, DirsMore
<1>3. CASE list = "rPaths"
  <2>1. PICK more \in Seq(SearchPath) : more = Append(r.rPaths, sp)
    BY <1>0, <1>2
  <2>2. s = [r EXCEPT !.rPaths = more]
    BY <1>1, <1>3, <2>1 DEF Longer
  <2>3. /\ s \in Records(f) /\ s.rPaths = more /\ s.runPaths = r.runPaths
        /\ s.isDynamicELF = r.isDynamicELF /\ s.isLib = r.isLib /\ s.is32 = r.is32 /\ s.configPaths = r.configPaths
    BY <2>2 DEF Records
  <2>4. Dirs(more) = Dirs(r.rPaths) \o <<sp.dir>> /\ Dirs(r.runPaths) \o << >> = Dirs(r.runPaths)
    BY <1>0, <1>2, <2>1, Zenon
  <2>5. "rPaths" # "runPaths"
    OBVIOUS
  <2>. QED
    BY <1>3, <2>3, <2>4, <2>5, Zenon DEF IsLonger
<1>4. CASE list = "runPaths"
  <2>1. PICK more \in Seq(SearchPath) : more = Append(r.runPaths, sp)
    BY <1>0, <1>2
  <2>2. s = [r EXCEPT !.runPaths = more]
    BY <1>1, <1>4, <2>1 DEF Longer
  <2>3. /\ s \in Records(f) /\ s.runPaths = more /\ s.rPaths = r.rPaths
        /\ s.isDynamicELF = r.isDynamicELF /\ s.isLib = r.isLib /\ s.is32 = r.is32 /\ s.configPaths = r.configPaths
    BY <2>2 DEF Records
  <2>4. Dirs(more) = Dirs(r.runPaths) \o <<sp.dir>> /\ Dirs(r.rPaths) \o << >> = Dirs(r.rPaths)
    BY <1>0, <1>2, <2>1, Zenon
  <2>5. "rPaths" # "runPaths"
    OBVIOUS
  <2>. QED
    BY <1>4, <2>3, <2>4, <2>5, Zenon DEF IsLonger
<1>. QED
  BY <1>3, <1>4

\* The next run path is behind those read so far.
LEMMA NextPart ==
  ASSUME SystemInv, NEW f \in File, NEW r, NEW left, PartlyRead(f, r, left), left # << >>
  PROVE  \E n \in Nat :
           /\ n = ReadSoFar(f, left) /\ n < Len(Parts(f)) /\ n + 1 = ReadSoFar(f, Tail(left))
           /\ Head(left) = Parts(f)[n + 1] /\ Head(left) \in Range(Parts(f))
           /\ Head(left).list \in {"rPaths", "runPaths"}
           /\ IsRest(Tail(left), Parts(f)) /\ FineTo(f, n)
           /\ Target(f, Head(left).part) # Unresolvable => FineTo(f, n + 1)
<1>1. PICK S : S = AnyRunPath(image[f])
  OBVIOUS
<1>2. PICK parts \in Seq(S) : parts = Parts(f)
  BY <1>1, PartsType
<1>3. IsRest(left, parts) /\ FineTo(f, ReadSoFar(f, left))
  BY <1>2 DEF PartlyRead
<1>4. /\ Len(left) \in Nat /\ Len(parts) - Len(left) \in Nat
      /\ IsRest(Tail(left), parts) /\ Len(Tail(left)) = Len(left) - 1 /\ Len(left) > 0
      /\ Head(left) = parts[(Len(parts) - Len(left)) + 1]
  BY <1>3, RestOf
<1>5. PICK m \in Nat : m = Len(parts) /\ DOMAIN parts = 1..m
  OBVIOUS
<1>6. PICK k \in Nat : k = Len(left)
  BY <1>4
<1>7. PICK n \in Nat : n = m - k
  BY <1>4, <1>5, <1>6
<1>8. /\ n = ReadSoFar(f, left) /\ n + 1 = ReadSoFar(f, Tail(left))
  BY <1>2, <1>4, <1>5, <1>6, <1>7 DEF ReadSoFar
<1>9. n < m /\ n + 1 \in 1..m
  BY <1>4, <1>6, <1>7
<1>10. Head(left) = parts[n + 1] /\ Head(left) \in Range(parts)
  <2>1. Head(left) = parts[n + 1]
    BY <1>4, <1>5, <1>6, <1>7
  <2>. QED
    BY <1>5, <1>9, <2>1 DEF Range
<1>11. Head(left).list \in {"rPaths", "runPaths"}
  BY <1>2, <1>5, <1>9, <1>10, PartsType
<1>12. ASSUME Target(f, Head(left).part) # Unresolvable
       PROVE  FineTo(f, n + 1)
  <2>1. \A i \in 1..(n + 1) : i \in 1..n \/ i = n + 1
    OBVIOUS
  <2>. QED
    BY <1>2, <1>3, <1>8, <1>10, <1>12, <2>1 DEF FineTo
<1>. QED
  BY <1>2, <1>3, <1>4, <1>5, <1>8, <1>9, <1>10, <1>11, <1>12

LEMMA OpenEffect ==
  ASSUME SystemInv, NEW f \in File, f \in DOMAIN files, f \in DOMAIN task, FileState(f), Open(f)
  PROVE  files'[f] \in Records(f) /\ InTask(f, files'[f], task'[f])
<1>1. PICK r : r = files[f]
  OBVIOUS
<1>2. task[f].at = "open" /\ IsNew(r)
  BY <1>1 DEF FileState, Open, Running, InTask
<1>3. /\ r \in Records(f)
      /\ image[f].header = "no handle" => Inspected(f, r)
      /\ Headed(r, image[f]) \in Records(f) /\ PartlyRead(f, Headed(r, image[f]), Parts(f))
  BY <1>2, OpenKeeps
<1>4. ~r.isInspected
  BY <1>2 DEF IsNew, Fresh
<1>5. CASE image[f].header = "no handle"
  <2>0. files'[f] = r /\ task'[f] = [at |-> "done", left |-> << >>]
    BY <1>1, <1>5 DEF Open, At
  <2>1. files'[f] = r /\ task'[f].at = "done"
    BY <2>0
  <2>. QED
    BY <1>3, <1>5, <2>1, Zenon DEF InTask
<1>6. CASE image[f].header # "no handle"
  <2>0. files'[f] = Headed(r, image[f]) /\ task'[f] = [at |-> "run paths", left |-> Parts(f)]
    BY <1>1, <1>4, <1>6 DEF Open, At, Parts
  <2>1. task'[f].at = "run paths" /\ task'[f].left = Parts(f)
    <3>1. PICK p, t : p = Parts(f) /\ t = task'[f]
      OBVIOUS
    <3>2. t = [at |-> "run paths", left |-> p]
      BY <2>0, <3>1, Zenon
    <3>3. t.at = "run paths" /\ t.left = p
      BY <3>2
    <3>. QED
      BY <3>1, <3>3, Zenon
  <2>. QED
    BY <1>3, <2>0, <2>1, Zenon DEF InTask
<1>. QED
  BY <1>5, <1>6

LEMMA RunPathEffect ==
  ASSUME SystemInv, NEW f \in File, f \in DOMAIN files, f \in DOMAIN task, FileState(f), RunPath(f)
  PROVE  files'[f] \in Records(f) /\ InTask(f, files'[f], task'[f])
<1>1. PICK r : r = files[f]
  OBVIOUS
<1>2. PICK left : left = task[f].left
  OBVIOUS
<1>3. r \in Records(f) /\ PartlyRead(f, r, left) /\ left # << >>
  BY <1>1, <1>2 DEF FileState, RunPath, Running, InTask
<1>4. PICK n \in Nat :
           /\ n = ReadSoFar(f, left) /\ n < Len(Parts(f)) /\ n + 1 = ReadSoFar(f, Tail(left))
           /\ Head(left) = Parts(f)[n + 1] /\ Head(left) \in Range(Parts(f))
           /\ Head(left).list \in {"rPaths", "runPaths"}
           /\ IsRest(Tail(left), Parts(f)) /\ FineTo(f, n)
           /\ Target(f, Head(left).part) # Unresolvable => FineTo(f, n + 1)
  BY <1>3, NextPart
<1>5. PICK next : next = Head(left)
  OBVIOUS
<1>6. PICK dir : dir = Target(f, next.part)
  OBVIOUS
<1>7. PICK sp : sp = [dir |-> dir, inode |-> StatInode[dir]]
  OBVIOUS
<1>8. /\ task'[f].at = (IF dir = Unresolvable THEN "done" ELSE "run paths") /\ task'[f].left = Tail(left)
      /\ dir \notin Dir => files' = files
      /\ dir \in Dir => files'[f] = Longer(r, next.list, sp)
  BY <1>1, <1>2, <1>5, <1>6, <1>7 DEF RunPath, At, Longer
<1>9. /\ ~r.isDynamicELF /\ ~r.isLib /\ r.configPaths = << >>
      /\ HasSections(image[f]) => r.is32 = image[f].is32
      /\ Dirs(r.rPaths) = Taken(f, "rPaths", n)
      /\ Dirs(r.runPaths) = Taken(f, "runPaths", n)
  BY <1>3, <1>4 DEF PartlyRead
<1>10. \A list : /\ Taken(f, list, n + 1) = Taken(f, list, n) \o DirIn(f, list, next)
                 /\ Taken(f, list, n) \o << >> = Taken(f, list, n)
  <2>1. ASSUME NEW list
        PROVE  /\ Taken(f, list, n + 1) = Taken(f, list, n) \o DirIn(f, list, next)
               /\ Taken(f, list, n) \o << >> = Taken(f, list, n)
    <3>1. PICK m \in Nat : m = Len(Parts(f))
      BY PartsType
    <3>2. n < m /\ n <= m
      BY <1>4, <3>1
    <3>3. Taken(f, list, n + 1) = Taken(f, list, n) \o DirIn(f, list, Parts(f)[n + 1])
      BY <3>1, <3>2, TakenMore, Zenon
    <3>4. PICK taken \in Seq(Dir) : taken = Taken(f, list, n)
      BY <3>1, <3>2, TakenMore, Zenon
    <3>5. taken \o << >> = taken
      OBVIOUS
    <3>. QED
      BY <1>4, <1>5, <3>3, <3>4, <3>5, Zenon
  <2>. QED
    BY <2>1
<1>11. CASE dir = Unresolvable
  <2>1. ~IsDynamic(f)
    BY <1>4, <1>5, <1>6, <1>11 DEF IsDynamic, Parts
  <2>2. dir \notin Dir
    BY <1>11, TreeAssumption DEF Nowhere
  <2>3. files'[f] = r /\ task'[f].at = "done"
    BY <1>1, <1>8, <1>11, <2>2
  <2>4. Inspected(f, r)
    BY <1>3, <1>9, <2>1, InspectedNot
  <2>. QED
    BY <1>3, <2>3, <2>4 DEF InTask
<1>12. ASSUME NEW s \in Records(f), s = files'[f], dir # Unresolvable,
              s.isDynamicELF = r.isDynamicELF, s.isLib = r.isLib, s.is32 = r.is32, s.configPaths = r.configPaths,
              Dirs(s.rPaths) = Taken(f, "rPaths", n + 1), Dirs(s.runPaths) = Taken(f, "runPaths", n + 1)
       PROVE  files'[f] \in Records(f) /\ InTask(f, files'[f], task'[f])
  <2>1. PartlyRead(f, s, Tail(left))
    <3>1. IsRest(Tail(left), Parts(f)) /\ FineTo(f, ReadSoFar(f, Tail(left)))
      BY <1>4, <1>5, <1>6, <1>12, Zenon
    <3>2. /\ Dirs(s.rPaths) = Taken(f, "rPaths", ReadSoFar(f, Tail(left)))
          /\ Dirs(s.runPaths) = Taken(f, "runPaths", ReadSoFar(f, Tail(left)))
      BY <1>4, <1>12, Zenon
    <3>. QED
      BY <1>9, <1>12, <3>1, <3>2, Zenon DEF PartlyRead
  <2>2. task'[f].at = "run paths" /\ task'[f].left = Tail(left)
    BY <1>8, <1>12
  <2>. QED
    BY <1>12, <2>1, <2>2, Zenon DEF InTask
<1>13. CASE dir \notin Dir /\ dir # Unresolvable
  <2>1. \A list : DirIn(f, list, next) = << >>
    BY <1>6, <1>13 DEF DirIn
  <2>2. \A list : Taken(f, list, n + 1) = Taken(f, list, n)
    <3>1. ASSUME NEW list PROVE Taken(f, list, n + 1) = Taken(f, list, n)
      <4>1. DirIn(f, list, next) = << >>
        BY <2>1
      <4>2. Taken(f, list, n + 1) = Taken(f, list, n) \o DirIn(f, list, next) /\ Taken(f, list, n) \o << >> = Taken(f, list, n)
        BY <1>10, Zenon
      <4>. QED
        BY <4>1, <4>2, Zenon
    <3>. QED
      BY <3>1
  <2>3. r = files'[f]
    BY <1>1, <1>8, <1>13
  <2>. QED
    BY <1>3, <1>9, <1>12, <1>13, <2>2, <2>3
<1>14. CASE dir \in Dir
  <2>1. dir # Unresolvable
    BY <1>14, TreeAssumption DEF Nowhere
  <2>2. sp \in SearchPath /\ sp.dir = dir
    BY <1>7, <1>14, TreeAssumption DEF SearchPath
  <2>3. PICK s : s = files'[f] /\ s = Longer(r, next.list, sp)
    BY <1>8, <1>14
  <2>4. next.list \in {"rPaths", "runPaths"}
    BY <1>4, <1>5
  <2>5. \A list : DirIn(f, list, next) = IF next.list = list THEN <<dir>> ELSE << >>
    BY <1>6, <1>14 DEF DirIn
  <2>6. s \in Records(f) /\ IsLonger(s, r, next.list, sp)
    BY <1>3, <2>2, <2>3, <2>4, ListMore
  <2>7. Dirs(s.rPaths) = Taken(f, "rPaths", n + 1) /\ Dirs(s.runPaths) = Taken(f, "runPaths", n + 1)
    BY <1>9, <1>10, <2>2, <2>5, <2>6, Zenon DEF IsLonger
  <2>. QED
    BY <1>12, <2>1, <2>3, <2>6, <2>7, Zenon DEF IsLonger
<1>. QED
  BY <1>11, <1>13, <1>14

LEMMA EndOfELFEffect ==
  ASSUME SystemInv, TypeInv, NEW f \in File, f \in DOMAIN files, f \in DOMAIN task, FileState(f), EndOfELF(f)
  PROVE  files'[f] \in Records(f) /\ InTask(f, files'[f], task'[f]) /\ files'[f].configPaths = << >>
<1>1. PICK r : r = files[f]
  OBVIOUS
<1>2. PICK left : left = task[f].left
  OBVIOUS
<1>3. r \in Records(f) /\ PartlyRead(f, r, left) /\ left = << >>
  BY <1>1, <1>2 DEF FileState, EndOfELF, Running, InTask
<1>4. PICK m \in Nat : m = Len(Parts(f))
  BY PartsType
<1>5. ReadSoFar(f, left) = m
  BY <1>3, <1>4 DEF ReadSoFar
<1>6. /\ FineTo(f, m) /\ ~r.isDynamicELF /\ ~r.isLib /\ r.configPaths = << >>
      /\ HasSections(image[f]) => r.is32 = image[f].is32
      /\ Dirs(r.rPaths) = Taken(f, "rPaths", m)
      /\ Dirs(r.runPaths) = Taken(f, "runPaths", m)
  BY <1>3, <1>5 DEF PartlyRead
<1>7. RunPathsRead(f) = Parts(f)
  BY <1>4, <1>6, RunDirsAre
<1>8. \A list : ListOf(f, list) = Taken(f, list, m)
  BY <1>4, <1>7, TakenMore
<1>. DEFINE Sound == HasSections(image[f]) /\ ~Throws(image[f], FALSE) /\ FoundDynamic(image[f], FALSE)
<1>9. IsDynamic(f) <=> Sound
  <2>1. \A p \in Range(Parts(f)) : Target(f, p.part) # Unresolvable
    <3>1. DOMAIN Parts(f) = 1..m
      BY <1>4, PartsType
    <3>. QED
      BY <1>6, <3>1 DEF FineTo, Range
  <2>2. IsImage(image[f])
    BY DEF SystemInv
  <2>3. Sound <=> LET dynamic == {i \in DOMAIN image[f].sections : image[f].sections[i].type = "DYNAMIC"}
             IN  /\ image[f].header \in {"ET_EXEC", "ET_DYN"}
                 /\ \A i \in DOMAIN image[f].sections : image[f].sections[i].type # "unreadable"
                 /\ Cardinality(dynamic) = 1 /\ \A i \in dynamic : image[f].sections[i].sound
    BY <2>2, FlagsAreSet
  <2>. HIDE DEF Sound
  <2>. QED
    BY <2>1, <2>3, Zenon DEF IsDynamic, Parts
<1>10. PICK needed : needed = NeededIn(image[f])
  OBVIOUS
<1>11. PICK s : s = [r EXCEPT !.neededLibs = needed]
  OBVIOUS
<1>12. /\ s \in Records(f) /\ s.isDynamicELF = r.isDynamicELF /\ s.isLib = r.isLib /\ s.is32 = r.is32
       /\ s.configPaths = r.configPaths /\ s.rPaths = r.rPaths /\ s.runPaths = r.runPaths /\ s.neededLibs = needed
  BY <1>3, <1>10, <1>11 DEF Records
<1>13. PICK q : q = files'[f]
  OBVIOUS
<1>14. /\ q = (IF Sound THEN [s EXCEPT !.isLib = (image[f].header = "ET_DYN"), !.isDynamicELF = TRUE] ELSE s)
       /\ task'[f] = IF q.isDynamicELF THEN [at |-> "config", left |-> ConfigPaths(f)] ELSE [at |-> "done", left |-> << >>]
  BY <1>1, <1>10, <1>11, <1>13 DEF EndOfELF, Flagged, At
<1>. HIDE DEF Sound
<1>15. CASE ~Sound
  <2>1. q = s /\ ~q.isDynamicELF
    BY <1>6, <1>12, <1>14, <1>15
  <2>2. Inspected(f, s)
    BY <1>6, <1>9, <1>12, <1>15, InspectedNot
  <2>3. PICK t : t = task'[f]
    OBVIOUS
  <2>4. t = [at |-> "done", left |-> << >>]
    BY <1>14, <2>1, <2>3, Zenon
  <2>5. t.at = "done"
    BY <2>4
  <2>. QED
    BY <1>6, <1>12, <1>13, <2>1, <2>2, <2>3, <2>5, Zenon DEF InTask
<1>16. CASE Sound
  <2>1. q = [s EXCEPT !.isLib = (image[f].header = "ET_DYN"), !.isDynamicELF = TRUE]
    BY <1>14, <1>16, Zenon
  <2>2. /\ q \in Records(f) /\ q.isDynamicELF /\ (q.isLib <=> image[f].header = "ET_DYN") /\ q.is32 = s.is32
        /\ q.configPaths = s.configPaths /\ q.rPaths = s.rPaths /\ q.runPaths = s.runPaths /\ q.neededLibs = s.neededLibs
    BY <1>12, <2>1 DEF Records
  <2>3. PICK t : t = task'[f]
    OBVIOUS
  <2>4. t = [at |-> "config", left |-> ConfigPaths(f)]
    BY <1>14, <2>2, <2>3, Zenon
  <2>5. PICK paths : paths = ConfigPaths(f)
    OBVIOUS
  <2>6. t.at = "config" /\ t.left = paths
    <3>1. t = [at |-> "config", left |-> paths]
      BY <2>4, <2>5, Zenon
    <3>. QED
      BY <3>1
  <2>7. paths \in Seq(SearchPath)
    BY <2>5, ConfigPathsIn, TreeAssumption DEF TypeInv
  <2>8. PICK u : u = [q EXCEPT !.configPaths = @ \o paths]
    OBVIOUS
  <2>9. /\ u.isDynamicELF = q.isDynamicELF /\ u.isLib = q.isLib /\ u.is32 = q.is32
        /\ u.configPaths = q.configPaths \o paths
        /\ u.rPaths = q.rPaths /\ u.runPaths = q.runPaths /\ u.neededLibs = q.neededLibs
    BY <2>2, <2>8 DEF Records
  <2>10. u.configPaths = paths
    <3>1. PICK S : S = SearchPath
      OBVIOUS
    <3>2. << >> \o paths = paths
      BY <2>7, <3>1
    <3>3. q.configPaths = << >>
      BY <1>6, <1>12, <2>2, Zenon
    <3>. QED
      BY <2>9, <3>2, <3>3, Zenon
  <2>11. Inspected(f, u)
    <3>1. u.isDynamicELF /\ IsDynamic(f)
      BY <1>9, <1>16, <2>2, <2>9, Zenon
    <3>2. u.isLib <=> image[f].header = "ET_DYN"
      BY <2>2, <2>9, Zenon
    <3>3. u.is32 <=> image[f].is32
      BY <1>6, <1>12, <1>16, <2>2, <2>9, Zenon DEF Sound
    <3>4. Dirs(u.rPaths) = ListOf(f, "rPaths") /\ Dirs(u.runPaths) = ListOf(f, "runPaths")
      BY <1>6, <1>8, <1>12, <2>2, <2>9, Zenon
    <3>5. u.neededLibs = NeededIn(image[f]) /\ u.configPaths = ConfigPaths(f)
      BY <1>10, <1>12, <2>2, <2>5, <2>9, <2>10, Zenon
    <3>. QED
      BY <3>1, <3>2, <3>3, <3>4, <3>5, Zenon DEF Inspected
  <2>12. PartlyConfigured(f, q, paths)
    BY <1>9, <1>16, <2>8, <2>11, Zenon DEF PartlyConfigured
  <2>. QED
    BY <1>6, <1>12, <1>13, <2>2, <2>3, <2>6, <2>12, Zenon DEF InTask
<1>. QED
  BY <1>15, <1>16

LEMMA AddConfigEffect ==
  ASSUME TypeInv, NEW f \in File, f \in DOMAIN files, f \in DOMAIN task, FileState(f), AddConfigPath(f)
  PROVE  files'[f] \in Records(f) /\ InTask(f, files'[f], task'[f])
<1>1. PICK r : r = files[f]
  OBVIOUS
<1>2. PICK left : left = task[f].left
  OBVIOUS
<1>3. r \in Records(f) /\ PartlyConfigured(f, r, left) /\ left # << >> /\ task[f].at = "config"
  BY <1>1, <1>2 DEF FileState, AddConfigPath, Running, InTask
<1>4. PICK S : S = SearchPath
  OBVIOUS
<1>5. left \in Seq(S) /\ r.configPaths \in Seq(S)
  BY <1>2, <1>3, <1>4 DEF TypeInv, TypeOK, Records
<1>6. PICK sp \in S : sp = Head(left)
  BY <1>3, <1>5, PushPop
<1>7. PICK rest \in Seq(S) : rest = Tail(left)
  BY <1>3, <1>5, PushPop
<1>8. PICK more \in Seq(S) : more = Append(r.configPaths, sp)
  <2>1. PICK paths \in Seq(S) : paths = r.configPaths
    BY <1>5
  <2>2. Append(paths, sp) \in Seq(S)
    OBVIOUS
  <2>. QED
    BY <2>1, <2>2
<1>9. PICK q : q = files'[f]
  OBVIOUS
<1>10. q = [r EXCEPT !.configPaths = more]
  BY <1>1, <1>2, <1>6, <1>8, <1>9 DEF AddConfigPath
<1>11. q \in Records(f) /\ q.configPaths = more
  BY <1>3, <1>4, <1>10 DEF Records
<1>12. PICK t : t = task'[f]
  OBVIOUS
<1>13. t.at = "config" /\ t.left = rest
  <2>1. t = [at |-> "config", left |-> rest]
    BY <1>2, <1>7, <1>12 DEF AddConfigPath, At
  <2>. QED
    BY <2>1
<1>14. more \o rest = r.configPaths \o left
  BY <1>3, <1>5, <1>6, <1>7, <1>8, AppendHead
<1>15. [q EXCEPT !.configPaths = @ \o rest] = [r EXCEPT !.configPaths = @ \o left]
  <2>1. PICK all1 : all1 = more \o rest
    OBVIOUS
  <2>2. [q EXCEPT !.configPaths = all1] = [r EXCEPT !.configPaths = all1]
    BY <1>3, <1>10 DEF Records
  <2>3. [q EXCEPT !.configPaths = @ \o rest] = [q EXCEPT !.configPaths = all1]
    BY <1>11, <2>1
  <2>4. [r EXCEPT !.configPaths = @ \o left] = [r EXCEPT !.configPaths = all1]
    BY <1>14, <2>1
  <2>. QED
    BY <2>2, <2>3, <2>4, Zenon
<1>16. PartlyConfigured(f, q, rest)
  BY <1>3, <1>15, Zenon DEF PartlyConfigured
<1>. QED
  BY <1>9, <1>11, <1>12, <1>13, <1>16, Zenon DEF InTask

LEMMA EndOfTaskEffect ==
  ASSUME NEW f \in File, f \in DOMAIN files, f \in DOMAIN task, FileState(f), EndOfTask(f)
  PROVE  files'[f] \in Records(f) /\ InTask(f, files'[f], task'[f])
<1>1. PICK r : r = files[f]
  OBVIOUS
<1>2. r \in Records(f) /\ PartlyConfigured(f, r, << >>)
  BY <1>1 DEF FileState, EndOfTask, Running, InTask
<1>3. [r EXCEPT !.configPaths = @ \o << >>] = r
  <2>1. PICK paths \in Seq(SearchPath) : paths = r.configPaths
    BY <1>2 DEF Records
  <2>2. paths \o << >> = paths
    <3>1. PICK S : S = SearchPath
      OBVIOUS
    <3>. QED
      BY <3>1
  <2>3. [r EXCEPT !.configPaths = @ \o << >>] = [r EXCEPT !.configPaths = paths]
    BY <2>1, <2>2
  <2>4. [r EXCEPT !.configPaths = paths] = r
    BY <1>2, <2>1 DEF Records
  <2>. QED
    BY <2>3, <2>4
<1>4. Inspected(f, r)
  BY <1>2, <1>3, Zenon DEF PartlyConfigured
<1>5. PICK t : t = task'[f]
  OBVIOUS
<1>6. t.at = "done"
  BY <1>5 DEF EndOfTask, At
<1>7. files'[f] = r
  BY <1>1 DEF EndOfTask
<1>. QED
  BY <1>2, <1>4, <1>5, <1>6, <1>7, Zenon DEF InTask

\* A step of the task of f changes nothing of the other files.
LEMMA TaskEffect ==
  ASSUME SystemInv, TypeInv, NEW f \in File, FileInv, Task(f)
  PROVE  /\ f \in DOMAIN files /\ f \in DOMAIN task /\ f \in iteration /\ pc = "inspect"
         /\ files'[f] \in Records(f) /\ InTask(f, files'[f], task'[f])
         /\ DOMAIN files' = DOMAIN files /\ DOMAIN task' = DOMAIN task
         /\ \A g \in DOMAIN files : g # f => files'[g] = files[g]
         /\ \A g \in DOMAIN task : g # f => task'[g] = task[g]
         /\ UNCHANGED <<pc, error, second, stack, processedDirs, scanned, iteration, all, ldVars>>
<1>1. /\ pc = "inspect" /\ f \in DOMAIN task
      /\ UNCHANGED <<pc, error, second, stack, processedDirs, scanned, iteration, all, ldVars>>
  BY DEF Task, Open, RunPath, EndOfELF, AddConfigPath, EndOfTask, Running, InspectUnchanged
<1>2. f \in iteration /\ f \in DOMAIN files
  BY <1>1 DEF TypeInv, TypeOK
<1>3. DOMAIN files' = DOMAIN files /\ \A g \in DOMAIN files : g # f => files'[g] = files[g]
  <2>1. Open(f) \/ EndOfELF(f) \/ AddConfigPath(f) \/ EndOfTask(f) => files' = files \/ \E r : files' = [files EXCEPT ![f] = r]
    BY DEF Open, EndOfELF, AddConfigPath, EndOfTask
  <2>2. RunPath(f) => files' = files \/ \E r : files' = [files EXCEPT ![f] = r]
    BY DEF RunPath
  <2>. QED
    BY <2>1, <2>2 DEF Task
<1>4. DOMAIN task' = DOMAIN task /\ \A g \in DOMAIN task : g # f => task'[g] = task[g]
  BY DEF Task, Open, RunPath, EndOfELF, AddConfigPath, EndOfTask, At
<1>5. FileState(f)
  BY <1>2 DEF FileInv
<1>6. files'[f] \in Records(f) /\ InTask(f, files'[f], task'[f])
  BY <1>1, <1>2, <1>5, OpenEffect, RunPathEffect, EndOfELFEffect, AddConfigEffect, EndOfTaskEffect DEF Task
<1>. QED
  BY <1>1, <1>2, <1>3, <1>4, <1>6
-----------------------------------------------------------------------------
(* Each file, in the stage it is in.                                       *)

StageInv ==
  /\ pc \in {"scan", "ldconfig", "fill", "done"} => task = << >>
  /\ pc = "inspect" => DOMAIN task = iteration
  /\ pc \in {"fill", "done"} => iteration = {}

\* What is said of a record depends on the system alone.
LEMMA RecordKept ==
  ASSUME UNCHANGED systemVars, NEW f
  PROVE  /\ Records(f)' = Records(f)
         /\ \A r : Inspected(f, r)' <=> Inspected(f, r)
         /\ \A r, t : InTask(f, r, t)' <=> InTask(f, r, t)
<1>1. /\ image' = image /\ ldconfig' = ldconfig /\ rules' = rules
      /\ Parts(f)' = Parts(f) /\ ConfigPaths(f)' = ConfigPaths(f)
      /\ IsDynamic(f)' = IsDynamic(f)
      /\ \A list : ListOf(f, list)' = ListOf(f, list)
      /\ \A list, n : Taken(f, list, n)' = Taken(f, list, n)
      /\ \A n : FineTo(f, n)' = FineTo(f, n)
  BY SystemKept
<1>2. Records(f)' = Records(f)
  BY <1>1 DEF Records
<1>3. ASSUME NEW r
      PROVE  Inspected(f, r)' <=> Inspected(f, r)
  BY <1>1 DEF Inspected
<1>4. ASSUME NEW r, NEW left
      PROVE  /\ PartlyRead(f, r, left)' <=> PartlyRead(f, r, left)
             /\ PartlyConfigured(f, r, left)' <=> PartlyConfigured(f, r, left)
  <2>1. ReadSoFar(f, left)' = ReadSoFar(f, left)
    BY <1>1 DEF ReadSoFar
  <2>2. PartlyRead(f, r, left)' <=> PartlyRead(f, r, left)
    BY <1>1, <2>1 DEF PartlyRead, IsRest
  <2>3. PartlyConfigured(f, r, left)' <=> PartlyConfigured(f, r, left)
    BY <1>1, <1>3 DEF PartlyConfigured
  <2>. QED
    BY <2>2, <2>3
<1>5. ASSUME NEW r, NEW t
      PROVE  InTask(f, r, t)' <=> InTask(f, r, t)
  BY <1>3, <1>4 DEF InTask
<1>. QED
  BY <1>2, <1>3, <1>5

\* What is said of a file does not depend on the others.
LEMMA FileStateKept ==
  ASSUME UNCHANGED systemVars, NEW f, FileState(f), files'[f] = files[f],
         f \in DOMAIN task <=> f \in DOMAIN task', f \in DOMAIN task => task'[f] = task[f],
         f \in iteration <=> f \in iteration'
  PROVE  FileState(f)'
<1>1. /\ Records(f)' = Records(f)
      /\ \A r : Inspected(f, r)' <=> Inspected(f, r)
      /\ \A r, t : InTask(f, r, t)' <=> InTask(f, r, t)
  BY RecordKept
<1>2. ASSUME NEW r, NEW t, r = files'[f], t = task'[f]
      PROVE  /\ r \in Records(f)'
             /\ IF f \in DOMAIN task' THEN InTask(f, r, t)'
                ELSE IF f \in iteration' THEN IsNew(r)
                ELSE Inspected(f, r)'
  <2>1. PICK u : u = task[f]
    OBVIOUS
  <2>2. /\ r \in Records(f)
        /\ IF f \in DOMAIN task THEN InTask(f, r, u) ELSE IF f \in iteration THEN IsNew(r) ELSE Inspected(f, r)
    BY <1>2, <2>1 DEF FileState
  <2>3. f \in DOMAIN task => u = t
    BY <1>2, <2>1
  <2>. QED
    BY <1>1, <2>2, <2>3
<1>. QED
  BY <1>2 DEF FileState, IsNew, Fresh

LEMMA FilesKept ==
  ASSUME UNCHANGED systemVars, FileInv, UNCHANGED <<files, task, iteration>>
  PROVE  FileInv'
<1>1. ASSUME NEW f \in DOMAIN files PROVE FileState(f)'
  BY FileStateKept DEF FileInv
<1>. QED
  BY <1>1 DEF FileInv

\* A file that is added is new, and waits for its task.
LEMMA AddKeepsFiles ==
  ASSUME UNCHANGED systemVars, TypeInv, FileInv, NEW f \in File, AddFile(f), task = << >>, task' = << >>
  PROVE  FileInv'
<1>1. CASE f \in DOMAIN files
  BY <1>1, FilesKept DEF AddFile
<1>2. CASE f \notin DOMAIN files
  <2>1. PICK junk \in BOOLEAN : files' = Insert(files, f, Fresh(junk)) /\ iteration' = iteration \cup {f}
    BY <1>2 DEF AddFile
  <2>2. /\ DOMAIN files' = DOMAIN files \cup {f} /\ files'[f] = Fresh(junk)
        /\ \A g \in DOMAIN files : files'[g] = files[g]
    <3>1. /\ DOMAIN Insert(files, f, Fresh(junk)) = DOMAIN files \cup {f}
          /\ \A g \in DOMAIN files : Insert(files, f, Fresh(junk))[g] = files[g]
          /\ f \notin DOMAIN files => Insert(files, f, Fresh(junk))[f] = Fresh(junk)
      BY Inserted
    <3>. QED
      BY <1>2, <2>1, <3>1, Zenon
  <2>3. DOMAIN task = {} /\ DOMAIN task' = {}
    OBVIOUS
  <2>4. ASSUME NEW g \in DOMAIN files PROVE FileState(g)'
    <3>1. FileState(g) /\ files'[g] = files[g] /\ (g \in iteration <=> g \in iteration')
      BY <1>2, <2>1, <2>2 DEF FileInv
    <3>. QED
      BY <2>3, <3>1, FileStateKept
  <2>5. FileState(f)'
    <3>1. PICK r : r = Fresh(junk)
      OBVIOUS
    <3>2. r \in Records(f)'
      <4>1. PICK S, N : S = Seq(SearchPath) /\ N = {{}, NeededIn(image[f])}
        OBVIOUS
      <4>2. r = [isInspected |-> FALSE, isDynamicELF |-> FALSE, isLib |-> FALSE, is32 |-> junk,
                 rPaths |-> << >>, runPaths |-> << >>, configPaths |-> << >>, neededLibs |-> {}]
        BY <3>1 DEF Fresh
      <4>3. << >> \in S /\ {} \in N
        BY <4>1
      <4>4. r \in [isInspected : BOOLEAN, isDynamicELF : BOOLEAN, isLib : BOOLEAN, is32 : BOOLEAN,
                   rPaths : S, runPaths : S, configPaths : S, neededLibs : N]
        BY <4>2, <4>3
      <4>5. r \in Records(f)
        BY <4>1, <4>4, Zenon DEF Records
      <4>. QED
        BY <4>5, RecordKept
    <3>3. IsNew(r)
      BY <3>1 DEF IsNew
    <3>4. f \in iteration' /\ files'[f] = r
      BY <2>1, <2>2, <3>1
    <3>5. ASSUME NEW q, q = files'[f] PROVE q \in Records(f)' /\ IsNew(q)'
      BY <3>2, <3>3, <3>4, <3>5 DEF IsNew, Fresh
    <3>. QED
      BY <2>3, <3>4, <3>5, Zenon DEF FileState
  <2>. QED
    BY <2>2, <2>4, <2>5 DEF FileInv
<1>. QED
  BY <1>1, <1>2

LEMMA TaskKeepsFiles ==
  ASSUME UNCHANGED systemVars, SystemInv, TypeInv, FileInv, StageInv, NEW f \in File, Task(f)
  PROVE  FileInv' /\ StageInv'
<1>1. /\ f \in DOMAIN files /\ f \in DOMAIN task /\ f \in iteration /\ pc = "inspect"
      /\ files'[f] \in Records(f) /\ InTask(f, files'[f], task'[f])
      /\ DOMAIN files' = DOMAIN files /\ DOMAIN task' = DOMAIN task
      /\ \A g \in DOMAIN files : g # f => files'[g] = files[g]
      /\ \A g \in DOMAIN task : g # f => task'[g] = task[g]
      /\ UNCHANGED <<pc, error, second, stack, processedDirs, scanned, iteration, all, ldVars>>
  BY TaskEffect
<1>2. StageInv'
  BY <1>1 DEF StageInv
<1>3. FileState(f)'
  <2>1. PICK r, t : r = files'[f] /\ t = task'[f]
    OBVIOUS
  <2>2. r \in Records(f)' /\ InTask(f, r, t)'
    BY <1>1, <2>1, RecordKept
  <2>3. f \in DOMAIN task'
    BY <1>1
  <2>. QED
    BY <2>1, <2>2, <2>3, Zenon DEF FileState
<1>4. ASSUME NEW g \in DOMAIN files, g # f PROVE FileState(g)'
  BY <1>1, <1>4, FileStateKept DEF FileInv
<1>. QED
  BY <1>1, <1>2, <1>3, <1>4 DEF FileInv

LEMMA ScanKeepsFiles ==
  ASSUME UNCHANGED systemVars, TypeInv, FileInv, StageInv, Scan
  PROVE  FileInv' /\ StageInv'
<1>. USE DEF walkVars, fileVars, ldVars
<1>1. pc = "scan" /\ task = << >>
  BY DEF Scan, Dequeue, EndOfDir, EndOfQueue, ReadFile, SkipFile, ReadDir, SkipLink, LinkThrows, LinkToFile, LinkToDir,
         LinkIs, Reading, StageInv
<1>2. ASSUME UNCHANGED <<files, task, iteration>>, pc' \in {"scan", "error"}
      PROVE  FileInv' /\ StageInv'
  BY <1>1, <1>2, FilesKept DEF StageInv
<1>3. ASSUME NEW f \in File, AddFile(f), UNCHANGED <<pc, task>>
      PROVE  FileInv' /\ StageInv'
  BY <1>1, <1>3, AddKeepsFiles DEF StageInv
<1>4. CASE EndOfQueue
  <2>1. CASE iteration = {}
    <3>1. UNCHANGED <<files, task, iteration>> /\ pc' \in {"fill", "ldconfig"}
      BY <1>4, <2>1 DEF EndOfQueue
    <3>. QED
      BY <1>1, <2>1, <3>1, FilesKept DEF StageInv
  <2>2. CASE iteration # {}
    <3>1. /\ UNCHANGED <<files, iteration>> /\ pc' = "inspect"
          /\ task' = [f \in iteration |-> [at |-> "open", left |-> << >>]]
      BY <1>4, <2>2 DEF EndOfQueue
    <3>2. StageInv'
      BY <3>1 DEF StageInv
    <3>3. ASSUME NEW f \in DOMAIN files PROVE FileState(f)'
      <4>0. DOMAIN task = {} /\ DOMAIN task' = iteration
        BY <1>1, <3>1
      <4>1. CASE f \notin iteration
        BY <3>1, <4>0, <4>1, FileStateKept DEF FileInv
      <4>2. CASE f \in iteration
        <5>1. PICK r, t : r = files[f] /\ t = [at |-> "open", left |-> << >>]
          OBVIOUS
        <5>2. r \in Records(f) /\ IsNew(r)
          BY <4>0, <4>2, <5>1 DEF FileInv, FileState
        <5>3. t.at = "open"
          BY <5>1
        <5>4. r \in Records(f)' /\ InTask(f, r, t)'
          BY <5>2, <5>3, RecordKept, Zenon DEF InTask
        <5>5. r = files'[f] /\ t = task'[f] /\ f \in DOMAIN task'
          BY <3>1, <4>0, <4>2, <5>1
        <5>. QED
          BY <5>4, <5>5, Zenon DEF FileState
      <4>. QED
        BY <4>1, <4>2
    <3>. QED
      BY <3>1, <3>2, <3>3 DEF FileInv
  <2>. QED
    BY <2>1, <2>2
<1>5. CASE Dequeue \/ EndOfDir \/ \E d \in Dir : ReadDir(d)
  BY <1>1, <1>2, <1>5 DEF Dequeue, EndOfDir, ReadDir
<1>6. CASE \E f \in File : ReadFile(f) \/ SkipFile(f)
  <2>1. PICK f \in File : ReadFile(f) \/ SkipFile(f)
    BY <1>6
  <2>. QED
    BY <1>1, <1>2, <1>3, <2>1 DEF ReadFile, SkipFile, Fail
<1>7. CASE \E l \in Link : SkipLink(l) \/ LinkThrows(l) \/ LinkToFile(l) \/ LinkToDir(l)
  <2>1. PICK l \in Link : SkipLink(l) \/ LinkThrows(l) \/ LinkToFile(l) \/ LinkToDir(l)
    BY <1>7
  <2>2. CASE LinkToFile(l)
    <3>1. RealPath[l] \in File
      BY <2>2, TreeAssumption DEF LinkToFile, LinkIs
    <3>. QED
      BY <1>1, <1>2, <1>3, <2>2, <3>1 DEF LinkToFile, Fail
  <2>. QED
    BY <1>1, <1>2, <2>1, <2>2 DEF SkipLink, LinkThrows, LinkToDir, Fail
<1>. QED
  BY <1>4, <1>5, <1>6, <1>7 DEF Scan

LEMMA RestKeepsFiles ==
  ASSUME UNCHANGED systemVars, TypeInv, FileInv, StageInv,
         WaitAll \/ LdStart \/ LdOther \/ LdThrows \/ LdAdd \/ LdEnd \/ Fill
  PROVE  FileInv' /\ StageInv'
<1>. USE DEF walkVars, fileVars, ldVars
<1>1. ASSUME UNCHANGED <<files, task, iteration>>, pc' = "error" \/ (task = << >> /\ pc' \in {"scan", "ldconfig"})
      PROVE  FileInv' /\ StageInv'
  BY <1>1, FilesKept DEF StageInv
<1>2. CASE WaitAll
  <2>1. pc = "inspect" /\ DOMAIN task = iteration /\ \A f \in DOMAIN task : task[f].at \in {"done", "threw"}
    BY <1>2 DEF WaitAll, StageInv
  <2>2. iteration \subseteq DOMAIN files
    BY DEF TypeInv, TypeOK
  <2>3. ASSUME NEW f \in DOMAIN task
        PROVE  /\ task[f].at = "done"
               /\ \A r : r = files[f] => r \in Records(f) /\ Inspected(f, r)
    <3>1. PICK r, t : r = files[f] /\ t = task[f]
      OBVIOUS
    <3>2. r \in Records(f) /\ InTask(f, r, t)
      BY <2>1, <2>2, <3>1 DEF FileInv, FileState
    <3>3. t.at \in {"done", "threw"}
      BY <2>1, <3>1
    <3>4. t.at = "done" /\ Inspected(f, r)
      BY <3>2, <3>3 DEF InTask
    <3>. QED
      BY <3>1, <3>2, <3>4
  <2>4. /\ pc' = "scan" /\ iteration' = {} /\ task' = << >> /\ files' = files
    BY <1>2, <2>3 DEF WaitAll
  <2>5. DOMAIN task' = {}
    BY <2>4
  <2>6. ASSUME NEW f \in DOMAIN files PROVE FileState(f)'
    <3>1. CASE f \in DOMAIN task
      <4>1. ASSUME NEW r, r = files'[f] PROVE r \in Records(f)' /\ Inspected(f, r)'
        BY <2>3, <2>4, <3>1, <4>1, RecordKept
      <4>. QED
        BY <2>4, <2>5, <4>1 DEF FileState
    <3>2. CASE f \notin DOMAIN task
      BY <2>1, <2>4, <2>5, <3>2, FileStateKept DEF FileInv
    <3>. QED
      BY <3>1, <3>2
  <2>7. FileInv'
    BY <2>4, <2>6 DEF FileInv
  <2>8. StageInv'
    BY <2>4 DEF StageInv
  <2>. QED
    BY <2>7, <2>8
<1>3. ASSUME pc = "ldconfig" PROVE task = << >>
  BY <1>3 DEF StageInv
<1>4. CASE LdStart \/ LdOther \/ LdThrows \/ LdEnd
  BY <1>1, <1>3, <1>4 DEF LdStart, LdOther, LdThrows, LdEnd, AtLdEnd, LdRow, LdUnchanged, Fail
<1>5. CASE LdAdd
  <2>. DEFINE path == LdLines[line].path
              f == LdReal(path)
  <2>1. /\ pc = "ldconfig" /\ f \in File /\ UNCHANGED <<pc, error, walkVars, task>>
        /\ IF path \in DOMAIN all \/ f \in DOMAIN all THEN UNCHANGED fileVars
           ELSE AddFile(f) /\ all' = WithFile(f)
    BY <1>5 DEF LdAdd, LdRow, LdUnchanged
  <2>. HIDE DEF f, path
  <2>2. UNCHANGED <<files, task, iteration>> \/ AddFile(f)
    BY <2>1
  <2>3. FileInv'
    BY <1>3, <2>1, <2>2, FilesKept, AddKeepsFiles
  <2>4. StageInv'
    BY <1>3, <2>1 DEF StageInv
  <2>. QED
    BY <2>3, <2>4
<1>6. CASE Fill
  BY <1>6, FilesKept DEF Fill, StageInv
<1>. QED
  BY <1>2, <1>4, <1>5, <1>6
-----------------------------------------------------------------------------
(* What Resolver is given, for any tree.                                   *)

LibsInv == (pc # "done" => DOMAIN libs = {}) /\ LibsSound
RecordInv == SystemInv /\ StageInv /\ FileInv /\ LibsInv

LEMMA SystemAlways ==
  /\ Init => SystemInv
  /\ SystemInv /\ UNCHANGED systemVars => SystemInv'
<1>1. Init => SystemInv
  BY TreeAssumption DEF Init, SystemInv, LdLines
<1>2. SystemInv /\ UNCHANGED systemVars => SystemInv'
  BY DEF SystemInv, systemVars, LdLines
<1>. QED
  BY <1>1, <1>2

LEMMA LibsKept ==
  ASSUME UNCHANGED systemVars, LibsInv, UNCHANGED libs, pc' # "done" => pc # "done"
  PROVE  LibsInv'
<1>1. image' = image /\ \A f : IsDynamic(f)' <=> IsDynamic(f)
  BY SystemKept
<1>2. ASSUME NEW k \in DOMAIN libs
      PROVE  \A f : f = libs[k] => LdReal(k[1])' = f /\ IsDynamic(f)' /\ image'[f].header = "ET_DYN" /\ image'[f].is32 = k[2]
  BY <1>1 DEF LibsInv, LibsSound, LdReal
<1>3. LibsSound'
  BY <1>2 DEF LibsSound
<1>. QED
  BY <1>3 DEF LibsInv

\* When no task is left and no file is new, every file has been inspected.
LEMMA AllInspected ==
  ASSUME FileInv, task = << >>, iteration = {}, NEW f \in DOMAIN files
  PROVE  files[f] \in Records(f) /\ Inspected(f, files[f])
<1>1. DOMAIN task = {}
  OBVIOUS
<1>. QED
  BY <1>1 DEF FileInv, FileState

LEMMA FillMakesLibs ==
  ASSUME UNCHANGED systemVars, TypeInv, RecordInv, Fill
  PROVE  /\ DOMAIN libs' = {<<p, files[all[p]].is32>> : p \in LibPaths}
         /\ LibsInv'
<1>1. /\ pc = "fill" /\ pc' = "done" /\ task = << >> /\ iteration = {}
      /\ libs' = [k \in {<<p, files[all[p]].is32>> : p \in LibPaths} |-> all[k[1]]]
  BY DEF Fill, RecordInv, StageInv
<1>2. image' = image /\ \A f : IsDynamic(f)' <=> IsDynamic(f)
  BY SystemKept
<1>3. ASSUME NEW k \in DOMAIN libs'
      PROVE  LET f == libs'[k]
             IN  LdReal(k[1]) = f /\ IsDynamic(f) /\ image[f].header = "ET_DYN" /\ image[f].is32 = k[2]
  <2>1. PICK p \in LibPaths : k = <<p, files[all[p]].is32>>
    BY <1>1
  <2>2. PICK f : f = all[p]
    OBVIOUS
  <2>3. k[1] = p /\ k[2] = files[f].is32 /\ libs'[k] = f
    BY <1>1, <2>1, <2>2
  <2>4. f \in DOMAIN files /\ LdReal(p) = f /\ files[f].isLib
    BY <2>2 DEF LibPaths, TypeInv, TypeOK, Range
  <2>5. files[f] \in Records(f) /\ Inspected(f, files[f])
    BY <1>1, <2>4, AllInspected DEF RecordInv
  <2>6. IsDynamic(f) /\ image[f].header = "ET_DYN" /\ (files[f].is32 <=> image[f].is32)
    BY <2>4, <2>5 DEF Inspected
  <2>7. files[f].is32 = image[f].is32
    <3>1. files[f].is32 \in BOOLEAN
      BY <2>5 DEF Records
    <3>2. image[f].is32 \in BOOLEAN
      BY <2>4 DEF RecordInv, SystemInv, IsImage, TypeInv, TypeOK
    <3>. QED
      BY <2>6, <3>1, <3>2
  <2>. QED
    BY <2>3, <2>4, <2>6, <2>7
<1>4. LibsSound'
  <2>1. ASSUME NEW k \in DOMAIN libs'
        PROVE  \A f : f = libs'[k] =>
                 LdReal(k[1])' = f /\ IsDynamic(f)' /\ image'[f].header = "ET_DYN" /\ image'[f].is32 = k[2]
    BY <1>2, <1>3 DEF LdReal
  <2>. QED
    BY <2>1 DEF LibsSound
<1>. QED
  BY <1>1, <1>4 DEF LibsInv

LEMMA RecordStep == ASSUME TypeInv, RecordInv, [Next]_vars PROVE RecordInv'
<1>1. SystemInv' /\ UNCHANGED systemVars
  BY SystemAlways DEF RecordInv, Next, vars
<1>2. FileInv' /\ StageInv'
  <2>1. CASE UNCHANGED vars
    BY <1>1, <2>1, FilesKept DEF RecordInv, StageInv, vars, fileVars
  <2>2. CASE Next
    BY <1>1, <2>1, <2>2, ScanKeepsFiles, TaskKeepsFiles, RestKeepsFiles DEF RecordInv, Next, Main, Stopped
  <2>. QED
    BY <2>1, <2>2
<1>3. LibsInv'
  <2>1. CASE Fill
    BY <1>1, <2>1, FillMakesLibs
  <2>2. CASE ~Fill
    <3>1. UNCHANGED libs /\ (pc' # "done" => pc # "done")
      <4>1. CASE UNCHANGED vars
        BY <4>1 DEF vars, ldVars
      <4>2. CASE Scan
        BY <4>2 DEF Scan, Dequeue, EndOfDir, EndOfQueue, ReadFile, SkipFile, ReadDir, SkipLink, LinkThrows, LinkToFile,
                    LinkToDir, Fail, LinkIs, Reading, ldVars
      <4>3. ASSUME NEW f \in File, Task(f) PROVE UNCHANGED libs /\ (pc' # "done" => pc # "done")
        BY <4>3, TaskEffect DEF RecordInv, ldVars
      <4>4. CASE WaitAll \/ LdStart \/ LdOther \/ LdThrows \/ LdAdd \/ LdEnd
        BY <4>4 DEF WaitAll, LdStart, LdOther, LdThrows, LdAdd, LdEnd, Fail, LdUnchanged, LdRow, AtLdEnd, ldVars
      <4>. QED
        BY <2>2, <4>1, <4>2, <4>3, <4>4 DEF Next, Main, Stopped
    <3>. QED
      BY <1>1, <3>1, LibsKept DEF RecordInv
  <2>. QED
    BY <2>1, <2>2
<1>. QED
  BY <1>1, <1>2, <1>3 DEF RecordInv

LEMMA RecordInit == ASSUME Init PROVE RecordInv
<1>1. /\ pc = "scan" /\ task = << >> /\ DOMAIN files = {} /\ DOMAIN libs = {}
  BY DEF Init
<1>2. StageInv /\ FileInv /\ LibsInv
  BY <1>1 DEF StageInv, FileInv, LibsInv, LibsSound
<1>. QED
  BY <1>2, SystemAlways DEF RecordInv

LEMMA RecordInvariance == Spec => []RecordInv
<1>1. Init => RecordInv
  BY RecordInit
<1>2. TypeInv /\ RecordInv /\ [Next]_vars => RecordInv'
  BY RecordStep
<1>. QED
  BY <1>1, <1>2, TypeInvariance, PTL DEF Spec

\* Whatever the tree, the images and the order of the tasks, each file that was
\* collected has been inspected, and its record says just what its DYNAMIC
\* section and the configuration do.
THEOREM EachFileInspected == Spec => []InspectedExactly
<1>1. RecordInv => InspectedExactly
  BY AllInspected DEF RecordInv, StageInv, InspectedExactly
<1>. QED
  BY RecordInvariance, <1>1, PTL

\* data.libs leads from a path to the library there, and to no other file.
THEOREM EachLibIsOne == Spec => []LibsSound
<1>1. RecordInv => LibsSound
  BY DEF RecordInv, LibsInv
<1>. QED
  BY RecordInvariance, <1>1, PTL
-----------------------------------------------------------------------------
(* The directories that should be scanned.                                 *)

Start == {sp.dir : sp \in {s \in Range(ScanPaths) : s.inode # 0}} \ Ignored
More(dirs) == ((Targets(dirs) \cap Dir) \cup RequestedBy(FilesIn(dirs))) \ Ignored
Closed(dirs) == Start \subseteq dirs /\ More(dirs) \subseteq dirs

LEMMA MoreIs ==
  ASSUME TypeInv
  PROVE  /\ Start \subseteq Dir
         /\ \A dirs : More(dirs) \subseteq Dir
         /\ \A a, b : a \subseteq b => More(a) \subseteq More(b)
<1>1. Start \subseteq Dir
  <2>1. PICK S : S = SearchPath
    OBVIOUS
  <2>2. \A sp \in S : sp.dir \in Dir
    BY <2>1 DEF SearchPath
  <2>3. PICK n \in Nat : n = Len(ScanPaths) /\ DOMAIN ScanPaths = 1..n
    BY TreeAssumption
  <2>4. \A i \in 1..n : ScanPaths[i] \in S
    BY <2>1, <2>3, TreeAssumption
  <2>. QED
    BY <2>2, <2>3, <2>4 DEF Start, Range
<1>2. ASSUME NEW dirs
      PROVE  More(dirs) \subseteq Dir
  <2>1. FilesIn(dirs) \subseteq File
    BY TreeAssumption DEF FilesIn
  <2>2. ASSUME NEW f \in File
        PROVE  ConfigDirs(f) \subseteq Dir
    <3>1. PICK S : S = SearchPath
      OBVIOUS
    <3>2. \A sp \in S : sp.dir \in Dir
      BY <3>1 DEF SearchPath
    <3>3. PICK paths \in Seq(S) : paths = ConfigPaths(f)
      BY <3>1, ConfigPathsIn, TreeAssumption DEF TypeInv
    <3>4. PICK n \in Nat : n = Len(paths) /\ DOMAIN paths = 1..n
      OBVIOUS
    <3>5. Range(paths) \subseteq S
      BY <3>4 DEF Range
    <3>. QED
      BY <3>2, <3>3, <3>5 DEF ConfigDirs
  <2>3. \A f : RunDirs(f) \subseteq Dir
    BY DEF RunDirs
  <2>4. RequestedBy(FilesIn(dirs)) \subseteq Dir
    BY <2>1, <2>2, <2>3 DEF RequestedBy
  <2>. QED
    BY <2>4 DEF More
<1>3. ASSUME NEW a, NEW b, a \subseteq b
      PROVE  More(a) \subseteq More(b)
  <2>1. Targets(a) \subseteq Targets(b)
    BY <1>3 DEF Targets, Entries
  <2>2. FilesIn(a) \subseteq FilesIn(b)
    BY <2>1 DEF FilesIn
  <2>3. RequestedBy(FilesIn(a)) \subseteq RequestedBy(FilesIn(b))
    BY <2>2 DEF RequestedBy
  <2>. QED
    BY <2>1, <2>3 DEF More
<1>. QED
  BY <1>1, <1>2, <1>3

\* What Reachable computes: its recursive function exists by induction.
LEMMA ReachableBy ==
  \E g : /\ g = [n \in 0..Cardinality(Dir) |-> IF n = 0 THEN Start ELSE g[n - 1] \cup More(g[n - 1])]
         /\ Reachable = g[Cardinality(Dir)]
<1>. DEFINE Good(g, n) == \A i \in 0..n : g[i] = IF i = 0 THEN Start ELSE g[i - 1] \cup More(g[i - 1])
            Bad == {n \in Nat : ~ \E g : Good(g, n)}
<1>0. PICK c \in Nat : c = Cardinality(Dir)
  BY TreeAssumption, FS_CardinalityType
<1>1. Bad = {}
  <2>. SUFFICES ASSUME Bad # {} PROVE FALSE
    OBVIOUS
  <2>1. PICK n \in Bad : \A j \in Bad : n <= j
    <3>1. Bad \in SUBSET Nat
      OBVIOUS
    <3>. HIDE DEF Bad
    <3>. QED
      BY <3>1, LeastElement
  <2>2. n \in Nat /\ ~ \E g : Good(g, n)
    OBVIOUS
  <2>3. CASE n = 0
    <3>. DEFINE h == [i \in 0..0 |-> Start]
    <3>1. Good(h, 0)
      OBVIOUS
    <3>. QED
      BY <2>2, <2>3, <3>1
  <2>4. CASE n # 0
    <3>0. n - 1 \in Nat /\ ~(n <= n - 1)
      BY <2>2, <2>4
    <3>1. n - 1 \notin Bad
      BY <2>1, <3>0, Zenon
    <3>2. PICK g : Good(g, n - 1)
      BY <3>0, <3>1
    <3>. DEFINE h == [i \in 0..n |-> IF i = n THEN g[n - 1] \cup More(g[n - 1]) ELSE g[i]]
    <3>3. ASSUME NEW i \in 0..n
          PROVE  h[i] = IF i = 0 THEN Start ELSE h[i - 1] \cup More(h[i - 1])
      <4>1. CASE i = n
        <5>1. n \in 0..n /\ n - 1 \in 0..n /\ n - 1 # n
          BY <2>2, <2>4
        <5>2. h[n] = g[n - 1] \cup More(g[n - 1]) /\ h[n - 1] = g[n - 1]
          BY <5>1
        <5>. QED
          BY <2>4, <4>1, <5>2
      <4>2. CASE i # n
        <5>1. i \in 0..(n - 1) /\ h[i] = g[i]
          BY <2>2, <4>2
        <5>2. i # 0 => i - 1 \in 0..n /\ i - 1 # n /\ h[i - 1] = g[i - 1]
          BY <2>2, <5>1
        <5>. QED
          BY <3>2, <5>1, <5>2
      <4>. QED
        BY <4>1, <4>2
    <3>4. Good(h, n)
      BY <3>3
    <3>. QED
      BY <2>2, <3>4
  <2>. QED
    BY <2>3, <2>4
<1>2. PICK g : Good(g, c)
  <2>1. c \notin Bad
    BY <1>1, Zenon
  <2>. QED
    BY <2>1
<1>. DEFINE h == [i \in 0..c |-> g[i]]
<1>3. h = [n \in 0..c |-> IF n = 0 THEN Start ELSE h[n - 1] \cup More(h[n - 1])]
  <2>1. ASSUME NEW n \in 0..c
        PROVE  h[n] = IF n = 0 THEN Start ELSE h[n - 1] \cup More(h[n - 1])
    <3>1. n # 0 => n - 1 \in 0..c
      OBVIOUS
    <3>2. h[n] = g[n] /\ (n # 0 => h[n - 1] = g[n - 1])
      BY <3>1
    <3>. QED
      BY <1>2, <3>2
  <2>. QED
    BY <2>1
<1>. DEFINE step[n \in 0..c] == IF n = 0 THEN Start ELSE step[n - 1] \cup More(step[n - 1])
<1>. HIDE DEF h
<1>4. step = [n \in 0..c |-> IF n = 0 THEN Start ELSE step[n - 1] \cup More(step[n - 1])]
  BY <1>3
<1>5. Reachable = step[c]
  BY <1>0 DEF Reachable, Start, More
<1>. HIDE DEF step
<1>. QED
  BY <1>0, <1>4, <1>5

\* The least set of directories that is closed: after each step it is closed, or
\* has as many members as there were steps.
LEMMA ReachableIs ==
  ASSUME TypeInv
  PROVE  /\ Reachable \subseteq Dir /\ Closed(Reachable)
         /\ \A dirs : Closed(dirs) => Reachable \subseteq dirs
<1>0. PICK c \in Nat : c = Cardinality(Dir)
  BY TreeAssumption, FS_CardinalityType
<1>1. PICK g : /\ g = [n \in 0..c |-> IF n = 0 THEN Start ELSE g[n - 1] \cup More(g[n - 1])]
               /\ Reachable = g[c]
  BY <1>0, ReachableBy
<1>2. /\ g[0] = Start
      /\ \A n \in 0..c : n # 0 => n - 1 \in 0..c /\ g[n] = g[n - 1] \cup More(g[n - 1])
  <2>1. 0 \in 0..c
    OBVIOUS
  <2>2. g[0] = Start
    BY <1>1, <2>1
  <2>3. \A n \in 0..c : n # 0 => n - 1 \in 0..c
    OBVIOUS
  <2>4. \A n \in 0..c : n # 0 => g[n] = g[n - 1] \cup More(g[n - 1])
    BY <1>1
  <2>. QED
    BY <2>2, <2>3, <2>4
<1>3. /\ Start \subseteq Dir
      /\ \A dirs : More(dirs) \subseteq Dir
      /\ \A a, b : a \subseteq b => More(a) \subseteq More(b)
  BY MoreIs
<1>. DEFINE Right(n) == /\ g[n] \subseteq Dir /\ Start \subseteq g[n]
                        /\ \A dirs : Closed(dirs) => g[n] \subseteq dirs
                        /\ More(g[n]) \subseteq g[n] \/ Cardinality(g[n]) >= n
            Wrong == {n \in 0..c : ~Right(n)}
<1>4. Right(0)
  <2>1. IsFiniteSet(Start)
    BY <1>3, TreeAssumption, FS_Subset
  <2>2. Cardinality(g[0]) >= 0
    BY <1>2, <2>1, FS_CardinalityType
  <2>. QED
    BY <1>2, <1>3, <2>2 DEF Closed
<1>5. ASSUME NEW n \in 0..c, n # 0, Right(n - 1)
      PROVE  Right(n)
  <2>1. PICK a, b : a = g[n - 1] /\ b = g[n]
    OBVIOUS
  <2>2. b = a \cup More(a)
    BY <1>2, <1>5, <2>1
  <2>3. /\ a \subseteq Dir /\ Start \subseteq a
        /\ \A dirs : Closed(dirs) => a \subseteq dirs
        /\ More(a) \subseteq a \/ Cardinality(a) >= n - 1
    BY <1>5, <2>1
  <2>4. b \subseteq Dir /\ Start \subseteq b
    BY <1>3, <2>2, <2>3
  <2>5. ASSUME NEW dirs, Closed(dirs) PROVE b \subseteq dirs
    <3>1. a \subseteq dirs /\ More(dirs) \subseteq dirs
      BY <2>3, <2>5 DEF Closed
    <3>2. More(a) \subseteq More(dirs)
      BY <1>3, <3>1
    <3>. QED
      BY <2>2, <3>1, <3>2
  <2>6. More(b) \subseteq b \/ Cardinality(b) >= n
    <3>1. CASE More(a) \subseteq a
      <4>1. b = a
        BY <2>2, <3>1
      <4>. QED
        BY <3>1, <4>1
    <3>2. CASE ~(More(a) \subseteq a)
      <4>1. PICK x \in More(a) : x \notin a
        BY <3>2
      <4>2. IsFiniteSet(a) /\ IsFiniteSet(b)
        BY <2>3, <2>4, TreeAssumption, FS_Subset
      <4>3. IsFiniteSet(a \cup {x}) /\ Cardinality(a \cup {x}) = Cardinality(a) + 1
        BY <4>1, <4>2, FS_AddElement
      <4>4. a \cup {x} \in SUBSET b
        BY <2>2, <4>1
      <4>5. Cardinality(a \cup {x}) <= Cardinality(b)
        BY <4>2, <4>4, FS_Subset
      <4>6. Cardinality(a) \in Nat /\ Cardinality(b) \in Nat
        BY <4>2, FS_CardinalityType
      <4>7. Cardinality(a) >= n - 1
        BY <2>3, <3>2
      <4>. QED
        BY <4>3, <4>5, <4>6, <4>7
    <3>. QED
      BY <3>1, <3>2
  <2>. QED
    BY <2>1, <2>4, <2>5, <2>6
<1>6. Wrong = {}
  <2>. SUFFICES ASSUME Wrong # {} PROVE FALSE
    OBVIOUS
  <2>1. PICK n \in Wrong : \A j \in Wrong : n <= j
    <3>1. Wrong \in SUBSET Nat
      OBVIOUS
    <3>. HIDE DEF Wrong
    <3>. QED
      BY <3>1, LeastElement
  <2>2. n \in 0..c /\ ~Right(n)
    OBVIOUS
  <2>. HIDE DEF Right
  <2>3. n # 0
    BY <1>4, <2>2
  <2>4. n - 1 \in 0..c /\ ~(n <= n - 1)
    BY <2>2, <2>3
  <2>5. n - 1 \notin Wrong
    BY <2>1, <2>4, Zenon
  <2>6. Right(n - 1)
    BY <2>4, <2>5
  <2>. QED
    BY <1>5, <2>2, <2>3, <2>6
<1>7. Right(c)
  <2>1. c \in 0..c
    OBVIOUS
  <2>2. c \notin Wrong
    BY <1>6, Zenon
  <2>. HIDE DEF Right
  <2>. QED
    BY <2>1, <2>2
<1>8. More(g[c]) \subseteq g[c]
  <2>1. CASE Cardinality(g[c]) >= c
    <3>1. g[c] \in SUBSET Dir
      BY <1>7
    <3>2. Cardinality(g[c]) <= Cardinality(Dir) /\ IsFiniteSet(g[c]) /\ (Cardinality(Dir) = Cardinality(g[c]) => Dir = g[c])
      BY <3>1, TreeAssumption, FS_Subset
    <3>3. Cardinality(g[c]) \in Nat
      BY <3>2, FS_CardinalityType
    <3>4. Dir = g[c]
      BY <1>0, <2>1, <3>2, <3>3
    <3>. QED
      BY <1>3, <3>4
  <2>. QED
    BY <1>7, <2>1
<1>. QED
  BY <1>1, <1>7, <1>8 DEF Closed

LEMMA ReachableKept ==
  ASSUME UNCHANGED systemVars
  PROVE  /\ \A dirs : FilesIn(dirs)' = FilesIn(dirs)
         /\ Reachable' = Reachable
<1>1. image' = image /\ ldconfig' = ldconfig /\ rules' = rules
  BY DEF systemVars
<1>2. ASSUME NEW dirs PROVE FilesIn(dirs)' = FilesIn(dirs)
  BY <1>1 DEF FilesIn, LdRows, LdLines, LdReal, Targets, Entries
<1>3. ASSUME NEW found PROVE RequestedBy(found)' = RequestedBy(found)
  <2>1. \A f : RunDirs(f)' = RunDirs(f) /\ ConfigDirs(f)' = ConfigDirs(f)
    BY SystemKept
  <2>. QED
    BY <2>1 DEF RequestedBy
<1>4. Reachable' = Reachable
  BY <1>1 DEF Reachable, RequestedBy, FilesIn, LdRows, LdLines, LdReal, Targets, Entries,
              RunDirs, RunPathsRead, ConfigDirs, ConfigPaths, IsDynamic
<1>. QED
  BY <1>2, <1>4
-----------------------------------------------------------------------------
(* What has been asked for, and what has been seen.                        *)

Asked(d) == d \in Ignored \/ d \in scanned \/ \E i \in DOMAIN queue : queue[i].dir = d
DirsOf(paths) == {sp.dir : sp \in {s \in Range(paths) : s.inode # 0}}
AskedAll(f) == \A d \in RunDirs(f) \cup ConfigDirs(f) : Asked(d)

\* The part of the requests of f that its task has got to.
AskedSoFar(f, r, t) ==
  /\ t.at = "run paths" => \A d \in DirsTo(f, ReadSoFar(f, t.left)) : Asked(d)
  /\ t.at = "config" => \A d \in RunDirs(f) \cup DirsOf(r.configPaths) : Asked(d)
  /\ t.at = "done" => AskedAll(f)
FileAsked(f) ==
  \A r, t : r = files[f] /\ t = task[f] =>
    IF f \in DOMAIN task THEN AskedSoFar(f, r, t) ELSE f \notin iteration => AskedAll(f)

\* Nothing is left to do about the directory entry e.
Seen(e) ==
  \/ e \in Ignored
  \/ /\ LdReal(e) \in Dir => LdReal(e) \in scanned \cup Ignored
     /\ LdReal(e) \in Wanted => LdReal(e) \in DOMAIN files /\ e \in DOMAIN all
Pending(frames, d, e) == \E i \in DOMAIN frames : frames[i].dir = d /\ e \in frames[i].todo

AskInv ==
  /\ \A d \in Start : Asked(d)
  /\ \A f \in DOMAIN files : FileAsked(f)
SeenInv == pc # "done" => \A d \in scanned : \A e \in Children[d] : Seen(e) \/ Pending(stack, d, e)
LdInv ==
  /\ line \in Nat /\ (pc = "ldconfig" => ~second)
  /\ \A i \in 1..(line - 1) : /\ i \in DOMAIN LdLines /\ LdLines[i].kind = "row"
                              /\ LdReal(LdLines[i].path) \in File => LdReal(LdLines[i].path) \in DOMAIN files
  /\ second => /\ line > 0 /\ line - 1 = ldconfig.count
               /\ \A i \in DOMAIN LdLines : LdLines[i].kind = "row" => i \in 1..(line - 1)
  /\ pc \in {"fill", "done"} => second
SoundInv ==
  /\ scanned \subseteq Reachable
  /\ \A i \in DOMAIN queue : queue[i].dir \in Reachable \cup Ignored
  /\ DOMAIN files \subseteq FilesIn(Reachable)
EndInv ==
  pc \in {"fill", "done"} =>
    /\ stack = << >> /\ scanned = Reachable /\ DOMAIN files = FilesIn(Reachable)
    /\ Cardinality({i \in DOMAIN LdLines : LdLines[i].kind = "row"}) = ldconfig.count
    /\ pc = "done" => LibsComplete
ExactInv == AskInv /\ SeenInv /\ LdInv /\ SoundInv /\ EndInv

\* Requests are not forgotten: each is still in the queue, or has been met.
Met == scanned \subseteq scanned' /\ \A d : \A i \in DOMAIN queue : d = queue[i].dir => Asked(d)'

LEMMA AskedKept ==
  ASSUME UNCHANGED systemVars, Met
  PROVE  /\ \A d : Asked(d) => Asked(d)'
         /\ \A f : AskedAll(f) => AskedAll(f)'
         /\ \A f, r, t : AskedSoFar(f, r, t) => AskedSoFar(f, r, t)'
<1>1. ASSUME NEW d, Asked(d) PROVE Asked(d)'
  <2>1. CASE d \in Ignored \/ d \in scanned
    BY <2>1 DEF Asked, Met
  <2>2. CASE ~(d \in Ignored \/ d \in scanned)
    <3>1. PICK i \in DOMAIN queue : queue[i].dir = d
      BY <1>1, <2>2 DEF Asked
    <3>. QED
      BY <3>1 DEF Met
  <2>. QED
    BY <2>1, <2>2
<1>2. ASSUME NEW f
      PROVE  /\ RunDirs(f)' = RunDirs(f) /\ ConfigDirs(f)' = ConfigDirs(f)
             /\ \A n : DirsTo(f, n)' = DirsTo(f, n)
             /\ \A left : ReadSoFar(f, left)' = ReadSoFar(f, left)
  BY SystemKept DEF ReadSoFar
<1>3. ASSUME NEW f, AskedAll(f) PROVE AskedAll(f)'
  BY <1>1, <1>2, <1>3 DEF AskedAll
<1>4. ASSUME NEW f, NEW r, NEW t, AskedSoFar(f, r, t) PROVE AskedSoFar(f, r, t)'
  BY <1>1, <1>2, <1>3, <1>4 DEF AskedSoFar
<1>. QED
  BY <1>1, <1>3, <1>4

LEMMA FileAskedKept ==
  ASSUME UNCHANGED systemVars, Met, NEW f, FileAsked(f), files'[f] = files[f],
         f \in DOMAIN task <=> f \in DOMAIN task', f \in DOMAIN task => task'[f] = task[f],
         f \in iteration => f \in iteration'
  PROVE  FileAsked(f)'
<1>1. PICK r, t : r = files[f] /\ t = task[f]
  OBVIOUS
<1>2. /\ f \in DOMAIN task => AskedSoFar(f, r, t)
      /\ f \notin DOMAIN task /\ f \notin iteration => AskedAll(f)
  BY <1>1 DEF FileAsked
<1>3. /\ f \in DOMAIN task' => AskedSoFar(f, r, t)'
      /\ f \notin DOMAIN task' /\ f \notin iteration' => AskedAll(f)'
  BY <1>2, AskedKept
<1>4. r = files'[f] /\ (f \in DOMAIN task' => t = task'[f])
  BY <1>1
<1>5. ASSUME NEW s, NEW u, s = files'[f], u = task'[f]
      PROVE  IF f \in DOMAIN task' THEN AskedSoFar(f, s, u)' ELSE f \notin iteration' => AskedAll(f)'
  <2>1. s = r /\ (f \in DOMAIN task' => u = t)
    BY <1>4, <1>5
  <2>. QED
    BY <1>3, <2>1
<1>. QED
  BY <1>5 DEF FileAsked

LEMMA AskKept ==
  ASSUME UNCHANGED systemVars, Met, AskInv, UNCHANGED <<files, task>>, iteration \subseteq iteration'
  PROVE  AskInv'
<1>1. \A d \in Start : Asked(d)'
  BY AskedKept DEF AskInv
<1>2. ASSUME NEW f \in DOMAIN files' PROVE FileAsked(f)'
  BY <1>2, FileAskedKept DEF AskInv
<1>. QED
  BY <1>1, <1>2 DEF AskInv, Start

\* A file that is added has not asked for anything yet.
LEMMA AddKeepsAsk ==
  ASSUME UNCHANGED systemVars, TypeInv, Met, AskInv, NEW f \in File, AddFile(f), task = << >>, task' = << >>
  PROVE  AskInv'
<1>1. \A d \in Start : Asked(d)'
  BY AskedKept DEF AskInv
<1>2. DOMAIN task = {} /\ DOMAIN task' = {}
  OBVIOUS
<1>3. /\ DOMAIN files' = DOMAIN files \cup {f} /\ \A g \in DOMAIN files : files'[g] = files[g]
      /\ iteration' = iteration \cup (IF f \in DOMAIN files THEN {} ELSE {f})
  BY AddFileEffect
<1>4. ASSUME NEW g \in DOMAIN files' PROVE FileAsked(g)'
  <2>1. CASE g \in DOMAIN files
    BY <1>2, <1>3, <2>1, FileAskedKept DEF AskInv
  <2>2. CASE g \notin DOMAIN files
    <3>1. g \notin DOMAIN task' /\ g \in iteration'
      BY <1>2, <1>3, <2>2
    <3>. QED
      BY <3>1 DEF FileAsked
  <2>. QED
    BY <2>1, <2>2
<1>. QED
  BY <1>1, <1>4 DEF AskInv, Start

\* What is pending on the stack after each kind of step.
LEMMA PendingLess ==
  ASSUME NEW c, stack \in Frames, stack # << >>
  PROVE  \A d, e : Pending(stack, d, e) => Pending(Without(c), d, e) \/ e = c
<1>1. /\ Without(c) \in Frames /\ Len(Without(c)) = Len(stack) /\ Without(c) # << >>
      /\ Without(c)[1].dir = stack[1].dir /\ Without(c)[1].todo = stack[1].todo \ {c}
      /\ \A i \in 1..Len(stack) : i # 1 => Without(c)[i] = stack[i]
  BY WithoutType
<1>2. DOMAIN Without(c) = 1..Len(stack) /\ DOMAIN stack = 1..Len(stack)
  <2>1. \A s \in Frames : DOMAIN s = 1..Len(s)
    BY DEF Frames
  <2>. QED
    BY <1>1, <2>1
<1>3. ASSUME NEW d, NEW e, Pending(stack, d, e), e # c
      PROVE  Pending(Without(c), d, e)
  <2>1. PICK i \in 1..Len(stack) : stack[i].dir = d /\ e \in stack[i].todo
    BY <1>2, <1>3 DEF Pending
  <2>2. Without(c)[i].dir = d /\ e \in Without(c)[i].todo
    BY <1>1, <1>3, <2>1
  <2>. QED
    BY <1>2, <2>2 DEF Pending
<1>. QED
  BY <1>3

LEMMA PendingPushed ==
  ASSUME NEW d \in Dir, NEW rest \in Frames
  PROVE  /\ \A e \in Children[d] : Pending(<<Frame(d)>> \o rest, d, e)
         /\ \A b, e : Pending(rest, b, e) => Pending(<<Frame(d)>> \o rest, b, e)
<1>1. /\ <<Frame(d)>> \o rest \in Frames /\ Len(<<Frame(d)>> \o rest) = Len(rest) + 1
      /\ (<<Frame(d)>> \o rest)[1] = [dir |-> d, todo |-> Children[d]]
      /\ \A i \in 1..Len(rest) : (<<Frame(d)>> \o rest)[i + 1] = rest[i]
  BY FrameType
<1>. DEFINE s == <<Frame(d)>> \o rest
<1>. HIDE DEF s
<1>2. /\ DOMAIN s = 1..(Len(rest) + 1) /\ DOMAIN rest = 1..Len(rest) /\ Len(rest) \in Nat
      /\ s[1] = [dir |-> d, todo |-> Children[d]] /\ \A i \in 1..Len(rest) : s[i + 1] = rest[i]
  <2>1. \A r \in Frames : DOMAIN r = 1..Len(r) /\ Len(r) \in Nat
    BY DEF Frames
  <2>. QED
    BY <1>1, <2>1 DEF s
<1>3. 1 \in DOMAIN s /\ \A i \in DOMAIN rest : i + 1 \in DOMAIN s /\ s[i + 1] = rest[i]
  BY <1>2
<1>4. \A e \in Children[d] : Pending(s, d, e)
  BY <1>2, <1>3 DEF Pending
<1>5. \A b, e : Pending(rest, b, e) => Pending(s, b, e)
  BY <1>3 DEF Pending
<1>. QED
  BY <1>4, <1>5 DEF s

LEMMA PendingBelow ==
  ASSUME stack \in Frames, stack # << >>, Head(stack).todo = {}
  PROVE  \A d, e : Pending(stack, d, e) => Pending(Tail(stack), d, e)
<1>1. /\ Tail(stack) \in Frames /\ Len(Tail(stack)) = Len(stack) - 1 /\ Head(stack) = stack[1]
      /\ \A i \in 1..Len(Tail(stack)) : Tail(stack)[i] = stack[i + 1]
      /\ Len(stack) \in Nat \ {0}
  BY PushPop DEF Frames
<1>2. DOMAIN stack = 1..Len(stack) /\ DOMAIN Tail(stack) = 1..(Len(stack) - 1)
  <2>1. \A r \in Frames : DOMAIN r = 1..Len(r)
    BY DEF Frames
  <2>. QED
    BY <1>1, <2>1
<1>3. ASSUME NEW d, NEW e, Pending(stack, d, e)
      PROVE  Pending(Tail(stack), d, e)
  <2>1. PICK i \in 1..Len(stack) : stack[i].dir = d /\ e \in stack[i].todo
    BY <1>2, <1>3 DEF Pending
  <2>2. i # 1
    BY <1>1, <2>1
  <2>3. i - 1 \in 1..(Len(stack) - 1) /\ Tail(stack)[i - 1] = stack[(i - 1) + 1] /\ (i - 1) + 1 = i
    BY <1>1, <2>2
  <2>. QED
    BY <1>2, <2>1, <2>3 DEF Pending
<1>. QED
  BY <1>3
-----------------------------------------------------------------------------
(* The walk.                                                               *)

LEMMA SeenKept ==
  ASSUME UNCHANGED systemVars, scanned \subseteq scanned',
         DOMAIN files \subseteq DOMAIN files', DOMAIN all \subseteq DOMAIN all'
  PROVE  \A e : Seen(e) => Seen(e)'
BY DEF Seen, LdReal

LEMMA SeenStep ==
  ASSUME SeenInv, pc # "done", \A e : Seen(e) => Seen(e)',
         \A d, e : Pending(stack, d, e) => Pending(stack', d, e) \/ Seen(e)',
         \A d \in scanned' \ scanned : \A e \in Children[d] : Pending(stack', d, e)
  PROVE  SeenInv'
<1>1. ASSUME NEW d \in scanned', NEW e \in Children[d]
      PROVE  Seen(e)' \/ Pending(stack', d, e)
  BY <1>1 DEF SeenInv
<1>. QED
  BY <1>1 DEF SeenInv, Pending

LEMMA EnterWalks ==
  ASSUME OneFileSystem, StackInv, pc # "done", NEW d \in Dir, NEW rest \in Frames, Enter(d, StatInode[d], rest)
  PROVE  /\ scanned \subseteq scanned' /\ scanned' \subseteq scanned \cup ({d} \ Ignored) /\ d \in scanned' \cup Ignored
         /\ \A b, e : Pending(rest, b, e) => Pending(stack', b, e)
         /\ \A b \in scanned' \ scanned : \A e \in Children[b] : Pending(stack', b, e)
<1>1. StatInode[d] \in processedDirs <=> d \in scanned
  BY DEF StackInv, OneFileSystem
<1>2. CASE Refused(d, StatInode[d])
  <2>1. stack' = rest /\ scanned' = scanned /\ d \in scanned \cup Ignored
    BY <1>1, <1>2 DEF Enter, Refused
  <2>. QED
    BY <2>1
<1>3. CASE ~Refused(d, StatInode[d])
  <2>1. stack' = <<Frame(d)>> \o rest /\ scanned' = scanned \cup {d} /\ d \notin Ignored
    BY <1>3 DEF Enter, Refused
  <2>2. /\ \A e \in Children[d] : Pending(stack', d, e)
        /\ \A b, e : Pending(rest, b, e) => Pending(stack', b, e)
    BY <2>1, PendingPushed
  <2>. QED
    BY <2>1, <2>2
<1>. QED
  BY <1>2, <1>3

\* The directory entry that comes next.
LEMMA EntryIs ==
  ASSUME TypeInv, StackInv, NEW c, Reading(c)
  PROVE  /\ pc = "scan" /\ stack \in Frames /\ stack # << >> /\ Without(c) \in Frames
         /\ c \in Dir \cup Path /\ \E d \in scanned : c \in Children[d]
         /\ SoundInv /\ c \notin Ignored => LdReal(c) \in Targets(Reachable)
<1>1. stack \in Frames /\ stack # << >> /\ pc = "scan" /\ c \in Head(stack).todo
  BY TypeParts DEF Reading, WalkType
<1>2. 1 \in DOMAIN stack /\ Head(stack) = stack[1]
  BY <1>1 DEF Frames
<1>3. stack[1].dir \in scanned /\ c \in Children[stack[1].dir] /\ stack[1].dir \in Dir
  BY <1>1, <1>2 DEF StackInv
<1>4. c \in Dir \cup Path
  BY <1>3, TreeAssumption
<1>5. ASSUME SoundInv, c \notin Ignored PROVE LdReal(c) \in Targets(Reachable)
  <2>1. c \in Entries(Reachable)
    BY <1>3, <1>5 DEF SoundInv, Entries
  <2>. QED
    BY <2>1 DEF Targets, LdReal
<1>. QED
  BY <1>1, <1>3, <1>4, <1>5, WithoutType

LEMMA ReachableOf ==
  ASSUME TypeInv
  PROVE  /\ Targets(Reachable) \cap Dir \subseteq Reachable \cup Ignored
         /\ Targets(Reachable) \cap Wanted \subseteq FilesIn(Reachable)
         /\ \A f \in FilesIn(Reachable) : RunDirs(f) \cup ConfigDirs(f) \subseteq Reachable \cup Ignored
<1>1. More(Reachable) \subseteq Reachable
  BY ReachableIs DEF Closed
<1>2. \A f \in FilesIn(Reachable) : RunDirs(f) \cup ConfigDirs(f) \subseteq RequestedBy(FilesIn(Reachable))
  BY DEF RequestedBy
<1>. HIDE DEF Reachable
<1>. QED
  BY <1>1, <1>2 DEF More, FilesIn

\* A step that asks for nothing meets everything.
LEMMA MetSame == ASSUME UNCHANGED queue, scanned \subseteq scanned' PROVE Met
BY DEF Met, Asked

LEMMA LdKept ==
  ASSUME UNCHANGED systemVars, LdInv, UNCHANGED <<line, second>>, DOMAIN files \subseteq DOMAIN files',
         pc' = "ldconfig" => pc = "ldconfig" \/ ~second, pc' \in {"fill", "done"} => second
  PROVE  LdInv'
<1>1. ldconfig' = ldconfig
  BY DEF systemVars
<1>. QED
  BY <1>1 DEF LdInv, LdLines, LdReal

LEMMA SoundKept ==
  ASSUME UNCHANGED systemVars, scanned' \subseteq Reachable,
         \A i \in DOMAIN queue' : queue'[i].dir \in Reachable \cup Ignored,
         DOMAIN files' \subseteq FilesIn(Reachable)
  PROVE  SoundInv'
<1>1. Reachable' = Reachable /\ \A dirs : FilesIn(dirs)' = FilesIn(dirs)
  BY ReachableKept
<1>2. PICK dirs : dirs = Reachable
  OBVIOUS
<1>3. FilesIn(Reachable)' = FilesIn(dirs)
  <2>1. FilesIn(Reachable)' = FilesIn(dirs)'
    BY <1>1, <1>2 DEF FilesIn, LdRows, LdLines, LdReal, Targets, Entries
  <2>. QED
    BY <1>1, <2>1
<1>. HIDE DEF Reachable, FilesIn
<1>. QED
  BY <1>1, <1>2, <1>3 DEF SoundInv

\* A step that changes nothing of what the invariant is about.
LEMMA ExactKept ==
  ASSUME UNCHANGED systemVars, ExactInv, UNCHANGED <<second, queue, stack, scanned, fileVars, task, line>>,
         pc # "done", pc' \notin {"fill", "done"}, pc' = "ldconfig" => pc = "ldconfig" \/ ~second
  PROVE  ExactInv'
<1>1. UNCHANGED <<iteration, files, all>>
  BY DEF fileVars
<1>2. Met
  BY MetSame
<1>3. AskInv'
  BY <1>1, <1>2, AskKept DEF ExactInv
<1>4. SeenInv'
  <2>1. \A e : Seen(e) => Seen(e)'
    BY <1>1, SeenKept
  <2>2. \A d, e : Pending(stack, d, e) => Pending(stack', d, e)
    OBVIOUS
  <2>. QED
    BY <2>1, <2>2, SeenStep DEF ExactInv
<1>5. LdInv'
  BY <1>1, LdKept DEF ExactInv
<1>6. SoundInv'
  BY <1>1, SoundKept DEF ExactInv, SoundInv
<1>7. EndInv'
  BY DEF EndInv
<1>. QED
  BY <1>3, <1>4, <1>5, <1>6, <1>7 DEF ExactInv

\* Reading on past an entry that is neither a directory nor wanted.
LEMMA SkipExact ==
  ASSUME UNCHANGED systemVars, TypeInv, IInv, ExactInv,
         EndOfDir \/ (\E f \in File : SkipFile(f)) \/ (\E l \in Link : SkipLink(l))
  PROVE  ExactInv'
<1>1. /\ pc = "scan" /\ pc' = "scan" /\ UNCHANGED <<second, queue, scanned, iteration, files, all, task, line>>
  BY DEF EndOfDir, SkipFile, SkipLink, Reading, fileVars, ldVars
<1>2. \A e : Seen(e) => Seen(e)'
  BY <1>1, SeenKept
<1>3. \A d, e : Pending(stack, d, e) => Pending(stack', d, e) \/ Seen(e)'
  <2>0. StackInv
    BY InvParts
  <2>1. CASE EndOfDir
    <3>1. stack \in Frames /\ stack # << >> /\ Head(stack).todo = {} /\ stack' = Tail(stack)
      BY <2>1, TypeParts DEF EndOfDir, WalkType
    <3>. QED
      BY <3>1, PendingBelow
  <2>2. ASSUME NEW f \in File, SkipFile(f) PROVE \A d, e : Pending(stack, d, e) => Pending(stack', d, e) \/ Seen(e)'
    <3>1. Reading(f) /\ stack' = Without(f) /\ f \notin Wanted \ Ignored
      BY <2>2 DEF SkipFile
    <3>2. Seen(f)
      <4>1. LdReal(f) = f /\ f \notin Dir
        BY TreeAssumption DEF LdReal, Path
      <4>. QED
        BY <3>1, <4>1 DEF Seen
    <3>. QED
      BY <1>2, <2>0, <3>1, <3>2, EntryIs, PendingLess
  <2>3. ASSUME NEW l \in Link, SkipLink(l) PROVE \A d, e : Pending(stack, d, e) => Pending(stack', d, e) \/ Seen(e)'
    <3>1. Reading(l) /\ stack' = Without(l) /\ (l \in Ignored \/ RealPath[l] \in {Missing} \cup (File \ Wanted))
      BY <2>3 DEF SkipLink
    <3>2. Seen(l)
      <4>1. LdReal(l) = RealPath[l]
        BY DEF LdReal
      <4>2. Missing \notin Dir \cup Wanted /\ Dir \cap File = {}
        BY TreeAssumption DEF Path, Nowhere
      <4>. QED
        BY <3>1, <4>1, <4>2 DEF Seen
    <3>. QED
      BY <1>2, <2>0, <3>1, <3>2, EntryIs, PendingLess
  <2>. QED
    BY <2>1, <2>2, <2>3
<1>4. Met
  BY <1>1, MetSame
<1>5. AskInv'
  BY <1>1, <1>4, AskKept DEF ExactInv
<1>6. SeenInv'
  BY <1>1, <1>2, <1>3, SeenStep DEF ExactInv
<1>7. LdInv'
  BY <1>1, LdKept DEF ExactInv
<1>8. SoundInv'
  BY <1>1, SoundKept DEF ExactInv, SoundInv
<1>9. EndInv'
  BY <1>1 DEF EndInv
<1>. QED
  BY <1>5, <1>6, <1>7, <1>8, <1>9 DEF ExactInv

\* Entering the directory d, if it is neither ignored nor scanned.
LEMMA EnterExact ==
  ASSUME UNCHANGED systemVars, OneFileSystem, TypeInv, IInv, ExactInv, pc = "scan",
         NEW d \in Dir, d \in Reachable \cup Ignored, NEW rest \in Frames, Enter(d, StatInode[d], rest),
         Met, \A i \in DOMAIN queue' : queue'[i].dir \in Reachable \cup Ignored,
         UNCHANGED <<pc, second, iteration, files, all, task, line>>,
         \A b, e : Pending(stack, b, e) => Pending(rest, b, e) \/ Seen(e)'
  PROVE  ExactInv'
<1>1. /\ scanned \subseteq scanned' /\ scanned' \subseteq scanned \cup ({d} \ Ignored) /\ d \in scanned' \cup Ignored
      /\ \A b, e : Pending(rest, b, e) => Pending(stack', b, e)
      /\ \A b \in scanned' \ scanned : \A e \in Children[b] : Pending(stack', b, e)
  <2>1. StackInv /\ pc # "done"
    BY InvParts
  <2>. QED
    BY <2>1, EnterWalks
<1>2. AskInv'
  BY AskKept DEF ExactInv
<1>3. SeenInv'
  <2>1. \A e : Seen(e) => Seen(e)'
    BY <1>1, SeenKept
  <2>2. \A b, e : Pending(stack, b, e) => Pending(stack', b, e) \/ Seen(e)'
    BY <1>1
  <2>3. pc # "done" /\ SeenInv
    BY DEF ExactInv
  <2>. QED
    BY <1>1, <2>1, <2>2, <2>3, SeenStep
<1>4. LdInv'
  BY LdKept DEF ExactInv
<1>5. SoundInv'
  <2>1. scanned' \subseteq Reachable
    BY <1>1 DEF ExactInv, SoundInv
  <2>. QED
    BY <2>1, SoundKept DEF ExactInv, SoundInv
<1>6. EndInv'
  BY DEF EndInv
<1>. QED
  BY <1>2, <1>3, <1>4, <1>5, <1>6 DEF ExactInv

LEMMA DequeueExact ==
  ASSUME UNCHANGED systemVars, OneFileSystem, TypeInv, IInv, ExactInv, Dequeue
  PROVE  ExactInv'
<1>. DEFINE d == Head(queue).dir
<1>1. /\ pc = "scan" /\ stack = << >> /\ queue # << >> /\ queue' = Tail(queue)
      /\ Enter(d, Head(queue).inode, << >>)
      /\ UNCHANGED <<pc, second, iteration, files, all, task, line>>
  BY DEF Dequeue, fileVars, ldVars
<1>2. queue \in Seq(Current) /\ StackInv
  BY InvParts DEF RequestInv
<1>3. PICK n \in Nat : n = Len(queue) /\ DOMAIN queue = 1..n /\ n > 0
  BY <1>1, <1>2
<1>4. /\ Head(queue) = queue[1] /\ Head(queue) \in Current
      /\ DOMAIN queue' = 1..(n - 1) /\ \A i \in 1..(n - 1) : queue'[i] = queue[i + 1]
  BY <1>1, <1>2, <1>3
<1>5. d \in Dir /\ Head(queue).inode = StatInode[d]
  BY <1>4 DEF Current, SearchPath
<1>6. /\ << >> \in Frames /\ \A b, e : ~Pending(stack, b, e)
  <2>1. << >> \in Frames
    BY DEF Frames
  <2>. QED
    BY <1>1, <2>1 DEF Pending
<1>7. scanned \subseteq scanned' /\ d \in scanned' \cup Ignored
  <2>1. Enter(d, StatInode[d], << >>) /\ pc # "done"
    BY <1>1, <1>5
  <2>. HIDE DEF d
  <2>. QED
    BY <1>2, <1>5, <1>6, <2>1, EnterWalks
<1>8. Met
  <2>1. ASSUME NEW i \in 1..n, NEW b, b = queue[i].dir
        PROVE  \/ b \in Ignored \cup scanned'
               \/ \E j \in DOMAIN queue' : queue'[j].dir = b
    <3>1. CASE i = 1
      BY <1>4, <1>7, <2>1, <3>1
    <3>2. CASE i # 1
      <4>1. i - 1 \in 1..(n - 1) /\ queue'[i - 1] = queue[(i - 1) + 1] /\ (i - 1) + 1 = i
        BY <1>4, <3>2
      <4>. QED
        BY <1>4, <2>1, <4>1
    <3>. QED
      BY <3>1, <3>2
  <2>. QED
    BY <1>3, <1>7, <2>1 DEF Met, Asked
<1>9. d \in Reachable \cup Ignored /\ \A i \in DOMAIN queue' : queue'[i].dir \in Reachable \cup Ignored
  <2>1. \A i \in 1..n : queue[i].dir \in Reachable \cup Ignored
    BY <1>3 DEF ExactInv, SoundInv
  <2>2. 1 \in 1..n /\ \A i \in 1..(n - 1) : i + 1 \in 1..n
    BY <1>3
  <2>. QED
    BY <1>4, <2>1, <2>2
<1>. HIDE DEF d
<1>. QED
  BY <1>1, <1>5, <1>6, <1>8, <1>9, EnterExact

\* A directory that is an entry, or the target of a link that is one.
LEMMA DirExact ==
  ASSUME UNCHANGED systemVars, OneFileSystem, TypeInv, IInv, ExactInv, NEW c, Reading(c), c \notin Ignored \/ c \in Dir,
         NEW d \in Dir, d = LdReal(c), Enter(d, StatInode[d], Without(c)),
         UNCHANGED <<pc, second, queue, iteration, files, all, task, line>>
  PROVE  ExactInv'
<1>1. /\ pc = "scan" /\ stack \in Frames /\ stack # << >> /\ Without(c) \in Frames /\ StackInv
      /\ c \notin Ignored => d \in Targets(Reachable)
  BY InvParts, EntryIs DEF ExactInv
<1>2. scanned \subseteq scanned' /\ d \in scanned' \cup Ignored
  BY <1>1, EnterWalks
<1>3. d \in Reachable \cup Ignored
  <2>1. CASE c \notin Ignored
    BY <1>1, <2>1, ReachableOf
  <2>2. CASE c \in Ignored /\ c \in Dir
    <3>1. c \notin Link
      BY <2>2, TreeAssumption DEF Path
    <3>. QED
      BY <2>2, <3>1 DEF LdReal
  <2>. QED
    BY <2>1, <2>2
<1>4. \A b, e : Pending(stack, b, e) => Pending(Without(c), b, e) \/ Seen(e)'
  <2>1. \A e : e = c => Seen(e)'
    <3>1. LdReal(c)' = d /\ d \notin Wanted
      BY TreeAssumption DEF Path, LdReal
    <3>. QED
      BY <1>2, <3>1 DEF Seen
  <2>. QED
    BY <1>1, <2>1, PendingLess
<1>5. Met /\ \A i \in DOMAIN queue' : queue'[i].dir \in Reachable \cup Ignored
  BY <1>2, MetSame DEF ExactInv, SoundInv
<1>. QED
  BY <1>1, <1>3, <1>4, <1>5, EnterExact

LEMMA DirsExact ==
  ASSUME UNCHANGED systemVars, OneFileSystem, TypeInv, IInv, ExactInv,
         (\E d \in Dir : ReadDir(d)) \/ (\E l \in Link : LinkToDir(l))
  PROVE  ExactInv'
<1>1. ASSUME NEW d \in Dir, ReadDir(d) PROVE ExactInv'
  <2>1. d = LdReal(d)
    BY TreeAssumption DEF LdReal, Path
  <2>2. /\ Reading(d) /\ Enter(d, StatInode[d], Without(d))
        /\ UNCHANGED <<pc, second, queue, iteration, files, all, task, line>>
    BY <1>1 DEF ReadDir, OneFileSystem, fileVars, ldVars
  <2>. QED
    BY <2>1, <2>2, DirExact
<1>2. ASSUME NEW l \in Link, LinkToDir(l) PROVE ExactInv'
  <2>1. PICK d \in Dir : d = LdReal(l) /\ d = RealPath[l]
    BY <1>2 DEF LinkToDir, LinkIs, LdReal
  <2>2. /\ Reading(l) /\ l \notin Ignored /\ Enter(d, StatInode[d], Without(l))
        /\ UNCHANGED <<pc, second, queue, iteration, files, all, task, line>>
    BY <1>2, <2>1 DEF LinkToDir, LinkIs, fileVars, ldVars
  <2>. QED
    BY <2>1, <2>2, DirExact
<1>. QED
  BY <1>1, <1>2

\* A file that is wanted, found at the path c.
LEMMA FoundExact ==
  ASSUME UNCHANGED systemVars, TypeInv, IInv, StageInv, ExactInv, NEW c, Reading(c), c \notin Ignored,
         NEW f \in Wanted, f = LdReal(c), AddFile(f),
         c \in DOMAIN all', DOMAIN all \subseteq DOMAIN all', stack' = Without(c),
         UNCHANGED <<pc, second, queue, scanned, task, line>>
  PROVE  ExactInv'
<1>1. /\ pc = "scan" /\ stack \in Frames /\ stack # << >> /\ Without(c) \in Frames
      /\ f \in Targets(Reachable) /\ f \in File
  BY InvParts, EntryIs, TreeAssumption DEF ExactInv
<1>2. DOMAIN files' = DOMAIN files \cup {f}
  BY <1>1, AddFileEffect
<1>3. task = << >> /\ task' = << >>
  BY <1>1 DEF StageInv
<1>4. Met
  BY MetSame
<1>5. AskInv'
  BY <1>1, <1>3, <1>4, AddKeepsAsk DEF ExactInv
<1>6. SeenInv'
  <2>1. \A e : Seen(e) => Seen(e)'
    BY <1>2, SeenKept
  <2>2. \A e : e = c => Seen(e)'
    <3>1. LdReal(c)' = f /\ f \notin Dir
      BY <1>1, TreeAssumption DEF Path, LdReal
    <3>. QED
      BY <1>2, <3>1 DEF Seen
  <2>3. \A b, e : Pending(stack, b, e) => Pending(stack', b, e) \/ Seen(e)'
    BY <1>1, <2>2, PendingLess
  <2>4. pc # "done" /\ SeenInv
    BY <1>1 DEF ExactInv
  <2>. QED
    BY <2>1, <2>3, <2>4, SeenStep
<1>7. LdInv'
  BY <1>1, <1>2, LdKept DEF ExactInv
<1>8. SoundInv'
  <2>1. f \in FilesIn(Reachable)
    BY <1>1, ReachableOf
  <2>. QED
    BY <1>2, <2>1, SoundKept DEF ExactInv, SoundInv
<1>9. EndInv'
  BY <1>1 DEF EndInv
<1>. QED
  BY <1>5, <1>6, <1>7, <1>8, <1>9 DEF ExactInv

LEMMA FilesExact ==
  ASSUME UNCHANGED systemVars, TypeInv, IInv, StageInv, ExactInv,
         \/ \E f \in File : ReadFile(f) /\ ~Duplicate(f)
         \/ \E l \in Link : LinkToFile(l) /\ ~(Duplicate(RealPath[l]) \/ l \in DOMAIN WithFile(RealPath[l]))
  PROVE  ExactInv'
<1>0. pc = "scan" => FileKeys /\ LinkKeys /\ pc # "done"
  BY InvParts
<1>1. ASSUME NEW f \in File, ReadFile(f), ~Duplicate(f) PROVE ExactInv'
  <2>1. f = LdReal(f)
    BY TreeAssumption DEF LdReal
  <2>2. /\ Reading(f) /\ f \notin Ignored /\ f \in Wanted /\ AddFile(f) /\ all' = WithFile(f) /\ stack' = Without(f)
        /\ UNCHANGED <<pc, second, queue, scanned, task, line>>
    BY <1>1 DEF ReadFile, ldVars
  <2>3. DOMAIN all \subseteq DOMAIN all' /\ f \in DOMAIN all'
    BY <1>0, <2>2, AddFileEffect, AddFileKeys, ZenonT(40) DEF Reading
  <2>. QED
    BY <2>1, <2>2, <2>3, FoundExact
<1>2. ASSUME NEW l \in Link, LinkToFile(l), ~(Duplicate(RealPath[l]) \/ l \in DOMAIN WithFile(RealPath[l])) PROVE ExactInv'
  <2>1. PICK f \in Wanted : f = LdReal(l) /\ f = RealPath[l]
    BY <1>2 DEF LinkToFile, LinkIs, LdReal
  <2>2. /\ Reading(l) /\ l \notin Ignored /\ AddFile(f) /\ all' = Insert(WithFile(f), l, f) /\ stack' = Without(l)
        /\ UNCHANGED <<pc, second, queue, scanned, task, line>>
    BY <1>2, <2>1 DEF LinkToFile, LinkIs, ldVars
  <2>3. DOMAIN all \subseteq DOMAIN all' /\ l \in DOMAIN all'
    <3>1. f \in File
      BY TreeAssumption
    <3>2. DOMAIN all \subseteq DOMAIN WithFile(f)
      BY <2>2, <3>1, AddFileEffect
    <3>3. DOMAIN all' = DOMAIN WithFile(f) \cup {l}
      BY <2>2, Inserted
    <3>. QED
      BY <3>2, <3>3
  <2>. QED
    BY <2>1, <2>2, <2>3, FoundExact
<1>. QED
  BY <1>1, <1>2

\* When nothing is left to do, everything that is reachable has been scanned.
LEMMA AllScanned ==
  ASSUME TypeInv, IInv, StageInv, ExactInv, pc = "scan", stack = << >>, queue = << >>, iteration = {}, second
  PROVE  /\ scanned = Reachable /\ DOMAIN files = FilesIn(Reachable)
         /\ Cardinality({i \in DOMAIN LdLines : LdLines[i].kind = "row"}) = ldconfig.count
<1>1. \A d, e : ~Pending(stack, d, e)
  BY DEF Pending
<1>2. \A d : Asked(d) => d \in scanned \cup Ignored
  BY DEF Asked
<1>3. ASSUME NEW e \in Entries(scanned)
      PROVE  /\ LdReal(e) \in Dir => LdReal(e) \in scanned \cup Ignored
             /\ LdReal(e) \in Wanted => LdReal(e) \in DOMAIN files
  <2>1. PICK d \in scanned : e \in Children[d] /\ e \notin Ignored
    BY DEF Entries
  <2>2. Seen(e)
    BY <1>1, <2>1 DEF ExactInv, SeenInv
  <2>. QED
    BY <2>1, <2>2 DEF Seen
<1>4. Start \subseteq scanned
  BY <1>2 DEF ExactInv, AskInv, Start
<1>5. Targets(scanned) \cap Dir \subseteq scanned \cup Ignored
  BY <1>3 DEF Targets, LdReal
<1>6. FilesIn(scanned) \subseteq DOMAIN files
  <2>1. Targets(scanned) \cap Wanted \subseteq DOMAIN files
    BY <1>3 DEF Targets, LdReal
  <2>2. ASSUME NEW r \in LdRows, LdReal(r.path) \in File PROVE LdReal(r.path) \in DOMAIN files
    <3>1. PICK i \in DOMAIN LdLines : r = LdLines[i] /\ LdLines[i].kind = "row"
      BY DEF LdRows, Range
    <3>2. i \in 1..(line - 1)
      BY <3>1 DEF ExactInv, LdInv
    <3>. QED
      BY <2>2, <3>1, <3>2 DEF ExactInv, LdInv
  <2>. QED
    BY <2>1, <2>2 DEF FilesIn
<1>7. RequestedBy(FilesIn(scanned)) \subseteq scanned \cup Ignored
  <2>1. task = << >>
    BY DEF StageInv
  <2>2. ASSUME NEW f \in DOMAIN files PROVE RunDirs(f) \cup ConfigDirs(f) \subseteq scanned \cup Ignored
    <3>1. FileAsked(f) /\ f \notin DOMAIN task /\ f \notin iteration
      BY <2>1 DEF ExactInv, AskInv
    <3>2. AskedAll(f)
      BY <3>1 DEF FileAsked
    <3>. QED
      BY <1>2, <3>2 DEF AskedAll
  <2>. QED
    BY <1>6, <2>2 DEF RequestedBy
<1>8. Closed(scanned)
  BY <1>4, <1>5, <1>7 DEF Closed, More
<1>9. scanned = Reachable
  BY <1>8, ReachableIs DEF ExactInv, SoundInv
<1>10. DOMAIN files = FilesIn(Reachable)
  BY <1>6, <1>9 DEF ExactInv, SoundInv
<1>11. Cardinality({i \in DOMAIN LdLines : LdLines[i].kind = "row"}) = ldconfig.count
  <2>1. {i \in DOMAIN LdLines : LdLines[i].kind = "row"} = 1..(line - 1)
    BY DEF ExactInv, LdInv
  <2>2. PICK n \in Nat : n = line - 1 /\ n = ldconfig.count
    BY DEF ExactInv, LdInv
  <2>3. Cardinality(1..n) = n
    BY <2>2, FS_Interval
  <2>. QED
    BY <2>1, <2>2, <2>3
<1>. QED
  BY <1>9, <1>10, <1>11

\* What holds at the end of the walk goes on to hold.
LEMMA EndKept ==
  ASSUME UNCHANGED systemVars, scanned = Reachable, DOMAIN files = FilesIn(Reachable),
         Cardinality({i \in DOMAIN LdLines : LdLines[i].kind = "row"}) = ldconfig.count,
         stack' = << >>, UNCHANGED <<scanned, files>>, pc' = "done" => LibsComplete'
  PROVE  EndInv'
<1>1. Reachable' = Reachable /\ \A dirs : FilesIn(dirs)' = FilesIn(dirs)
  BY ReachableKept
<1>2. PICK dirs : dirs = Reachable
  OBVIOUS
<1>3. FilesIn(Reachable)' = FilesIn(dirs)
  <2>1. FilesIn(Reachable)' = FilesIn(dirs)'
    BY <1>1, <1>2 DEF FilesIn, LdRows, LdLines, LdReal, Targets, Entries
  <2>. QED
    BY <1>1, <2>1
<1>4. ldconfig' = ldconfig /\ LdLines' = LdLines
  BY DEF systemVars, LdLines
<1>. HIDE DEF Reachable, FilesIn
<1>. QED
  BY <1>1, <1>2, <1>3, <1>4 DEF EndInv

LEMMA EndOfQueueExact ==
  ASSUME UNCHANGED systemVars, TypeInv, IInv, StageInv, ExactInv, EndOfQueue
  PROVE  ExactInv'
<1>1. /\ pc = "scan" /\ stack = << >> /\ queue = << >> /\ task = << >>
      /\ UNCHANGED <<second, queue, stack, scanned, iteration, files, all, line>>
  BY DEF EndOfQueue, walkVars, fileVars, ldVars, StageInv
<1>2. CASE iteration # {}
  <2>1. pc' = "inspect" /\ task' = [f \in iteration |-> [at |-> "open", left |-> << >>]]
    BY <1>2 DEF EndOfQueue
  <2>2. Met
    BY <1>1, MetSame
  <2>3. AskInv'
    <3>1. \A d \in Start : Asked(d)'
      BY <2>2, AskedKept DEF ExactInv, AskInv
    <3>2. ASSUME NEW f \in DOMAIN files' PROVE FileAsked(f)'
      <4>1. CASE f \in iteration
        <5>1. f \in DOMAIN task' /\ task'[f].at = "open"
          BY <2>1, <4>1
        <5>2. ASSUME NEW r, NEW t, t = task'[f] PROVE AskedSoFar(f, r, t)'
          BY <5>1, <5>2 DEF AskedSoFar
        <5>. QED
          BY <5>1, <5>2 DEF FileAsked
      <4>2. CASE f \notin iteration
        <5>1. f \notin DOMAIN task /\ f \notin DOMAIN task'
          BY <1>1, <2>1, <4>2
        <5>2. FileAsked(f) /\ UNCHANGED <<files, iteration>>
          BY <1>1, <3>2 DEF ExactInv, AskInv
        <5>. QED
          BY <2>2, <5>1, <5>2, FileAskedKept
      <4>. QED
        BY <4>1, <4>2
    <3>. QED
      BY <3>1, <3>2 DEF AskInv, Start
  <2>4. SeenInv'
    <3>1. \A e : Seen(e) => Seen(e)'
      BY <1>1, SeenKept
    <3>2. \A d, e : Pending(stack, d, e) => Pending(stack', d, e)
      BY <1>1
    <3>. QED
      BY <1>1, <3>1, <3>2, SeenStep DEF ExactInv
  <2>5. LdInv'
    BY <1>1, <2>1, LdKept DEF ExactInv
  <2>6. SoundInv'
    BY <1>1, SoundKept DEF ExactInv, SoundInv
  <2>7. EndInv'
    BY <2>1 DEF EndInv
  <2>. QED
    BY <2>3, <2>4, <2>5, <2>6, <2>7 DEF ExactInv
<1>3. CASE iteration = {}
  <2>1. pc' = (IF second THEN "fill" ELSE "ldconfig") /\ UNCHANGED <<task, fileVars>>
    BY <1>3 DEF EndOfQueue
  <2>2. Met
    BY <1>1, MetSame
  <2>3. AskInv'
    BY <1>1, <2>1, <2>2, AskKept DEF ExactInv
  <2>4. SeenInv'
    <3>1. \A e : Seen(e) => Seen(e)'
      BY <1>1, SeenKept
    <3>2. \A d, e : Pending(stack, d, e) => Pending(stack', d, e)
      BY <1>1
    <3>. QED
      BY <1>1, <3>1, <3>2, SeenStep DEF ExactInv
  <2>5. LdInv'
    BY <1>1, <2>1, LdKept DEF ExactInv
  <2>6. SoundInv'
    BY <1>1, SoundKept DEF ExactInv, SoundInv
  <2>7. EndInv'
    <3>1. CASE ~second
      BY <2>1, <3>1 DEF EndInv
    <3>2. CASE second
      <4>1. /\ scanned = Reachable /\ DOMAIN files = FilesIn(Reachable)
            /\ Cardinality({i \in DOMAIN LdLines : LdLines[i].kind = "row"}) = ldconfig.count
        BY <1>1, <1>3, <3>2, AllScanned
      <4>. QED
        BY <1>1, <2>1, <3>2, <4>1, EndKept
    <3>. QED
      BY <3>1, <3>2
  <2>. QED
    BY <2>3, <2>4, <2>5, <2>6, <2>7 DEF ExactInv
<1>. QED
  BY <1>2, <1>3
-----------------------------------------------------------------------------
(* The tasks' requests.                                                    *)

\* A file that cannot be read has no run paths.
NoHandle(f) == image[f].header = "no handle"
LEMMA NoRunPaths ==
  ASSUME SystemInv, NEW f \in File, NoHandle(f)
  PROVE  Len(Parts(f)) = 0
<1>1. PICK s : s = Scanned(image[f])
  OBVIOUS
<1>2. PICK S : S = AnyRunPath(image[f])
  OBVIOUS
<1>3. DOMAIN s = 1..0
  <2>1. s = << >>
    BY <1>1 DEF Scanned, HasSections, NoHandle
  <2>2. s \in Seq(S) /\ Len(s) = 0
    BY <2>1
  <2>. QED
    BY <2>2
<1>4. PICK parts : parts = [i \in 1..0 |-> PartsOf(s[i])]
  OBVIOUS
<1>5. Parts(f) = FlattenSeq(parts)
  BY <1>1, <1>3, <1>4, Zenon DEF Parts, RunPathsIn
<1>6. parts \in [1..0 -> S]
  BY <1>4
<1>7. Len(parts) = 0
  BY <1>6
<1>. QED
  BY <1>5, <1>7, FlattenedNone

\* What the search path sp does to the requests.
LEMMA Request ==
  ASSUME UNCHANGED systemVars, UNCHANGED scanned, queue \in Seq(SearchPath), NEW sp \in SearchPath, queue' = Append(queue, sp)
  PROVE  /\ Met /\ Asked(sp.dir)'
         /\ \A i \in DOMAIN queue' : queue'[i] = sp \/ (i \in DOMAIN queue /\ queue'[i] = queue[i])
<1>1. PICK S : S = SearchPath
  OBVIOUS
<1>2. PICK n \in Nat : n = Len(queue) /\ DOMAIN queue = 1..n
  OBVIOUS
<1>3. /\ queue' \in Seq(S) /\ Len(queue') = n + 1 /\ queue'[n + 1] = sp
      /\ \A i \in 1..n : queue'[i] = queue[i]
  BY <1>1, <1>2, Appended
<1>4. DOMAIN queue' = 1..(n + 1)
  BY <1>3
<1>5. \A i \in 1..(n + 1) : i = n + 1 \/ i \in 1..n
  OBVIOUS
<1>6. n + 1 \in 1..(n + 1) /\ \A i \in 1..n : i \in 1..(n + 1)
  OBVIOUS
<1>7. Asked(sp.dir)'
  <2>1. \E i \in DOMAIN queue' : queue'[i].dir = sp.dir
    BY <1>3, <1>4, <1>6
  <2>. QED
    BY <2>1 DEF Asked
<1>8. Met
  <2>1. ASSUME NEW d, NEW i \in DOMAIN queue, d = queue[i].dir PROVE Asked(d)'
    <3>1. i \in DOMAIN queue' /\ queue'[i].dir = d
      BY <1>2, <1>3, <1>4, <1>6, <2>1
    <3>. QED
      BY <3>1 DEF Asked
  <2>. QED
    BY <2>1 DEF Met
<1>. QED
  BY <1>2, <1>3, <1>4, <1>5, <1>7, <1>8

\* What each step of a task asks for.
AsksOf(f) ==
  /\ Met /\ \A i \in DOMAIN queue' : queue'[i].dir \in Reachable \cup Ignored
  /\ FileAsked(f)'

LEMMA OpenAsks ==
  ASSUME UNCHANGED systemVars, UNCHANGED scanned, SystemInv, ExactInv, NEW f \in File, f \in DOMAIN task, Open(f)
  PROVE  AsksOf(f)
<1>1. queue' = queue /\ Met
  BY MetSame DEF Open
<1>2. PICK t : t = task'[f]
  OBVIOUS
<1>3. DOMAIN task' = DOMAIN task
  BY DEF Open, At
<1>4. /\ RunDirs(f)' = RunDirs(f) /\ ConfigDirs(f)' = ConfigDirs(f)
      /\ \A n : DirsTo(f, n)' = DirsTo(f, n)
      /\ \A left : ReadSoFar(f, left)' = ReadSoFar(f, left)
  BY SystemKept DEF ReadSoFar
<1>5. PICK m \in Nat : m = Len(Parts(f))
  BY PartsType
<1>6. DirsTo(f, 0) = {}
  BY DEF DirsTo
<1>7. \/ image[f].header = "no handle" /\ t.at = "done"
      \/ t.at = "threw"
      \/ t.at = "run paths" /\ t.left = Parts(f)
  <2>1. CASE image[f].header = "no handle"
    <3>1. PICK none : none = << >>
      OBVIOUS
    <3>2. t = [at |-> "done", left |-> none]
      BY <1>2, <2>1, <3>1 DEF Open, At
    <3>. QED
      BY <2>1, <3>2
  <2>2. CASE image[f].header # "no handle" /\ files[f].isInspected
    <3>1. PICK none : none = << >>
      OBVIOUS
    <3>2. t = [at |-> "threw", left |-> none]
      BY <1>2, <2>2, <3>1 DEF Open, At
    <3>. QED
      BY <3>2
  <2>3. CASE image[f].header # "no handle" /\ ~files[f].isInspected
    <3>1. PICK left : left = Parts(f)
      OBVIOUS
    <3>2. t = [at |-> "run paths", left |-> left]
      BY <1>2, <2>3, <3>1 DEF Open, At, Parts
    <3>. QED
      BY <3>1, <3>2
  <2>. QED
    BY <2>1, <2>2, <2>3
<1>8. ASSUME NEW r PROVE AskedSoFar(f, r, t)'
  <2>1. CASE image[f].header = "no handle" /\ t.at = "done"
    <3>1. RunDirs(f) = {}
      <4>1. m = 0
        BY <1>5, <2>1, NoRunPaths DEF NoHandle
      <4>2. FineTo(f, 0)
        BY DEF FineTo
      <4>3. Len(Parts(f)) = 0
        BY <1>5, <4>1
      <4>4. 0 \in Nat /\ 0 <= Len(Parts(f))
        BY <4>3
      <4>5. 0 = Len(Parts(f)) => RunDirs(f) = DirsTo(f, 0)
        BY <4>2, <4>4, RunDirsAre
      <4>. QED
        BY <1>6, <4>3, <4>5
    <3>2. ConfigDirs(f) = {}
      BY <2>1 DEF ConfigDirs, IsDynamic
    <3>. QED
      BY <1>4, <2>1, <3>1, <3>2 DEF AskedSoFar, AskedAll
  <2>2. CASE t.at = "threw"
    BY <2>2 DEF AskedSoFar
  <2>3. CASE t.at = "run paths" /\ t.left = Parts(f)
    <3>1. ReadSoFar(f, t.left) = 0
      <4>1. ReadSoFar(f, Parts(f)) = 0
        BY <1>5 DEF ReadSoFar
      <4>. QED
        BY <2>3, <4>1, Zenon
    <3>. QED
      BY <1>4, <1>6, <2>3, <3>1 DEF AskedSoFar
  <2>. QED
    BY <1>7, <2>1, <2>2, <2>3
<1>9. FileAsked(f)'
  BY <1>2, <1>3, <1>8 DEF FileAsked
<1>. QED
  BY <1>1, <1>9 DEF AsksOf, ExactInv, SoundInv

LEMMA RunPathAsks ==
  ASSUME UNCHANGED systemVars, UNCHANGED scanned, SystemInv, TypeInv, ExactInv,
         NEW f \in File, f \in DOMAIN files, f \in DOMAIN task, FileState(f), RunPath(f)
  PROVE  AsksOf(f)
<1>1. PICK r : r = files[f]
  OBVIOUS
<1>2. PICK left : left = task[f].left
  OBVIOUS
<1>3. PartlyRead(f, r, left) /\ left # << >> /\ task[f].at = "run paths"
  BY <1>1, <1>2 DEF FileState, RunPath, Running, InTask
<1>4. PICK n \in Nat :
           /\ n = ReadSoFar(f, left) /\ n < Len(Parts(f)) /\ n + 1 = ReadSoFar(f, Tail(left))
           /\ Head(left) = Parts(f)[n + 1] /\ Head(left) \in Range(Parts(f))
           /\ Head(left).list \in {"rPaths", "runPaths"}
           /\ IsRest(Tail(left), Parts(f)) /\ FineTo(f, n)
           /\ Target(f, Head(left).part) # Unresolvable => FineTo(f, n + 1)
  BY <1>3, NextPart
<1>5. PICK dir : dir = Target(f, Head(left).part)
  OBVIOUS
<1>6. /\ DirsTo(f, n + 1) = DirsTo(f, n) \cup ({dir} \cap Dir)
      /\ dir \in Dir => dir \in RunDirs(f)
      /\ dir = Unresolvable => RunDirs(f) = DirsTo(f, n)
  <2>1. PICK m \in Nat : m = Len(Parts(f))
    BY PartsType
  <2>2. n <= m /\ n < m
    BY <1>4, <2>1
  <2>3. n < Len(Parts(f)) =>
              LET next == Target(f, Parts(f)[n + 1].part)
              IN  /\ DirsTo(f, n + 1) = DirsTo(f, n) \cup ({next} \cap Dir)
                  /\ next \in Dir => next \in RunDirs(f)
                  /\ next = Unresolvable => RunDirs(f) = DirsTo(f, n)
    BY <1>4, <2>1, <2>2, RunDirsAre
  <2>. QED
    BY <1>4, <1>5, <2>3
<1>7. \A d \in DirsTo(f, n) : Asked(d)
  <2>1. AskedSoFar(f, r, task[f])
    BY <1>1 DEF ExactInv, AskInv, FileAsked
  <2>. QED
    BY <1>2, <1>3, <1>4, <2>1 DEF AskedSoFar
<1>8. PICK t : t = task'[f]
  OBVIOUS
<1>9. /\ t.at = (IF dir = Unresolvable THEN "done" ELSE "run paths") /\ t.left = Tail(left)
      /\ DOMAIN task' = DOMAIN task
      /\ queue' = IF dir \in Dir THEN Append(queue, [dir |-> dir, inode |-> StatInode[dir]]) ELSE queue
  BY <1>2, <1>5, <1>8 DEF RunPath, At
<1>10. Met /\ (dir \in Dir => Asked(dir)') /\ \A i \in DOMAIN queue' : queue'[i].dir \in Reachable \cup Ignored
  <2>1. CASE dir \notin Dir
    BY <1>9, <2>1, MetSame DEF ExactInv, SoundInv
  <2>2. CASE dir \in Dir
    <3>0. PICK sp : sp = [dir |-> dir, inode |-> StatInode[dir]]
      OBVIOUS
    <3>1. sp \in SearchPath /\ sp.dir = dir
      BY <2>2, <3>0, TreeAssumption DEF SearchPath
    <3>2. queue \in Seq(SearchPath)
      BY TypeParts DEF WalkType
    <3>3. /\ Met /\ Asked(sp.dir)'
          /\ \A i \in DOMAIN queue' : queue'[i] = sp \/ (i \in DOMAIN queue /\ queue'[i] = queue[i])
      BY <1>9, <2>2, <3>0, <3>1, <3>2, Request
    <3>4. Asked(dir)'
      BY <3>1, <3>3 DEF Asked
    <3>5. dir \in Reachable \cup Ignored
      BY <1>6, <2>2, ReachableOf DEF ExactInv, SoundInv
    <3>. QED
      BY <3>1, <3>3, <3>4, <3>5 DEF ExactInv, SoundInv
  <2>. QED
    BY <2>1, <2>2
<1>11. /\ RunDirs(f)' = RunDirs(f) /\ ConfigDirs(f)' = ConfigDirs(f)
       /\ \A k : DirsTo(f, k)' = DirsTo(f, k)
       /\ \A rest : ReadSoFar(f, rest)' = ReadSoFar(f, rest)
       /\ \A d : Asked(d) => Asked(d)'
  BY <1>10, SystemKept, AskedKept DEF ReadSoFar
<1>12. ASSUME NEW q PROVE AskedSoFar(f, q, t)'
  <2>1. CASE dir = Unresolvable
    <3>1. t.at = "done"
      BY <1>9, <2>1
    <3>2. ConfigDirs(f) = {}
      <4>1. ~IsDynamic(f)
        BY <1>4, <1>5, <2>1 DEF IsDynamic, Parts
      <4>. QED
        BY <4>1 DEF ConfigDirs
    <3>3. AskedAll(f)'
      BY <1>6, <1>7, <1>11, <2>1, <3>2 DEF AskedAll
    <3>. QED
      BY <3>1, <3>3 DEF AskedSoFar
  <2>2. CASE dir # Unresolvable
    <3>1. t.at = "run paths" /\ ReadSoFar(f, t.left) = n + 1
      BY <1>4, <1>9, <2>2
    <3>2. \A d \in DirsTo(f, n + 1) : Asked(d)'
      BY <1>6, <1>7, <1>10, <1>11
    <3>. QED
      BY <1>11, <3>1, <3>2 DEF AskedSoFar
  <2>. QED
    BY <2>1, <2>2
<1>13. FileAsked(f)'
  BY <1>8, <1>9, <1>12 DEF FileAsked
<1>. QED
  BY <1>10, <1>13 DEF AsksOf

LEMMA EndOfELFAsks ==
  ASSUME UNCHANGED systemVars, UNCHANGED scanned, SystemInv, TypeInv, ExactInv,
         NEW f \in File, f \in DOMAIN files, f \in DOMAIN task, FileState(f), EndOfELF(f)
  PROVE  AsksOf(f)
<1>1. PICK r : r = files[f]
  OBVIOUS
<1>2. PICK left : left = task[f].left
  OBVIOUS
<1>3. PartlyRead(f, r, left) /\ left = << >> /\ task[f].at = "run paths"
  BY <1>1, <1>2 DEF FileState, EndOfELF, Running, InTask
<1>4. PICK m \in Nat : m = Len(Parts(f))
  BY PartsType
<1>5. ReadSoFar(f, left) = m
  <2>1. Len(left) = 0
    BY <1>3
  <2>. QED
    BY <1>4, <2>1 DEF ReadSoFar
<1>6. RunDirs(f) = DirsTo(f, m)
  <2>1. FineTo(f, m)
    BY <1>3, <1>5, Zenon DEF PartlyRead
  <2>2. m <= Len(Parts(f)) /\ m = Len(Parts(f))
    BY <1>4
  <2>. QED
    BY <2>1, <2>2, RunDirsAre
<1>7. \A d \in RunDirs(f) : Asked(d)
  <2>1. AskedSoFar(f, r, task[f])
    BY <1>1 DEF ExactInv, AskInv, FileAsked
  <2>. QED
    BY <1>2, <1>3, <1>5, <1>6, <2>1 DEF AskedSoFar
<1>8. queue' = queue /\ Met /\ DOMAIN task' = DOMAIN task
  BY MetSame DEF EndOfELF, At
<1>9. /\ RunDirs(f)' = RunDirs(f) /\ ConfigDirs(f)' = ConfigDirs(f)
      /\ \A d : Asked(d) => Asked(d)'
  BY <1>8, SystemKept, AskedKept
<1>10. PICK q : q = files'[f]
  OBVIOUS
<1>11. PICK t : t = task'[f]
  OBVIOUS
<1>12. q \in Records(f) /\ InTask(f, q, t) /\ q.configPaths = << >>
  BY <1>10, <1>11, EndOfELFEffect
<1>13. \/ t.at = "config"
       \/ t.at = "done" /\ ~q.isDynamicELF
  <2>1. PICK none : none = << >>
    OBVIOUS
  <2>2. PICK paths : paths = ConfigPaths(f)
    OBVIOUS
  <2>3. t = IF q.isDynamicELF THEN [at |-> "config", left |-> paths] ELSE [at |-> "done", left |-> none]
    BY <1>10, <1>11, <2>1, <2>2 DEF EndOfELF, At
  <2>. QED
    BY <2>3
<1>14. AskedSoFar(f, q, t)'
  <2>1. CASE t.at = "config"
    <3>1. DirsOf(q.configPaths) = {}
      BY <1>12 DEF DirsOf, Range
    <3>2. \A d \in RunDirs(f)' \cup DirsOf(q.configPaths) : Asked(d)'
      BY <1>7, <1>9, <3>1
    <3>. QED
      BY <2>1, <3>2 DEF AskedSoFar
  <2>2. CASE t.at = "done" /\ ~q.isDynamicELF
    <3>1. ~IsDynamic(f)
      BY <1>12, <2>2 DEF InTask, Inspected
    <3>2. AskedAll(f)'
      BY <1>7, <1>9, <3>1 DEF AskedAll, ConfigDirs
    <3>. QED
      BY <2>2, <3>2 DEF AskedSoFar
  <2>. QED
    BY <1>13, <2>1, <2>2
<1>15. FileAsked(f)'
  <2>1. \A s, u : s = files'[f] /\ u = task'[f] => AskedSoFar(f, s, u)'
    BY <1>10, <1>11, <1>14
  <2>. QED
    BY <1>8, <2>1 DEF FileAsked
<1>. QED
  BY <1>8, <1>15 DEF AsksOf, ExactInv, SoundInv

\* What is left of the configuration's search paths is behind those added.
LEMMA ConfigLeft ==
  ASSUME TypeInv, NEW f \in File, NEW r \in Records(f), NEW left \in Seq(SearchPath), PartlyConfigured(f, r, left)
  PROVE  /\ ConfigDirs(f) = {sp.dir : sp \in {s \in Range(ConfigPaths(f)) : s.inode # 0}}
         /\ left = << >> => DirsOf(r.configPaths) = ConfigDirs(f)
         /\ left # << >> => Head(left) \in Range(ConfigPaths(f))
<1>1. IsDynamic(f)
  BY DEF PartlyConfigured
<1>2. PICK S : S = SearchPath
  OBVIOUS
<1>3. PICK paths \in Seq(S) : paths = r.configPaths
  BY <1>2 DEF Records
<1>4. PICK whole : whole = paths \o left
  OBVIOUS
<1>5. ConfigPaths(f) = whole
  <2>1. PICK s : s = [r EXCEPT !.configPaths = @ \o left]
    OBVIOUS
  <2>2. s = [r EXCEPT !.configPaths = whole]
    BY <1>3, <1>4, <2>1
  <2>3. s.configPaths = whole
    BY <2>2 DEF Records
  <2>4. s.configPaths = ConfigPaths(f)
    BY <1>1, <2>1, Zenon DEF PartlyConfigured, Inspected
  <2>. QED
    BY <2>3, <2>4
<1>6. left \in Seq(S)
  BY <1>2
<1>7. left = << >> => whole = paths
  BY <1>3, <1>4
<1>8. left # << >> => Head(left) \in Range(whole)
  <2>1. PICK n \in Nat : n = Len(paths) /\ DOMAIN paths = 1..n
    BY <1>3
  <2>2. PICK k \in Nat : k = Len(left) /\ DOMAIN left = 1..k
    BY <1>6
  <2>3. whole \in Seq(S) /\ DOMAIN whole = 1..(n + k) /\ \A i \in 1..k : whole[n + i] = left[i]
    BY <1>3, <1>4, <1>6, <2>1, <2>2
  <2>4. ASSUME left # << >> PROVE Head(left) \in Range(whole)
    <3>1. k > 0 /\ Head(left) = left[1]
      BY <1>6, <2>2, <2>4
    <3>2. n + 1 \in 1..(n + k) /\ 1 \in 1..k
      BY <3>1
    <3>3. whole[n + 1] = Head(left)
      BY <2>3, <3>1, <3>2
    <3>. QED
      BY <2>3, <3>2, <3>3 DEF Range
  <2>. QED
    BY <2>4
<1>. QED
  BY <1>1, <1>3, <1>5, <1>7, <1>8 DEF ConfigDirs, DirsOf

LEMMA AddConfigAsks ==
  ASSUME UNCHANGED systemVars, UNCHANGED scanned, SystemInv, TypeInv, ExactInv,
         NEW f \in File, f \in DOMAIN files, f \in DOMAIN task, FileState(f), AddConfigPath(f)
  PROVE  AsksOf(f)
<1>1. PICK r : r = files[f]
  OBVIOUS
<1>2. PICK left : left = task[f].left
  OBVIOUS
<1>3. r \in Records(f) /\ PartlyConfigured(f, r, left) /\ left # << >> /\ task[f].at = "config" /\ left \in Seq(SearchPath)
  <2>1. r \in Records(f) /\ PartlyConfigured(f, r, left) /\ left # << >> /\ task[f].at = "config"
    BY <1>1, <1>2 DEF FileState, AddConfigPath, Running, InTask
  <2>. QED
    BY <1>2, <2>1, TypeParts DEF WalkType
<1>4. PICK sp : sp = Head(left)
  OBVIOUS
<1>5. /\ ConfigDirs(f) = {s.dir : s \in {p \in Range(ConfigPaths(f)) : p.inode # 0}}
      /\ sp \in Range(ConfigPaths(f)) /\ sp \in SearchPath
  <2>1. PICK S : S = SearchPath
    OBVIOUS
  <2>2. sp \in S
    BY <1>3, <1>4, <2>1
  <2>. QED
    BY <1>3, <1>4, <2>1, <2>2, ConfigLeft
<1>6. sp.inode # 0 => sp.dir \in Reachable \cup Ignored
  BY <1>5, ReachableOf DEF ExactInv, SoundInv
<1>7. \A d \in RunDirs(f) \cup DirsOf(r.configPaths) : Asked(d)
  <2>1. AskedSoFar(f, r, task[f])
    BY <1>1 DEF ExactInv, AskInv, FileAsked
  <2>. QED
    BY <1>3, <2>1 DEF AskedSoFar
<1>8. /\ queue' = (IF sp.inode # 0 THEN Append(queue, sp) ELSE queue)
      /\ DOMAIN task' = DOMAIN task
  BY <1>2, <1>4 DEF AddConfigPath, At
<1>9. Met /\ (sp.inode # 0 => Asked(sp.dir)') /\ \A i \in DOMAIN queue' : queue'[i].dir \in Reachable \cup Ignored
  <2>1. CASE sp.inode = 0
    BY <1>8, <2>1, MetSame DEF ExactInv, SoundInv
  <2>2. CASE sp.inode # 0
    <3>1. queue \in Seq(SearchPath)
      BY TypeParts DEF WalkType
    <3>2. /\ Met /\ Asked(sp.dir)'
          /\ \A i \in DOMAIN queue' : queue'[i] = sp \/ (i \in DOMAIN queue /\ queue'[i] = queue[i])
      BY <1>5, <1>8, <2>2, <3>1, Request
    <3>. QED
      BY <1>6, <2>2, <3>2 DEF ExactInv, SoundInv
  <2>. QED
    BY <2>1, <2>2
<1>10. /\ RunDirs(f)' = RunDirs(f)
       /\ \A d : Asked(d) => Asked(d)'
  BY <1>9, SystemKept, AskedKept
<1>11. PICK q : q = files'[f]
  OBVIOUS
<1>12. PICK t : t = task'[f]
  OBVIOUS
<1>13. t.at = "config"
  <2>1. PICK rest : rest = Tail(left)
    OBVIOUS
  <2>2. t = [at |-> "config", left |-> rest]
    BY <1>2, <1>12, <2>1 DEF AddConfigPath, At
  <2>. QED
    BY <2>2
<1>14. DirsOf(q.configPaths) \subseteq DirsOf(r.configPaths) \cup (IF sp.inode # 0 THEN {sp.dir} ELSE {})
  <2>1. PICK S : S = SearchPath
    OBVIOUS
  <2>2. PICK paths \in Seq(S) : paths = r.configPaths
    BY <1>3, <2>1 DEF Records
  <2>3. PICK more : more = Append(paths, sp)
    OBVIOUS
  <2>4. q.configPaths = more
    <3>1. q = [r EXCEPT !.configPaths = more]
      BY <1>1, <1>2, <1>4, <1>11, <2>2, <2>3 DEF AddConfigPath
    <3>. QED
      BY <1>3, <3>1 DEF Records
  <2>5. Range(more) \subseteq Range(paths) \cup {sp}
    <3>1. PICK n \in Nat : n = Len(paths) /\ DOMAIN paths = 1..n
      BY <2>2
    <3>2. sp \in S
      BY <1>5, <2>1
    <3>3. /\ more \in Seq(S) /\ Len(more) = n + 1 /\ more[n + 1] = sp
          /\ \A i \in 1..n : more[i] = paths[i]
      BY <2>2, <2>3, <3>1, <3>2, Appended
    <3>4. DOMAIN more = 1..(n + 1) /\ \A i \in 1..(n + 1) : i = n + 1 \/ i \in 1..n
      BY <3>3
    <3>. QED
      BY <3>1, <3>3, <3>4 DEF Range
  <2>. QED
    BY <2>2, <2>4, <2>5 DEF DirsOf
<1>15. AskedSoFar(f, q, t)'
  <2>1. \A d \in RunDirs(f)' \cup DirsOf(q.configPaths) : Asked(d)'
    BY <1>7, <1>9, <1>10, <1>14
  <2>. QED
    BY <1>13, <2>1 DEF AskedSoFar
<1>16. FileAsked(f)'
  <2>1. \A s, u : s = files'[f] /\ u = task'[f] => AskedSoFar(f, s, u)'
    BY <1>11, <1>12, <1>15
  <2>. QED
    BY <1>8, <2>1 DEF FileAsked
<1>. QED
  BY <1>9, <1>16 DEF AsksOf

LEMMA EndOfTaskAsks ==
  ASSUME UNCHANGED systemVars, UNCHANGED scanned, SystemInv, TypeInv, ExactInv,
         NEW f \in File, f \in DOMAIN files, f \in DOMAIN task, FileState(f), EndOfTask(f)
  PROVE  AsksOf(f)
<1>1. PICK r : r = files[f]
  OBVIOUS
<1>2. r \in Records(f) /\ PartlyConfigured(f, r, << >>) /\ task[f].at = "config"
  BY <1>1 DEF FileState, EndOfTask, Running, InTask
<1>3. DirsOf(r.configPaths) = ConfigDirs(f)
  <2>1. << >> \in Seq(SearchPath)
    OBVIOUS
  <2>. QED
    BY <1>2, <2>1, ConfigLeft
<1>4. AskedAll(f)
  <2>1. AskedSoFar(f, r, task[f])
    BY <1>1 DEF ExactInv, AskInv, FileAsked
  <2>. QED
    BY <1>2, <1>3, <2>1 DEF AskedSoFar, AskedAll
<1>5. queue' = queue /\ Met /\ DOMAIN task' = DOMAIN task
  BY MetSame DEF EndOfTask, At
<1>6. PICK t : t = task'[f]
  OBVIOUS
<1>7. t.at = "done"
  BY <1>6 DEF EndOfTask, At
<1>8. \A q : AskedSoFar(f, q, t)'
  <2>1. AskedAll(f)'
    BY <1>4, <1>5, AskedKept
  <2>. QED
    BY <1>7, <2>1 DEF AskedSoFar
<1>9. FileAsked(f)'
  <2>1. \A s, u : s = files'[f] /\ u = task'[f] => AskedSoFar(f, s, u)'
    BY <1>6, <1>8
  <2>. QED
    BY <1>5, <2>1 DEF FileAsked
<1>. QED
  BY <1>5, <1>9 DEF AsksOf, ExactInv, SoundInv

LEMMA TaskExact ==
  ASSUME UNCHANGED systemVars, TypeInv, IInv, RecordInv, ExactInv, NEW f \in File, Task(f)
  PROVE  ExactInv'
<1>1. /\ f \in DOMAIN files /\ f \in DOMAIN task /\ f \in iteration /\ pc = "inspect"
      /\ DOMAIN files' = DOMAIN files /\ DOMAIN task' = DOMAIN task
      /\ \A g \in DOMAIN files : g # f => files'[g] = files[g]
      /\ \A g \in DOMAIN task : g # f => task'[g] = task[g]
      /\ UNCHANGED <<pc, error, second, stack, processedDirs, scanned, iteration, all, ldVars>>
  BY TaskEffect DEF RecordInv
<1>2. AsksOf(f)
  <2>1. FileState(f) /\ SystemInv
    BY <1>1 DEF RecordInv, FileInv
  <2>. QED
    BY <1>1, <2>1, OpenAsks, RunPathAsks, EndOfELFAsks, AddConfigAsks, EndOfTaskAsks DEF Task
<1>3. AskInv'
  <2>1. \A d \in Start : Asked(d)'
    BY <1>2, AskedKept DEF ExactInv, AskInv, AsksOf
  <2>2. ASSUME NEW g \in DOMAIN files', g # f PROVE FileAsked(g)'
    <3>1. FileAsked(g) /\ files'[g] = files[g]
      BY <1>1, <2>2 DEF ExactInv, AskInv
    <3>2. g \in DOMAIN task => task'[g] = task[g]
      BY <1>1, <2>2
    <3>. QED
      BY <1>1, <1>2, <3>1, <3>2, FileAskedKept DEF AsksOf
  <2>3. \A g \in DOMAIN files' : FileAsked(g)'
    <3>1. FileAsked(f)'
      BY <1>2 DEF AsksOf
    <3>2. \A g : g = f => FileAsked(g)'
      BY <3>1 DEF FileAsked
    <3>. QED
      BY <2>2, <3>2
  <2>. QED
    BY <2>1, <2>3 DEF AskInv, Start
<1>4. SeenInv'
  <2>1. \A e : Seen(e) => Seen(e)'
    BY <1>1, SeenKept
  <2>2. \A d, e : Pending(stack, d, e) => Pending(stack', d, e)
    BY <1>1
  <2>3. pc # "done" /\ scanned' = scanned
    BY <1>1
  <2>. QED
    BY <2>1, <2>2, <2>3, SeenStep DEF ExactInv
<1>5. LdInv'
  BY <1>1, LdKept DEF ExactInv, ldVars
<1>6. SoundInv'
  BY <1>1, <1>2, SoundKept DEF ExactInv, SoundInv, AsksOf
<1>7. EndInv'
  BY <1>1 DEF EndInv
<1>. QED
  BY <1>3, <1>4, <1>5, <1>6, <1>7 DEF ExactInv

\* When the tasks are over, all that was asked for is in the queue.
LEMMA WaitAllExact ==
  ASSUME UNCHANGED systemVars, TypeInv, IInv, RecordInv, ExactInv, WaitAll, pc' # "error"
  PROVE  ExactInv'
<1>1. /\ pc = "inspect" /\ pc' = "scan" /\ iteration' = {} /\ task' = << >>
      /\ UNCHANGED <<second, queue, stack, scanned, files, all, line>>
      /\ \A f \in DOMAIN task : task[f].at = "done"
  BY DEF WaitAll, Fail, walkVars, ldVars, IInv, InspectInv
<1>2. Met
  BY <1>1, MetSame
<1>3. AskInv'
  <2>1. \A d \in Start : Asked(d)'
    BY <1>2, AskedKept DEF ExactInv, AskInv
  <2>2. ASSUME NEW f \in DOMAIN files' PROVE FileAsked(f)'
    <3>1. FileAsked(f) /\ DOMAIN task = iteration
      BY <1>1, <2>2 DEF ExactInv, AskInv, RecordInv, StageInv
    <3>2. PICK r, t : r = files[f] /\ t = task[f]
      OBVIOUS
    <3>3. AskedAll(f)
      <4>1. CASE f \in DOMAIN task
        <5>1. AskedSoFar(f, r, t) /\ t.at = "done"
          BY <1>1, <3>1, <3>2, <4>1 DEF FileAsked
        <5>. QED
          BY <5>1 DEF AskedSoFar
      <4>2. CASE f \notin DOMAIN task
        BY <3>1, <4>2 DEF FileAsked
      <4>. QED
        BY <4>1, <4>2
    <3>4. AskedAll(f)'
      BY <1>2, <3>3, AskedKept
    <3>5. f \notin DOMAIN task'
      BY <1>1
    <3>. QED
      BY <3>4, <3>5 DEF FileAsked
  <2>. QED
    BY <2>1, <2>2 DEF AskInv, Start
<1>4. SeenInv'
  <2>1. \A e : Seen(e) => Seen(e)'
    BY <1>1, SeenKept
  <2>2. \A d, e : Pending(stack, d, e) => Pending(stack', d, e)
    BY <1>1
  <2>3. pc # "done" /\ scanned' = scanned
    BY <1>1
  <2>. QED
    BY <2>1, <2>2, <2>3, SeenStep DEF ExactInv
<1>5. LdInv'
  BY <1>1, LdKept DEF ExactInv
<1>6. SoundInv'
  BY <1>1, SoundKept DEF ExactInv, SoundInv
<1>7. EndInv'
  BY <1>1 DEF EndInv
<1>. QED
  BY <1>3, <1>4, <1>5, <1>6, <1>7 DEF ExactInv

\* The lines of ldconfig's output.
LEMMA LdFiles ==
  ASSUME UNCHANGED systemVars, TypeInv, IInv, StageInv, ExactInv, LdAdd
  PROVE  /\ DOMAIN files \subseteq DOMAIN files' /\ DOMAIN all \subseteq DOMAIN all'
         /\ LdReal(LdLines[line].path) \in DOMAIN files'
         /\ DOMAIN files' \subseteq FilesIn(Reachable)
         /\ AskInv'
<1>0. PICK p : p = LdLines[line].path
  OBVIOUS
<1>1. PICK f \in File : p = LdLines[line].path /\ f = LdReal(p)
  BY <1>0 DEF LdAdd, LdRow
<1>2. /\ pc = "ldconfig" /\ line \in DOMAIN LdLines /\ LdLines[line].kind = "row"
      /\ UNCHANGED <<queue, stack, scanned, task>>
      /\ IF p \in DOMAIN all \/ f \in DOMAIN all THEN UNCHANGED fileVars ELSE AddFile(f) /\ all' = WithFile(f)
  BY <1>0, <1>1 DEF LdAdd, LdRow, LdUnchanged, walkVars
<1>3. Met
  BY <1>2, MetSame
<1>4. task = << >>
  BY <1>2 DEF StageInv
<1>5. CASE p \in DOMAIN all \/ f \in DOMAIN all
  <2>1. f \in DOMAIN files
    <3>1. \A q \in DOMAIN all : all[q] = LdReal(q) /\ all[q] \in DOMAIN files
      BY TypeParts DEF FileType, Range
    <3>2. LdReal(f) = f
      BY TreeAssumption DEF LdReal
    <3>. QED
      BY <1>1, <1>5, <3>1, <3>2
  <2>2. UNCHANGED <<files, all, iteration, task>>
    BY <1>2, <1>5 DEF fileVars
  <2>3. AskInv'
    BY <1>3, <2>2, AskKept DEF ExactInv
  <2>. QED
    BY <1>1, <2>1, <2>2, <2>3 DEF ExactInv, SoundInv
<1>6. CASE ~(p \in DOMAIN all \/ f \in DOMAIN all)
  <2>1. AddFile(f) /\ all' = WithFile(f)
    BY <1>2, <1>6
  <2>2. DOMAIN files' = DOMAIN files \cup {f} /\ DOMAIN all \subseteq DOMAIN all'
    BY <2>1, AddFileEffect
  <2>3. f \in FilesIn(Reachable)
    <3>1. LdLines[line] \in LdRows
      BY <1>2 DEF LdRows, Range
    <3>. QED
      BY <1>1, <3>1 DEF FilesIn
  <2>4. AskInv'
    BY <1>2, <1>3, <1>4, <2>1, AddKeepsAsk DEF ExactInv
  <2>. QED
    BY <1>1, <2>2, <2>3, <2>4 DEF ExactInv, SoundInv
<1>. QED
  BY <1>5, <1>6

LEMMA LdExact ==
  ASSUME UNCHANGED systemVars, TypeInv, IInv, SystemInv, StageInv, ExactInv, LdStart \/ LdOther \/ LdAdd \/ LdEnd,
         pc' # "error"
  PROVE  ExactInv'
<1>1. /\ pc = "ldconfig" /\ pc' \in {"ldconfig", "scan"} /\ ~second
      /\ UNCHANGED <<queue, stack, scanned, task>>
  BY DEF ExactInv, LdInv, LdStart, LdOther, LdAdd, LdEnd, LdRow, AtLdEnd, LdUnchanged, Fail, walkVars
<1>2. Met
  BY <1>1, MetSame
<1>3. /\ DOMAIN files \subseteq DOMAIN files' /\ DOMAIN all \subseteq DOMAIN all'
      /\ DOMAIN files' \subseteq FilesIn(Reachable) /\ AskInv'
  <2>1. CASE LdAdd
    BY <2>1, LdFiles
  <2>2. CASE LdStart \/ LdOther \/ LdEnd
    <3>1. UNCHANGED <<files, all, iteration, task>>
      BY <2>2 DEF LdStart, LdOther, LdEnd, LdUnchanged, Fail, fileVars
    <3>2. AskInv'
      BY <1>2, <3>1, AskKept DEF ExactInv
    <3>. QED
      BY <3>1, <3>2 DEF ExactInv, SoundInv
  <2>. QED
    BY <2>1, <2>2
<1>4. SeenInv'
  <2>1. \A e : Seen(e) => Seen(e)'
    BY <1>1, <1>3, SeenKept
  <2>2. \A d, e : Pending(stack, d, e) => Pending(stack', d, e)
    BY <1>1
  <2>3. pc # "done" /\ scanned' = scanned
    BY <1>1
  <2>. QED
    BY <2>1, <2>2, <2>3, SeenStep DEF ExactInv
<1>5. LdInv'
  <2>1. ldconfig' = ldconfig /\ \A p : LdReal(p)' = LdReal(p)
    BY DEF systemVars, LdReal
  <2>2. /\ line \in Nat
        /\ \A i \in 1..(line - 1) : /\ i \in DOMAIN LdLines /\ LdLines[i].kind = "row"
                                    /\ LdReal(LdLines[i].path) \in File => LdReal(LdLines[i].path) \in DOMAIN files'
    BY <1>3 DEF ExactInv, LdInv
  <2>3. CASE LdStart
    <3>1. line' = 1 /\ ~second' /\ pc' = "ldconfig"
      BY <1>1, <2>3 DEF LdStart, LdUnchanged, Fail
    <3>2. \A i \in 1..(line' - 1) : FALSE
      BY <3>1
    <3>. QED
      BY <3>1, <3>2 DEF LdInv
  <2>4. CASE LdOther \/ LdAdd
    <3>1. line' = line + 1 /\ ~second' /\ pc' = "ldconfig" /\ line \in DOMAIN LdLines /\ LdLines[line].kind = "row"
      BY <1>1, <2>4 DEF LdOther, LdAdd, LdRow, LdUnchanged
    <3>2. LdReal(LdLines[line].path) \in File => LdReal(LdLines[line].path) \in DOMAIN files'
      <4>1. CASE LdAdd
        BY <4>1, LdFiles
      <4>2. CASE LdOther
        BY <4>2, TreeAssumption DEF LdOther, LdRow, Path, Nowhere
      <4>. QED
        BY <2>4, <4>1, <4>2
    <3>3. \A i \in 1..(line' - 1) : i = line \/ i \in 1..(line - 1)
      BY <2>2, <3>1
    <3>4. line' \in Nat
      BY <2>2, <3>1
    <3>5. \A i \in 1..(line' - 1) : /\ i \in DOMAIN LdLines /\ LdLines[i].kind = "row"
                                    /\ LdReal(LdLines[i].path) \in File => LdReal(LdLines[i].path) \in DOMAIN files'
      BY <2>2, <3>1, <3>2, <3>3
    <3>. QED
      BY <2>1, <3>1, <3>4, <3>5 DEF LdInv, LdLines, LdReal
  <2>5. CASE LdEnd
    <3>1. /\ line > 0 /\ (line \in DOMAIN LdLines => LdLines[line].kind = "last")
          /\ ~(line < Len(LdLines)) /\ line - 1 = ldconfig.count
          /\ line' = line /\ second' = TRUE /\ pc' = "scan"
      BY <1>1, <2>5 DEF LdEnd, AtLdEnd, Fail, ldVars
    <3>2. ASSUME NEW i \in DOMAIN LdLines, LdLines[i].kind = "row" PROVE i \in 1..(line - 1)
      <4>1. PICK n \in Nat : n = Len(LdLines) /\ DOMAIN LdLines = 1..n
        BY DEF SystemInv
      <4>2. i # line
        BY <3>1, <3>2
      <4>. QED
        BY <2>2, <3>1, <4>1, <4>2
    <3>. QED
      BY <2>1, <2>2, <3>1, <3>2 DEF LdInv, LdLines, LdReal
  <2>. QED
    BY <2>3, <2>4, <2>5
<1>6. SoundInv'
  BY <1>1, <1>3, SoundKept DEF ExactInv, SoundInv
<1>7. EndInv'
  BY <1>1 DEF EndInv
<1>. QED
  BY <1>3, <1>4, <1>5, <1>6, <1>7 DEF ExactInv

LEMMA LibsCompleteKept ==
  ASSUME UNCHANGED systemVars, UNCHANGED <<pc, libs>>, LibsComplete
  PROVE  LibsComplete'
<1>1. Reachable' = Reachable /\ image' = image /\ \A f : IsDynamic(f)' <=> IsDynamic(f)
  BY ReachableKept, SystemKept
<1>2. \A p : LdReal(p)' = LdReal(p)
  BY DEF LdReal
<1>. HIDE DEF Reachable
<1>. QED
  BY <1>1, <1>2 DEF LibsComplete

LEMMA StutterExact ==
  ASSUME UNCHANGED vars, TypeInv, ExactInv
  PROVE  ExactInv'
<1>1. UNCHANGED systemVars /\ UNCHANGED <<pc, second, queue, stack, scanned, iteration, files, all, task, line, libs>>
  BY DEF vars, walkVars, fileVars, ldVars
<1>2. Met
  BY <1>1, MetSame
<1>3. AskInv'
  BY <1>1, <1>2, AskKept DEF ExactInv
<1>4. SeenInv'
  <2>1. CASE pc = "done"
    BY <1>1, <2>1 DEF SeenInv
  <2>2. CASE pc # "done"
    <3>1. \A e : Seen(e) => Seen(e)'
      BY <1>1, SeenKept
    <3>2. \A d, e : Pending(stack, d, e) => Pending(stack', d, e)
      BY <1>1
    <3>. QED
      BY <1>1, <2>2, <3>1, <3>2, SeenStep DEF ExactInv
  <2>. QED
    BY <2>1, <2>2
<1>5. LdInv'
  BY <1>1, LdKept DEF ExactInv, LdInv
<1>6. SoundInv'
  BY <1>1, SoundKept DEF ExactInv, SoundInv
<1>7. EndInv'
  <2>1. CASE pc \notin {"fill", "done"}
    BY <1>1, <2>1 DEF EndInv
  <2>2. CASE pc \in {"fill", "done"}
    <3>1. pc' = "done" => LibsComplete'
      BY <1>1, <2>2, LibsCompleteKept DEF ExactInv, EndInv
    <3>. QED
      BY <1>1, <2>2, <3>1, EndKept DEF ExactInv, EndInv
  <2>. QED
    BY <2>1, <2>2
<1>. QED
  BY <1>3, <1>4, <1>5, <1>6, <1>7 DEF ExactInv

\* Every path of a library in a directory that was asked for gets into data.libs.
LEMMA FillExact ==
  ASSUME UNCHANGED systemVars, TypeInv, RecordInv, ExactInv, Fill
  PROVE  ExactInv'
<1>1. /\ pc = "fill" /\ pc' = "done" /\ task = << >> /\ iteration = {}
      /\ UNCHANGED <<second, queue, stack, scanned, iteration, files, task, line>>
  BY DEF Fill, RecordInv, StageInv
<1>2. Met
  BY <1>1, MetSame
<1>3. AskInv'
  BY <1>1, <1>2, AskKept DEF ExactInv
<1>4. SeenInv'
  BY <1>1 DEF SeenInv
<1>5. LdInv'
  BY <1>1, LdKept DEF ExactInv, LdInv
<1>6. SoundInv'
  BY <1>1, SoundKept DEF ExactInv, SoundInv
<1>7. /\ stack = << >> /\ scanned = Reachable /\ DOMAIN files = FilesIn(Reachable)
      /\ Cardinality({i \in DOMAIN LdLines : LdLines[i].kind = "row"}) = ldconfig.count
  BY <1>1 DEF ExactInv, EndInv
<1>8. ASSUME NEW d \in scanned, NEW p \in (Children[d] \cap Path) \ Ignored, NEW f, f = LdReal(p),
             f \in Wanted, IsDynamic(f), image[f].header = "ET_DYN"
      PROVE  <<p, image[f].is32>> \in DOMAIN libs'
  <2>1. f \in DOMAIN files /\ p \in DOMAIN all
    <3>1. ~Pending(stack, d, p)
      BY <1>7 DEF Pending
    <3>2. Seen(p)
      BY <1>1, <1>8, <3>1 DEF ExactInv, SeenInv
    <3>. QED
      BY <1>8, <3>2 DEF Seen
  <2>2. all[p] = f
    BY <1>8, <2>1 DEF TypeInv
  <2>3. files[f] \in Records(f) /\ Inspected(f, files[f])
    BY <1>1, <2>1, AllInspected DEF RecordInv
  <2>4. files[f].isLib /\ (files[f].is32 <=> image[f].is32)
    BY <1>8, <2>3 DEF Inspected
  <2>5. files[f].is32 = image[f].is32
    <3>1. files[f].is32 \in BOOLEAN
      BY <2>3 DEF Records
    <3>2. image[f].is32 \in BOOLEAN
      BY <2>1 DEF RecordInv, SystemInv, IsImage, TypeInv, TypeOK
    <3>. QED
      BY <2>4, <3>1, <3>2
  <2>6. p \in LibPaths
    BY <2>1, <2>2, <2>4 DEF LibPaths
  <2>7. DOMAIN libs' = {<<q, files[all[q]].is32>> : q \in LibPaths}
    BY FillMakesLibs
  <2>. QED
    BY <2>2, <2>5, <2>6, <2>7
<1>9. LibsComplete'
  <2>1. Reachable' = Reachable /\ image' = image /\ \A f : IsDynamic(f)' <=> IsDynamic(f)
    BY ReachableKept, SystemKept
  <2>2. \A p : LdReal(p)' = LdReal(p)
    BY DEF LdReal
  <2>. HIDE DEF Reachable
  <2>. QED
    BY <1>7, <1>8, <2>1, <2>2 DEF LibsComplete
<1>10. EndInv'
  BY <1>1, <1>7, <1>9, EndKept
<1>. QED
  BY <1>3, <1>4, <1>5, <1>6, <1>10 DEF ExactInv

LEMMA ScanExact ==
  ASSUME UNCHANGED systemVars, OneFileSystem, TypeInv, IInv, StageInv, ExactInv, Scan
  PROVE  ExactInv'
<1>1. ASSUME NEW what, Fail(what), pc = "scan" PROVE ExactInv'
  BY <1>1, ExactKept DEF Fail, walkVars, ldVars
<1>2. CASE Dequeue
  BY <1>2, DequeueExact
<1>3. CASE EndOfQueue
  BY <1>3, EndOfQueueExact
<1>4. CASE EndOfDir \/ (\E f \in File : SkipFile(f)) \/ (\E l \in Link : SkipLink(l))
  BY <1>4, SkipExact
<1>5. CASE (\E d \in Dir : ReadDir(d)) \/ (\E l \in Link : LinkToDir(l))
  BY <1>5, DirsExact
<1>6. ASSUME NEW f \in File, ReadFile(f) PROVE ExactInv'
  <2>1. CASE Duplicate(f)
    BY <1>1, <1>6, <2>1 DEF ReadFile, Reading
  <2>2. CASE ~Duplicate(f)
    BY <1>6, <2>2, FilesExact
  <2>. QED
    BY <2>1, <2>2
<1>7. ASSUME NEW l \in Link, LinkToFile(l) PROVE ExactInv'
  <2>1. CASE Duplicate(RealPath[l]) \/ l \in DOMAIN WithFile(RealPath[l])
    BY <1>1, <1>7, <2>1 DEF LinkToFile, LinkIs, Reading
  <2>2. CASE ~(Duplicate(RealPath[l]) \/ l \in DOMAIN WithFile(RealPath[l]))
    BY <1>7, <2>2, FilesExact
  <2>. QED
    BY <2>1, <2>2
<1>8. ASSUME NEW l \in Link, LinkThrows(l) PROVE ExactInv'
  BY <1>1, <1>8 DEF LinkThrows, LinkIs, Reading
<1>. QED
  BY <1>2, <1>3, <1>4, <1>5, <1>6, <1>7, <1>8 DEF Scan

LEMMA RestExact ==
  ASSUME UNCHANGED systemVars, TypeInv, IInv, RecordInv, ExactInv,
         WaitAll \/ LdStart \/ LdOther \/ LdThrows \/ LdAdd \/ LdEnd \/ Fill
  PROVE  ExactInv'
<1>1. ASSUME NEW what, Fail(what), pc \in {"inspect", "ldconfig"} PROVE ExactInv'
  BY <1>1, ExactKept DEF Fail, walkVars, ldVars
<1>2. SystemInv /\ StageInv
  BY DEF RecordInv
<1>3. CASE WaitAll
  BY <1>1, <1>3, WaitAllExact DEF WaitAll
<1>4. CASE LdStart
  BY <1>1, <1>2, <1>4, LdExact DEF LdStart
<1>5. CASE LdEnd
  BY <1>1, <1>2, <1>5, LdExact DEF LdEnd, AtLdEnd
<1>6. CASE LdOther \/ LdAdd
  BY <1>2, <1>6, LdExact DEF LdOther, LdAdd, LdRow
<1>7. CASE LdThrows
  BY <1>1, <1>7 DEF LdThrows, LdRow
<1>8. CASE Fill
  BY <1>8, FillExact
<1>. QED
  BY <1>3, <1>4, <1>5, <1>6, <1>7, <1>8

LEMMA ExactStep ==
  ASSUME OneFileSystem, TypeInv, IInv, RecordInv, ExactInv, [Next]_vars
  PROVE  ExactInv'
<1>1. CASE UNCHANGED vars
  BY <1>1, StutterExact
<1>2. CASE Next
  BY <1>2, ScanExact, TaskExact, RestExact, StutterExact DEF Next, Main, Stopped, RecordInv
<1>. QED
  BY <1>1, <1>2

LEMMA ExactInit == ASSUME OneFileSystem, Init PROVE ExactInv
<1>1. /\ pc = "scan" /\ second = FALSE /\ queue = ScanPaths /\ scanned = {} /\ DOMAIN files = {} /\ line = 0
  BY DEF Init
<1>2. PICK n \in Nat : n = Len(ScanPaths) /\ DOMAIN ScanPaths = 1..n
  BY TreeAssumption
<1>3. \A i \in 1..n : ScanPaths[i] \in Range(ScanPaths) /\ ScanPaths[i].inode # 0
  <2>1. \A i \in 1..n : ScanPaths[i] \in Current
    BY <1>2 DEF OneFileSystem
  <2>2. \A sp \in Current : sp.inode # 0
    BY DEF Current, SearchPath, OneFileSystem
  <2>. QED
    BY <1>2, <2>1, <2>2 DEF Range
<1>4. AskInv
  <2>1. ASSUME NEW d \in Start PROVE Asked(d)
    BY <1>1 DEF Start, Asked, Range
  <2>. QED
    BY <1>1, <2>1 DEF AskInv
<1>5. SeenInv
  BY <1>1 DEF SeenInv
<1>6. LdInv
  <2>1. \A i \in 1..(line - 1) : FALSE
    BY <1>1
  <2>. QED
    BY <1>1, <2>1 DEF LdInv
<1>7. SoundInv
  <2>1. \A i \in 1..n : ScanPaths[i].dir \in Start \cup Ignored
    BY <1>3 DEF Start
  <2>2. Start \subseteq Reachable
    BY TypeInit, ReachableIs DEF Closed
  <2>. HIDE DEF Reachable
  <2>. QED
    BY <1>1, <1>2, <2>1, <2>2 DEF SoundInv
<1>8. EndInv
  BY <1>1 DEF EndInv
<1>. QED
  BY <1>4, <1>5, <1>6, <1>7, <1>8 DEF ExactInv

LEMMA ExactInvariance == OneFileSystem => (Spec => []ExactInv)
<1>. SUFFICES ASSUME OneFileSystem PROVE Spec => []ExactInv
  OBVIOUS
<1>1. Init => ExactInv
  BY ExactInit
<1>2. TypeInv /\ IInv /\ RecordInv /\ ExactInv /\ [Next]_vars => ExactInv'
  BY ExactStep
<1>. QED
  BY <1>1, <1>2, TypeInvariance, Invariance, RecordInvariance, PTL DEF Spec

\* Where inode numbers identify directories, exactly the files are collected that
\* lie in directories reachable from those asked for at the start, whatever the
\* tree, the links in it, the images and the order of the tasks; and that only
\* after all rows that ldconfig had announced.
THEOREM ExactlyReachableCollected == OneFileSystem => (Spec => []CollectsExactly)
<1>1. ExactInv => CollectsExactly
  BY DEF ExactInv, EndInv, CollectsExactly
<1>. QED
  BY <1>1, ExactInvariance, PTL

\* There, data.libs has every path of a library that Resolver may look for.
THEOREM EachLibFound == OneFileSystem => (Spec => []LibsExact)
<1>1. ExactInv => LibsComplete
  BY DEF ExactInv, EndInv, LibsComplete
<1>2. RecordInv /\ ExactInv => LibsExact
  BY <1>1 DEF RecordInv, LibsInv, LibsExact
<1>. QED
  BY <1>2, RecordInvariance, ExactInvariance, PTL
=============================================================================
