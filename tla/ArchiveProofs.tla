---------------------------- MODULE ArchiveProofs ----------------------------
(***************************************************************************)
(* Proofs about Archive, for any number of archives with any entries.      *)
(***************************************************************************)
EXTENDS Archive, SequenceTheorems, WellFoundedInduction, TLAPS

-----------------------------------------------------------------------------
(* What is taken for a library.                                            *)

\* Every set of numbers that is not empty has a least element.
LEMMA LeastElement ==
  ASSUME NEW S \in SUBSET Nat, S # {}
  PROVE  \E i \in S : \A j \in S : i <= j
<1>1. PICK i \in S : \A j \in S : ~ (<<j, i>> \in OpToRel(<, Nat))
  BY NatLessThanWellFounded, WFMin, Zenon
<1>2. ASSUME NEW j \in S
      PROVE  i <= j
  <2>1. i \in Nat /\ j \in Nat
    OBVIOUS
  <2>2. <<j, i>> \in Nat \X Nat
    BY <2>1
  <2>3. ~ (j < i)
    BY <1>1, <2>2, Zenon DEF OpToRel
  <2>. QED
    BY <2>1, <2>3
<1>. QED
  BY <1>2

\* The loop over the sections ends somewhere.
LEMMA LoopEnds ==
  ASSUME NEW c, c.sections \in Seq(Range(c.sections))
  PROVE  LET n == LoopEnd(c, TRUE)
         IN  /\ n \in 1 .. Len(c.sections) + 1
             /\ n \in DOMAIN c.sections => ThrowsAt(c, n, TRUE) \/ Dynamic(c, n)
             /\ \A i \in 1 .. n - 1 : ~ThrowsAt(c, i, TRUE) /\ ~Dynamic(c, i)
<1>. DEFINE Ends(n) == n \in DOMAIN c.sections => ThrowsAt(c, n, TRUE) \/ (TRUE /\ Dynamic(c, n))
            Before(n) == \A i \in 1 .. n - 1 : ~ThrowsAt(c, i, TRUE) /\ ~(TRUE /\ Dynamic(c, i))
            S == {n \in 1 .. Len(c.sections) + 1 : Ends(n)}
<1>1. Len(c.sections) \in Nat /\ DOMAIN c.sections = 1 .. Len(c.sections)
  OBVIOUS
<1>2. S \in SUBSET Nat /\ S # {}
  <2>1. PICK m \in Nat : m = Len(c.sections)
    BY <1>1
  <2>2. m + 1 \in 1 .. m + 1 /\ m + 1 \notin 1 .. m
    OBVIOUS
  <2>3. m + 1 \in S
    BY <1>1, <2>1, <2>2, Zenon
  <2>4. S \subseteq 1 .. m + 1
    BY <2>1
  <2>5. 1 .. m + 1 \subseteq Nat
    OBVIOUS
  <2>. HIDE DEF S
  <2>. QED
    BY <2>3, <2>4, <2>5
<1>3. PICK n \in S : \A j \in S : n <= j
  <2>. HIDE DEF S
  <2>. QED
    BY <1>2, LeastElement
<1>4. ASSUME NEW i \in 1 .. n - 1
      PROVE  ~ThrowsAt(c, i, TRUE) /\ ~Dynamic(c, i)
  <2>1. n \in 1 .. Len(c.sections) + 1
    BY <1>3
  <2>2. i \in 1 .. Len(c.sections) + 1 /\ ~(n <= i)
    BY <1>1, <2>1
  <2>3. ~Ends(i)
    BY <1>3, <2>2
  <2>. QED
    BY <2>3
<1>5. n \in 1 .. Len(c.sections) + 1 /\ Ends(n) /\ Before(n)
  BY <1>3, <1>4
<1>6. LoopEnd(c, TRUE) = CHOOSE k \in 1 .. Len(c.sections) + 1 : Ends(k) /\ Before(k)
  BY DEF LoopEnd
<1>. HIDE DEF Ends, Before
<1>7. /\ LoopEnd(c, TRUE) \in 1 .. Len(c.sections) + 1 /\ Ends(LoopEnd(c, TRUE)) /\ Before(LoopEnd(c, TRUE))
  BY <1>5, <1>6
<1>. QED
  BY <1>7 DEF Ends, Before

\* A file from an archive is a library if its image says so, up to its DYNAMIC
\* section; and its bitness is that of the image.
LEMMA TakenForLib ==
  ASSUME NEW e, IsImage(e.image), FromArchive(Fresh(FALSE), e.image).isLib
  PROVE  IsLib(e) /\ FromArchive(Fresh(FALSE), e.image).is32 = e.image.is32
<1>. DEFINE c == e.image
            f == Headed(Fresh(FALSE), c)
<1>1. ~Fresh(FALSE).isLib /\ ~f.isLib
  BY DEF Fresh, Headed
<1>2. FromArchive(Fresh(FALSE), c) = Flagged(f, c, TRUE)
  BY <1>1 DEF FromArchive
<1>3. HasSections(c) /\ ~Throws(c, TRUE) /\ FoundDynamic(c, TRUE)
  <2>1. Flagged(f, c, TRUE) # f
    BY <1>1, <1>2
  <2>. QED
    BY <2>1 DEF Flagged
<1>4. FromArchive(Fresh(FALSE), c) = [f EXCEPT !.isLib = (c.header = "ET_DYN"), !.isDynamicELF = TRUE]
  BY <1>2, <1>3 DEF Flagged
<1>5. f.is32 = c.is32
  BY <1>3 DEF Headed, HasSections, Fresh
<1>6. c.header = "ET_DYN" /\ FromArchive(Fresh(FALSE), c).is32 = c.is32
  <2>1. /\ FromArchive(Fresh(FALSE), c).isLib = (c.header = "ET_DYN")
        /\ FromArchive(Fresh(FALSE), c).is32 = f.is32
    BY <1>4 DEF Headed, Fresh
  <2>. QED
    BY <1>5, <2>1
<1>7. c.sections \in Seq(Range(c.sections)) /\ Len(c.sections) \in Nat /\ DOMAIN c.sections = 1 .. Len(c.sections)
  BY DEF IsImage
<1>8. PICK n : n = LoopEnd(c, TRUE)
  OBVIOUS
<1>9. /\ n \in 1 .. Len(c.sections) + 1
      /\ \A i \in 1 .. n - 1 : ~ThrowsAt(c, i, TRUE) /\ ~Dynamic(c, i)
  BY <1>7, <1>8, LoopEnds
<1>10. n \in DOMAIN c.sections => ~ThrowsAt(c, n, TRUE)
  BY <1>3, <1>8 DEF Throws
<1>11. PICK i \in DOMAIN c.sections : Dynamic(c, i) /\ i <= n
  BY <1>3, <1>8 DEF FoundDynamic
<1>12. i = n /\ n \in Nat
  <2>1. PICK m \in Nat : m = Len(c.sections)
    BY <1>7
  <2>2. n \in 1 .. m + 1 /\ i \in 1 .. m /\ i <= n
    BY <1>7, <1>9, <1>11, <2>1, Zenon
  <2>3. i \notin 1 .. n - 1
    BY <1>9, <1>11, Zenon
  <2>. QED
    BY <2>2, <2>3
<1>13. ASSUME NEW j \in 1 .. i
       PROVE  ~ThrowsAt(c, j, TRUE)
  <2>1. j \in 1 .. n - 1 \/ j = n
    BY <1>12
  <2>. QED
    BY <1>9, <1>10, <1>11, <1>12, <2>1, Zenon
<1>14. c.sections[i].type = "DYNAMIC" /\ \A j \in 1 .. i : c.sections[j].type # "unreadable"
  BY <1>11, <1>13 DEF Dynamic, ThrowsAt
<1>. QED
  BY <1>6, <1>14 DEF IsLib

-----------------------------------------------------------------------------
(* The invariant.                                                          *)

LEMMA EntriesAre ==
  ASSUME NEW a \in Archive
  PROVE  /\ Len(Entries[a]) \in Nat /\ DOMAIN Entries[a] = 1 .. Len(Entries[a])
         /\ \A i \in DOMAIN Entries[a] : IsEntry(Entries[a][i])
         /\ \A type \in {"link", "file", ".PKGINFO", "damaged"} :
              EntriesOf(a, type) = {e \in Range(Entries[a]) : e.type = type}
BY EntriesAssumption DEF EntriesOf, ByType

\* The invariant, archive by archive.
Stage == {"absent", "links", "follow", "files", "merge", "ignored", "merged"}
TaskType(a) ==
  /\ pc[a] \in Stage
  /\ pos[a] \in 1 .. Len(Entries[a]) + 1
  /\ DOMAIN links[a] \subseteq Path /\ Range(links[a]) \subseteq Path
  /\ needed[a] \subseteq Path
  /\ cursor[a] \in {NoTask} \cup (Path \X Path)
  /\ DOMAIN byFile[a] \subseteq Path /\ UNION Range(byFile[a]) \subseteq Path
  /\ DOMAIN found[a] \subseteq Path \X BOOLEAN
  /\ complete[a] \in BOOLEAN
ReadOf(a) ==
  /\ \A i \in DOMAIN Entries[a] :
       /\ pc[a] \in {"follow", "files", "merge", "merged"} \/ (pc[a] = "links" /\ i < pos[a]) => LinkRead(Entries[a][i])
       /\ pc[a] \in {"merge", "merged"} \/ (pc[a] = "files" /\ i < pos[a]) => FileRead(Entries[a][i])
  /\ complete[a] => \E e \in EntriesOf(a, ".PKGINFO") : e.complete
  /\ pc[a] \in {"merge", "merged"} => complete[a]
FoundOf(a) == \A k \in DOMAIN found[a] : found[a][k][1] = a /\ LeadsToLib(found[a][k], k[2])
Tables ==
  /\ pc = [a \in Archive |-> pc[a]] /\ DOMAIN pos = Archive /\ DOMAIN links = Archive /\ DOMAIN needed = Archive
  /\ DOMAIN cursor = Archive /\ DOMAIN byFile = Archive /\ DOMAIN found = Archive /\ DOMAIN complete = Archive

GlobalInv == Tables /\ pc \in [Archive -> Stage] /\ DOMAIN libs \subseteq Path \X BOOLEAN /\ LibsInv
TaskInv == \A a \in Archive : TaskType(a) /\ ReadOf(a) /\ FoundOf(a)

LEMMA InvParts == IInv <=> GlobalInv /\ TaskInv
<1>1. ASSUME IInv PROVE GlobalInv /\ TaskInv
  BY <1>1 DEF IInv, TypeOK, GlobalInv, TaskInv, Tables, Stage, TaskType, ReadInv, ReadOf, FoundInv, FoundOf
<1>2. ASSUME GlobalInv, TaskInv PROVE IInv
  <2>1. TypeOK
    BY <1>2 DEF GlobalInv, TaskInv, TypeOK, Tables, Stage, TaskType
  <2>. QED
    BY <1>2, <2>1 DEF GlobalInv, TaskInv, IInv, ReadInv, ReadOf, FoundInv, FoundOf
<1>. QED
  BY <1>1, <1>2

\* A task changes its own part of every variable but libs.
Own(a) ==
  /\ Tables'
  /\ \A b \in Archive \ {a} :
       /\ pc'[b] = pc[b] /\ pos'[b] = pos[b] /\ links'[b] = links[b] /\ needed'[b] = needed[b]
       /\ cursor'[b] = cursor[b] /\ byFile'[b] = byFile[b] /\ found'[b] = found[b] /\ complete'[b] = complete[b]

LEMMA StepsAreOwn ==
  ASSUME Tables, NEW a \in Archive, Step(a)
  PROVE  Own(a)
<1>. USE DEF Own, Tables, passVars, Goto, Advance
<1>1. CASE ScanLink(a)
  BY <1>1 DEF ScanLink
<1>2. CASE EndOfLinks(a)
  BY <1>2 DEF EndOfLinks
<1>3. CASE \E p \in Path : FollowNext(a, p)
  BY <1>3 DEF FollowNext
<1>4. CASE Follow(a)
  BY <1>4 DEF Follow
<1>5. CASE FollowEnd(a)
  BY <1>5 DEF FollowEnd
<1>6. CASE EndOfFollow(a)
  BY <1>6 DEF EndOfFollow
<1>7. CASE ScanFile(a)
  BY <1>7 DEF ScanFile
<1>8. CASE EndOfFiles(a)
  BY <1>8 DEF EndOfFiles
<1>9. CASE Merge(a)
  BY <1>9 DEF Merge
<1>. QED
  BY <1>1, <1>2, <1>3, <1>4, <1>5, <1>6, <1>7, <1>8, <1>9 DEF Step

LEMMA OwnKeeps ==
  ASSUME IInv, NEW a \in Archive, Own(a), TaskType(a)', ReadOf(a)', FoundOf(a)',
         DOMAIN libs' \subseteq Path \X BOOLEAN, LibsInv'
  PROVE  IInv'
<1>1. Tables /\ \A b \in Archive : TaskType(b) /\ ReadOf(b) /\ FoundOf(b)
  BY InvParts DEF GlobalInv, TaskInv
<1>2. ASSUME NEW b \in Archive, b # a
      PROVE  TaskType(b)' /\ ReadOf(b)' /\ FoundOf(b)'
  <2>1. /\ pc'[b] = pc[b] /\ pos'[b] = pos[b] /\ links'[b] = links[b] /\ needed'[b] = needed[b]
        /\ cursor'[b] = cursor[b] /\ byFile'[b] = byFile[b] /\ found'[b] = found[b] /\ complete'[b] = complete[b]
    BY <1>2 DEF Own
  <2>2. TaskType(b)'
    BY <1>1, <2>1 DEF TaskType
  <2>3. ReadOf(b)'
    BY <1>1, <2>1 DEF ReadOf
  <2>4. FoundOf(b)'
    BY <1>1, <2>1 DEF FoundOf, LeadsToLib
  <2>. QED
    BY <2>2, <2>3, <2>4
<1>3. TaskInv'
  BY <1>2 DEF TaskInv
<1>4. Tables' /\ pc' \in [Archive -> Stage]
  <2>1. Tables' /\ pc' = [b \in Archive |-> pc'[b]]
    BY DEF Own, Tables
  <2>2. \A b \in Archive : pc'[b] \in Stage
    BY <1>3 DEF TaskInv, TaskType
  <2>. QED
    BY <2>1, <2>2
<1>5. GlobalInv'
  BY <1>4 DEF GlobalInv
<1>. QED
  BY <1>3, <1>5, InvParts, PTL

\* libs only changes when an archive is merged, and no task goes on from there.
LEMMA LibsStay ==
  ASSUME IInv, NEW a \in Archive, Own(a), pc[a] # "merged", libs' = libs
  PROVE  DOMAIN libs' \subseteq Path \X BOOLEAN /\ LibsInv'
<1>1. DOMAIN libs \subseteq Path \X BOOLEAN /\ LibsInv
  BY InvParts DEF GlobalInv
<1>2. ASSUME NEW k \in DOMAIN libs' \ DOMAIN SystemLibs
      PROVE  libs'[k][1] \in Archive /\ pc'[libs'[k][1]] = "merged" /\ LeadsToLib(libs'[k], k[2])
  <2>1. libs[k][1] \in Archive /\ pc[libs[k][1]] = "merged" /\ LeadsToLib(libs[k], k[2])
    BY <1>1, <1>2 DEF LibsInv
  <2>. QED
    BY <2>1 DEF Own
<1>. QED
  BY <1>1, <1>2 DEF LibsInv

LEMMA StepKeeps ==
  ASSUME IInv, NEW a \in Archive, Step(a)
  PROVE  IInv'
<1>. USE DEF passVars
<1>1. Tables /\ TaskType(a) /\ ReadOf(a) /\ FoundOf(a) /\ LibsInv /\ DOMAIN libs \subseteq Path \X BOOLEAN
  BY InvParts DEF GlobalInv, TaskInv
<1>2. Own(a)
  BY <1>1, StepsAreOwn
<1>3. ASSUME TaskType(a)', ReadOf(a)', FoundOf(a)', pc[a] # "merged", libs' = libs
      PROVE  IInv'
  BY <1>2, <1>3, OwnKeeps, LibsStay
<1>4. /\ Len(Entries[a]) \in Nat /\ DOMAIN Entries[a] = 1 .. Len(Entries[a])
      /\ \A i \in DOMAIN Entries[a] : IsEntry(Entries[a][i])
      /\ \A type \in {"link", "file", ".PKGINFO", "damaged"} :
           EntriesOf(a, type) = {e \in Range(Entries[a]) : e.type = type}
  BY EntriesAre
<1>5. found' = found => FoundOf(a)'
  BY <1>1 DEF FoundOf, LeadsToLib
<1>6. ASSUME NEW at, Goto(a, at)
      PROVE  pc'[a] = at
  BY <1>1, <1>6 DEF Goto, Tables
<1>7. Advance(a) => pos'[a] = pos[a] + 1
  BY <1>1 DEF Advance, Tables
<1>8. CASE ScanLink(a)
  <2>. DEFINE e == ThisEntry(a)
  <2>1. /\ pc[a] = "links" /\ pos[a] \in DOMAIN Entries[a] /\ UNCHANGED <<cursor, byFile, found, complete, libs>>
        /\ e = Entries[a][pos[a]]
    BY <1>8 DEF ScanLink, Reading, ThisEntry
  <2>2. IsEntry(e)
    BY <1>4, <2>1
  <2>3. CASE e.type = "damaged" \/ (e.type = "link" /\ e.value = Outside)
    <3>1. pc'[a] = "ignored" /\ UNCHANGED <<pos, links, needed>>
      BY <1>6, <1>8, <2>3 DEF ScanLink
    <3>2. TaskType(a)'
      BY <1>1, <2>1, <3>1 DEF TaskType, Stage
    <3>3. ReadOf(a)'
      BY <1>1, <2>1, <3>1 DEF ReadOf
    <3>. QED
      BY <1>3, <1>5, <2>1, <3>2, <3>3
  <2>4. CASE ~(e.type = "damaged" \/ (e.type = "link" /\ e.value = Outside))
    <3>1. pos'[a] = pos[a] + 1 /\ pc' = pc
      BY <1>7, <1>8, <2>4 DEF ScanLink
    <3>2. /\ needed'[a] \subseteq Path /\ DOMAIN links'[a] \subseteq Path /\ Range(links'[a]) \subseteq Path
      <4>1. CASE e.type = "link" /\ e.value # NoPath
        <5>1. /\ needed' = [needed EXCEPT ![a] = IF IsMissing(e.path) THEN @ \cup {e.path} ELSE @]
              /\ links' = [links EXCEPT ![a] = Insert(@, e.path, e.value)]
          BY <1>8, <2>4, <4>1 DEF ScanLink
        <5>2. e.path \in Path /\ e.value \in Path
          BY <2>2, <2>4, <4>1 DEF IsEntry
        <5>. HIDE DEF e
        <5>3. needed'[a] \subseteq Path /\ links'[a] = Insert(links[a], e.path, e.value)
          BY <1>1, <5>1, <5>2 DEF TaskType, Tables
        <5>4. /\ DOMAIN links'[a] = DOMAIN links[a] \cup {e.path}
              /\ \A p \in DOMAIN links'[a] : links'[a][p] \in Range(links[a]) \cup {e.value}
          BY <5>3 DEF Insert, Range
        <5>5. Range(links'[a]) \subseteq Range(links[a]) \cup {e.value}
          BY <5>4 DEF Range
        <5>. QED
          BY <1>1, <5>2, <5>3, <5>4, <5>5 DEF TaskType
      <4>2. CASE ~(e.type = "link" /\ e.value # NoPath)
        <5>1. UNCHANGED <<needed, links>>
          BY <1>8, <2>4, <4>2 DEF ScanLink
        <5>. QED
          BY <1>1, <5>1 DEF TaskType
      <4>. QED
        BY <4>1, <4>2
    <3>3. TaskType(a)'
      BY <1>1, <1>4, <2>1, <3>1, <3>2 DEF TaskType
    <3>4. ReadOf(a)'
      <4>1. LinkRead(e)
        BY <2>4 DEF LinkRead
      <4>2. ASSUME NEW i \in DOMAIN Entries[a], i < pos'[a]
            PROVE  LinkRead(Entries[a][i])
        <5>1. i < pos[a] \/ i = pos[a]
          BY <1>1, <1>4, <3>1, <4>2 DEF TaskType
        <5>. QED
          BY <1>1, <2>1, <4>1, <5>1 DEF ReadOf
      <4>. QED
        BY <1>1, <2>1, <3>1, <4>2 DEF ReadOf
    <3>. QED
      BY <1>3, <1>5, <2>1, <3>3, <3>4
  <2>. QED
    BY <2>3, <2>4
<1>9. CASE EndOfLinks(a)
  <2>1. /\ pc[a] = "links" /\ pos[a] \notin DOMAIN Entries[a] /\ pc'[a] = "follow"
        /\ UNCHANGED <<pos, links, needed, cursor, byFile, found, complete, libs>>
    BY <1>6, <1>9 DEF EndOfLinks
  <2>2. \A i \in DOMAIN Entries[a] : i < pos[a]
    BY <1>1, <1>4, <2>1 DEF TaskType
  <2>3. TaskType(a)'
    BY <1>1, <2>1 DEF TaskType, Stage
  <2>4. ReadOf(a)'
    BY <1>1, <2>1, <2>2 DEF ReadOf
  <2>. QED
    BY <1>3, <1>5, <2>1, <2>3, <2>4
\* onSymlinksDone().
<1>10. ASSUME pc[a] = "follow", UNCHANGED <<pc, pos, links, found, complete, libs>>, needed'[a] \subseteq needed[a],
              cursor'[a] \in {NoTask} \cup (Path \X Path),
              DOMAIN byFile'[a] \subseteq Path, UNION Range(byFile'[a]) \subseteq Path
       PROVE  IInv'
  <2>1. TaskType(a)'
    BY <1>1, <1>10 DEF TaskType
  <2>2. ReadOf(a)'
    BY <1>1, <1>10 DEF ReadOf
  <2>. QED
    BY <1>3, <1>5, <1>10, <2>1, <2>2
<1>11. ASSUME NEW p \in Path, FollowNext(a, p)
       PROVE  IInv'
  <2>1. cursor'[a] = <<p, p>> /\ needed'[a] = needed[a] \ {p}
    BY <1>1, <1>11 DEF FollowNext, Tables
  <2>. QED
    BY <1>1, <1>10, <1>11, <2>1 DEF FollowNext, TaskType
<1>12. CASE Follow(a)
  <2>1. cursor[a] \in Path \X Path /\ cursor[a][2] \in DOMAIN links[a]
    BY <1>1, <1>12 DEF Follow, AtEnd, TaskType
  <2>2. cursor'[a] = [cursor[a] EXCEPT ![2] = links[a][@]]
    BY <1>1, <1>12 DEF Follow, Tables
  <2>3. links[a][cursor[a][2]] \in Path
    BY <1>1, <2>1 DEF TaskType, Range
  <2>4. cursor'[a] \in Path \X Path
    BY <2>1, <2>2, <2>3
  <2>. QED
    BY <1>1, <1>10, <1>12, <2>4 DEF Follow, TaskType
<1>13. CASE FollowEnd(a)
  <2>1. cursor[a] \in Path \X Path /\ cursor'[a] = NoTask
    BY <1>1, <1>13 DEF FollowEnd, TaskType, Tables
  <2>. DEFINE file == cursor[a][2]
              link == cursor[a][1]
  <2>2. byFile'[a] = [f \in DOMAIN byFile[a] \cup {file} |->
                        (IF f \in DOMAIN byFile[a] THEN byFile[a][f] ELSE {}) \cup (IF f = file THEN {link} ELSE {})]
    BY <1>1, <1>13 DEF FollowEnd, Tables
  <2>3. file \in Path /\ link \in Path
    BY <2>1
  <2>. HIDE DEF file, link
  <2>4. DOMAIN byFile'[a] \subseteq Path
    BY <1>1, <2>2, <2>3 DEF TaskType
  <2>5. ASSUME NEW f \in DOMAIN byFile'[a]
        PROVE  byFile'[a][f] \subseteq Path
    <3>1. f \in DOMAIN byFile[a] => byFile[a][f] \subseteq Path
      BY <1>1 DEF TaskType, Range
    <3>. QED
      BY <2>2, <2>3, <2>5, <3>1
  <2>6. UNION Range(byFile'[a]) \subseteq Path
    BY <2>5 DEF Range
  <2>. QED
    BY <1>10, <1>13, <2>1, <2>4, <2>6 DEF FollowEnd
<1>14. CASE EndOfFollow(a)
  <2>1. /\ pc[a] = "follow" /\ pc'[a] = "files" /\ pos'[a] = 1 /\ links'[a] = << >>
        /\ UNCHANGED <<needed, cursor, byFile, found, complete, libs>>
    BY <1>1, <1>6, <1>14 DEF EndOfFollow, Tables
  <2>2. DOMAIN links'[a] = {} /\ Range(links'[a]) = {}
    BY <2>1 DEF Range
  <2>3. TaskType(a)'
    BY <1>1, <1>4, <2>1, <2>2 DEF TaskType, Stage
  <2>4. ReadOf(a)'
    BY <1>1, <1>4, <2>1 DEF ReadOf
  <2>. QED
    BY <1>3, <1>5, <2>1, <2>3, <2>4
<1>15. CASE ScanFile(a)
  <2>. DEFINE e == ThisEntry(a)
  <2>1. /\ pc[a] = "files" /\ pos[a] \in DOMAIN Entries[a] /\ UNCHANGED <<links, needed, cursor, byFile, libs>>
        /\ e = Entries[a][pos[a]]
    BY <1>15 DEF ScanFile, Reading, ThisEntry
  <2>2. IsEntry(e) /\ e \in Range(Entries[a])
    BY <1>4, <2>1 DEF Range
  <2>3. CASE Breaks(a, e)
    <3>1. pc'[a] = "ignored" /\ UNCHANGED <<pos, found, complete>>
      BY <1>6, <1>15, <2>3 DEF ScanFile
    <3>2. TaskType(a)'
      BY <1>1, <2>1, <3>1 DEF TaskType, Stage
    <3>3. ReadOf(a)'
      BY <1>1, <2>1, <3>1 DEF ReadOf
    <3>. QED
      BY <1>3, <1>5, <2>1, <3>1, <3>2, <3>3
  <2>4. CASE ~Breaks(a, e)
    <3>1. /\ pos'[a] = pos[a] + 1 /\ pc' = pc
          /\ complete'[a] = (complete[a] \/ (e.type = ".PKGINFO" /\ e.complete))
      BY <1>1, <1>7, <1>15, <2>4 DEF ScanFile, Tables
    <3>2. complete'[a] \in BOOLEAN /\ (complete'[a] => \E d \in EntriesOf(a, ".PKGINFO") : d.complete)
      BY <1>1, <1>4, <2>2, <3>1 DEF TaskType, ReadOf, IsEntry
    <3>3. DOMAIN found'[a] \subseteq Path \X BOOLEAN /\ FoundOf(a)'
      <4>1. CASE ~IsNeeded(a, e)
        <5>1. found' = found
          BY <1>15, <2>4, <4>1 DEF ScanFile
        <5>. QED
          BY <1>1, <1>5, <5>1 DEF TaskType
      <4>2. CASE IsNeeded(a, e)
        <5>. DEFINE f == FromArchive(Fresh(FALSE), e.image)
                    paths == IF f.isLib THEN {e.path} \cup LinksTo(a, e.path) ELSE {}
                    keys == {<<p, f.is32>> : p \in paths}
        <5>1. e.type = "file" /\ e.path \in Path /\ IsImage(e.image)
          BY <2>2, <4>2 DEF IsNeeded, IsEntry
        <5>2. found'[a] = [k \in DOMAIN found[a] \cup keys |-> IF k \in DOMAIN found[a] THEN found[a][k] ELSE <<a, e.path>>]
          BY <1>1, <1>15, <2>4, <4>2 DEF ScanFile, AddLibs, Tables
        <5>3. paths \subseteq Path
          <6>1. LinksTo(a, e.path) \subseteq Path
            <7>1. e.path \in DOMAIN byFile[a] => byFile[a][e.path] \in Range(byFile[a])
              BY DEF Range
            <7>. HIDE DEF e
            <7>. QED
              BY <1>1, <7>1 DEF LinksTo, TaskType
          <6>. QED
            BY <5>1, <6>1
        <5>4. ASSUME NEW k \in keys
              PROVE  k \in Path \X BOOLEAN /\ LeadsToLib(<<a, e.path>>, k[2])
          <6>1. f.isLib
            BY <5>4
          <6>2. IsLib(e) /\ f.is32 = e.image.is32
            BY <5>1, <6>1, TakenForLib
          <6>3. e.image.is32 \in BOOLEAN
            BY <5>1 DEF IsImage
          <6>4. k \in Path \X BOOLEAN /\ k[2] = e.image.is32
            <7>1. PICK p \in paths : k = <<p, f.is32>>
              BY <5>4
            <7>. HIDE DEF e, f, paths, keys
            <7>. QED
              BY <5>3, <6>2, <6>3, <7>1
          <6>5. e \in EntriesOf(a, "file")
            BY <1>4, <2>2, <5>1
          <6>. HIDE DEF e, f, keys
          <6>. QED
            BY <6>2, <6>4, <6>5 DEF LeadsToLib
        <5>. HIDE DEF e, f, paths, keys
        <5>5. DOMAIN found'[a] = DOMAIN found[a] \cup keys
          BY <5>2
        <5>6. ASSUME NEW k \in DOMAIN found'[a]
              PROVE  found'[a][k][1] = a /\ LeadsToLib(found'[a][k], k[2])
          <6>1. CASE k \in DOMAIN found[a]
            <7>1. found'[a][k] = found[a][k]
              BY <5>2, <5>6, <6>1
            <7>. QED
              BY <1>1, <6>1, <7>1 DEF FoundOf
          <6>2. CASE k \notin DOMAIN found[a]
            <7>1. found'[a][k] = <<a, e.path>> /\ k \in keys
              BY <5>2, <5>5, <5>6, <6>2
            <7>. QED
              BY <5>4, <7>1
          <6>. QED
            BY <6>1, <6>2
        <5>7. FoundOf(a)'
          BY <5>6 DEF FoundOf, LeadsToLib
        <5>. QED
          BY <1>1, <5>4, <5>5, <5>7 DEF TaskType
      <4>. QED
        BY <4>1, <4>2
    <3>4. TaskType(a)'
      BY <1>1, <1>4, <2>1, <3>1, <3>2, <3>3 DEF TaskType
    <3>5. ReadOf(a)'
      <4>1. FileRead(e)
        BY <2>4 DEF Breaks, FileRead
      <4>2. ASSUME NEW i \in DOMAIN Entries[a], i < pos'[a]
            PROVE  FileRead(Entries[a][i])
        <5>1. i < pos[a] \/ i = pos[a]
          BY <1>1, <1>4, <3>1, <4>2 DEF TaskType
        <5>. QED
          BY <1>1, <2>1, <4>1, <5>1 DEF ReadOf
      <4>. QED
        BY <1>1, <2>1, <3>1, <3>2, <4>2 DEF ReadOf
    <3>. QED
      BY <1>3, <2>1, <3>3, <3>4, <3>5
  <2>. QED
    BY <2>3, <2>4
<1>16. CASE EndOfFiles(a)
  <2>1. /\ pc[a] = "files" /\ pos[a] \notin DOMAIN Entries[a]
        /\ pc'[a] = (IF complete[a] THEN "merge" ELSE "ignored")
        /\ UNCHANGED <<pos, links, needed, cursor, byFile, found, complete, libs>>
    BY <1>6, <1>16 DEF EndOfFiles
  <2>2. \A i \in DOMAIN Entries[a] : i < pos[a]
    BY <1>1, <1>4, <2>1 DEF TaskType
  <2>3. TaskType(a)'
    BY <1>1, <2>1 DEF TaskType, Stage
  <2>4. ReadOf(a)'
    BY <1>1, <2>1, <2>2 DEF ReadOf
  <2>. QED
    BY <1>3, <1>5, <2>1, <2>3, <2>4
<1>17. CASE Merge(a)
  <2>1. /\ pc[a] = "merge" /\ pc'[a] = "merged" /\ found'[a] = << >> /\ byFile'[a] = << >>
        /\ UNCHANGED <<pos, links, needed, cursor, complete>>
        /\ libs' = [k \in DOMAIN libs \cup DOMAIN found[a] |-> IF k \in DOMAIN libs THEN libs[k] ELSE found[a][k]]
    BY <1>1, <1>6, <1>17 DEF Merge, Tables
  <2>2. DOMAIN found'[a] = {} /\ DOMAIN byFile'[a] = {} /\ UNION Range(byFile'[a]) = {}
    BY <2>1 DEF Range
  <2>3. TaskType(a)'
    BY <1>1, <2>1, <2>2 DEF TaskType, Stage
  <2>4. ReadOf(a)'
    BY <1>1, <2>1 DEF ReadOf
  <2>5. FoundOf(a)'
    BY <2>2 DEF FoundOf
  <2>6. DOMAIN libs' \subseteq Path \X BOOLEAN
    BY <1>1, <2>1 DEF TaskType
  <2>7. LibsInv'
    <3>1. ASSUME NEW k \in DOMAIN libs' \ DOMAIN SystemLibs
          PROVE  libs'[k][1] \in Archive /\ pc'[libs'[k][1]] = "merged" /\ LeadsToLib(libs'[k], k[2])
      <4>1. CASE k \in DOMAIN libs
        <5>1. libs'[k] = libs[k]
          BY <2>1, <3>1, <4>1
        <5>2. libs[k][1] \in Archive /\ pc[libs[k][1]] = "merged" /\ LeadsToLib(libs[k], k[2])
          BY <1>1, <3>1, <4>1 DEF LibsInv
        <5>. QED
          BY <1>2, <2>1, <5>1, <5>2 DEF Own
      <4>2. CASE k \notin DOMAIN libs
        <5>1. k \in DOMAIN found[a] /\ libs'[k] = found[a][k]
          BY <2>1, <3>1, <4>2
        <5>. QED
          BY <1>1, <2>1, <5>1 DEF FoundOf
      <4>. QED
        BY <4>1, <4>2
    <3>. QED
      BY <3>1 DEF LibsInv, LeadsToLib
  <2>. QED
    BY <1>2, <2>3, <2>4, <2>5, <2>6, <2>7, OwnKeeps
<1>. QED
  BY <1>8, <1>9, <1>11, <1>12, <1>13, <1>14, <1>15, <1>16, <1>17 DEF Step

LEMMA InvInit ==
  ASSUME Init, DOMAIN SystemLibs \subseteq Path \X BOOLEAN
  PROVE  IInv
<1>1. Tables /\ pc \in [Archive -> Stage] /\ libs = SystemLibs
  BY DEF Init, Tables, Stage
<1>2. ASSUME NEW a \in Archive
      PROVE  TaskType(a) /\ ReadOf(a) /\ FoundOf(a)
  <2>1. /\ pc[a] \in {"absent", "links"} /\ pos[a] = 1 /\ needed[a] = {} /\ cursor[a] = NoTask /\ complete[a] = FALSE
        /\ DOMAIN links[a] = {} /\ DOMAIN byFile[a] = {} /\ DOMAIN found[a] = {}
    BY DEF Init
  <2>2. Len(Entries[a]) \in Nat /\ DOMAIN Entries[a] = 1 .. Len(Entries[a])
    BY EntriesAre
  <2>3. TaskType(a)
    <3>1. Range(links[a]) = {} /\ Range(byFile[a]) = {} /\ UNION Range(byFile[a]) = {}
      BY <2>1 DEF Range
    <3>2. pos[a] \in 1 .. Len(Entries[a]) + 1
      BY <2>1, <2>2
    <3>3. pc[a] \in Stage /\ cursor[a] \in {NoTask} \cup (Path \X Path) /\ complete[a] \in BOOLEAN
      BY <2>1 DEF Stage
    <3>4. /\ DOMAIN links[a] \subseteq Path /\ Range(links[a]) \subseteq Path /\ needed[a] \subseteq Path
          /\ DOMAIN byFile[a] \subseteq Path /\ UNION Range(byFile[a]) \subseteq Path
          /\ DOMAIN found[a] \subseteq Path \X BOOLEAN
      BY <2>1, <3>1
    <3>. QED
      BY <3>2, <3>3, <3>4 DEF TaskType
  <2>4. ReadOf(a) /\ FoundOf(a)
    BY <2>1, <2>2 DEF ReadOf, FoundOf
  <2>. QED
    BY <2>3, <2>4
<1>. QED
  BY <1>1, <1>2, InvParts DEF GlobalInv, TaskInv, LibsInv

LEMMA Invariance == Spec => []IInv
<1>1. Init => IInv
  BY InvInit, EntriesAssumption
<1>2. IInv /\ [Next]_vars => IInv'
  <2>. SUFFICES ASSUME IInv, [Next]_vars PROVE IInv'
    OBVIOUS
  <2>1. CASE UNCHANGED vars
    BY <2>1 DEF IInv, TypeOK, ReadInv, FoundInv, LibsInv, LeadsToLib, vars, passVars
  <2>2. CASE Next
    BY <2>1, <2>2, StepKeeps DEF Next, Finished
  <2>. QED
    BY <2>1, <2>2
<1>. QED
  BY <1>1, <1>2, PTL DEF Spec

\* The type invariant.
THEOREM TypeCorrect == Spec => []TypeOK
<1>1. IInv => TypeOK
  BY DEF IInv
<1>. QED
  BY Invariance, <1>1, PTL

\* Whatever archives hold and in whichever order they are merged: what data.libs
\* gains is a library of that bitness in an archive that was read without an
\* error to its end, in both passes, and whose package has a name and a version.
THEOREM NothingFromDamaged == Spec => []FromUndamaged
<1>1. IInv => FromUndamaged
  <2>. SUFFICES ASSUME IInv, NEW k \in DOMAIN libs \ DOMAIN SystemLibs
                PROVE  /\ libs[k][1] \in Archive /\ pc[libs[k][1]] = "merged"
                       /\ Undamaged(libs[k][1]) /\ LeadsToLib(libs[k], k[2])
    BY DEF FromUndamaged
  <2>1. PICK a \in Archive : a = libs[k][1]
    BY DEF IInv, LibsInv
  <2>2. pc[a] = "merged" /\ LeadsToLib(libs[k], k[2])
    BY <2>1 DEF IInv, LibsInv
  <2>3. ReadOf(a)
    BY InvParts DEF TaskInv
  <2>4. /\ \A e \in Range(Entries[a]) : LinkRead(e) /\ FileRead(e)
        /\ \E e \in EntriesOf(a, ".PKGINFO") : e.complete
    BY <2>2, <2>3 DEF ReadOf, Range
  <2>5. \A type \in {"link", "file", ".PKGINFO", "damaged"} :
          EntriesOf(a, type) = {e \in Range(Entries[a]) : e.type = type}
    BY EntriesAre
  <2>6. Undamaged(a)
    BY <2>4, <2>5 DEF Undamaged, LinkRead, FileRead
  <2>. QED
    BY <2>1, <2>2, <2>6
<1>. QED
  BY Invariance, <1>1, PTL

\* A library that is known stays what it is, in any archives and any order.
THEOREM LibsNeverChange == Spec => FirstStays
<1>1. [Next]_vars => [\A k \in DOMAIN libs : k \in DOMAIN libs' /\ libs'[k] = libs[k]]_libs
  <2>. SUFFICES ASSUME [Next]_vars, libs' # libs
                PROVE  \A k \in DOMAIN libs : k \in DOMAIN libs' /\ libs'[k] = libs[k]
    OBVIOUS
  <2>1. PICK a \in Archive : Merge(a)
    BY DEF Next, Finished, Step, vars, ScanLink, EndOfLinks, FollowNext, Follow, FollowEnd, EndOfFollow, ScanFile, EndOfFiles
  <2>. QED
    BY <2>1 DEF Merge
<1>. QED
  BY <1>1, PTL DEF Spec, FirstStays

-----------------------------------------------------------------------------
(* What leads to a file.                                                   *)

LEMMA LibIsTaken ==
  ASSUME NEW e, IsImage(e.image), IsLib(e)
  PROVE  FromArchive(Fresh(FALSE), e.image).isLib
<1>. DEFINE c == e.image
            f == Headed(Fresh(FALSE), c)
<1>1. c.sections \in Seq(Range(c.sections)) /\ Len(c.sections) \in Nat /\ DOMAIN c.sections = 1 .. Len(c.sections)
  BY DEF IsImage
<1>2. PICK n : n = LoopEnd(c, TRUE)
  OBVIOUS
<1>3. /\ n \in 1 .. Len(c.sections) + 1
      /\ n \in DOMAIN c.sections => ThrowsAt(c, n, TRUE) \/ Dynamic(c, n)
      /\ \A i \in 1 .. n - 1 : ~ThrowsAt(c, i, TRUE) /\ ~Dynamic(c, i)
  BY <1>1, <1>2, LoopEnds
<1>4. PICK i \in DOMAIN c.sections : Dynamic(c, i) /\ \A j \in 1 .. i : c.sections[j].type # "unreadable"
  BY DEF IsLib, Dynamic
<1>5. n \in DOMAIN c.sections /\ n \in 1 .. i
  <2>1. PICK m \in Nat : m = Len(c.sections)
    BY <1>1
  <2>2. n \in 1 .. m + 1 /\ i \in 1 .. m
    BY <1>1, <1>3, <1>4, <2>1, Zenon
  <2>3. i \notin 1 .. n - 1
    BY <1>3, <1>4, Zenon
  <2>4. n \in 1 .. m /\ n \in 1 .. i
    BY <2>2, <2>3
  <2>. QED
    BY <1>1, <2>1, <2>4, Zenon
<1>6. ~ThrowsAt(c, n, TRUE)
  <2>1. c.sections[n].type # "unreadable"
    BY <1>4, <1>5
  <2>. QED
    BY <1>3, <2>1 DEF ThrowsAt
<1>7. ~Throws(c, TRUE) /\ FoundDynamic(c, TRUE)
  <2>1. Dynamic(c, n)
    BY <1>3, <1>5, <1>6, Zenon
  <2>2. n <= n
    BY <1>5
  <2>. QED
    BY <1>2, <1>5, <1>6, <2>1, <2>2 DEF Throws, FoundDynamic
<1>8. c.header = "ET_DYN" /\ HasSections(c)
  BY DEF IsLib, HasSections
<1>9. FromArchive(Fresh(FALSE), c) = [f EXCEPT !.isLib = (c.header = "ET_DYN"), !.isDynamicELF = TRUE]
  BY <1>7, <1>8 DEF FromArchive, Flagged
<1>. QED
  BY <1>8, <1>9 DEF Headed, Fresh

\* LeadingTo() is the least of the sets that have the path and, with a link's
\* value, the link.
LEMMA LeadingIs ==
  ASSUME NEW a \in Archive, NEW g \in Path
  PROVE  /\ LeadingTo(a, g) \subseteq Path /\ g \in LeadingTo(a, g) /\ WithLinks(a, LeadingTo(a, g))
         /\ \A paths \in SUBSET Path : g \in paths /\ WithLinks(a, paths) => LeadingTo(a, g) \subseteq paths
<1>1. LeadingTo(a, g) = {q \in Path : \A paths \in SUBSET Path : g \in paths /\ WithLinks(a, paths) => q \in paths}
  BY DEF LeadingTo, Leading
<1>2. ASSUME NEW e \in EntriesOf(a, "link"), e.value \in LeadingTo(a, g)
      PROVE  e.path \in LeadingTo(a, g)
  <2>1. e.path \in Path
    BY EntriesAre DEF Range, IsEntry
  <2>2. ASSUME NEW paths \in SUBSET Path, g \in paths, WithLinks(a, paths)
        PROVE  e.path \in paths
    BY <1>1, <1>2, <2>2 DEF WithLinks
  <2>. QED
    BY <1>1, <2>1, <2>2
<1>. QED
  BY <1>1, <1>2 DEF WithLinks

\* Two paths of one kind of a package: the link's and the one of its value.
LEMMA LinkLeads ==
  ASSUME EachPathOnce, NEW a \in Archive, NEW e \in EntriesOf(a, "link"), e.value # NoPath
  PROVE  SameEnd(a, e.path, e.value)
<1>. SUFFICES ASSUME NEW g \in Path \ LinkPaths(a)
              PROVE  e.path \in LeadingTo(a, g) <=> e.value \in LeadingTo(a, g)
  BY DEF SameEnd
<1>1. /\ LeadingTo(a, g) \subseteq Path /\ g \in LeadingTo(a, g) /\ WithLinks(a, LeadingTo(a, g))
      /\ \A paths \in SUBSET Path : g \in paths /\ WithLinks(a, paths) => LeadingTo(a, g) \subseteq paths
  BY LeadingIs
<1>2. e.path # g
  BY DEF LinkPaths
<1>3. ASSUME e.value \notin LeadingTo(a, g)
      PROVE  e.path \notin LeadingTo(a, g)
  <2>. DEFINE paths == LeadingTo(a, g) \ {e.path}
  <2>1. ASSUME NEW d \in EntriesOf(a, "link"), d.value \in paths
        PROVE  d.path \in paths
    <3>1. d.path \in LeadingTo(a, g)
      BY <1>1, <2>1 DEF WithLinks
    <3>2. d.path # e.path
      BY <1>3, <2>1 DEF EachPathOnce
    <3>. QED
      BY <3>1, <3>2
  <2>2. WithLinks(a, paths)
    BY <2>1 DEF WithLinks
  <2>3. paths \in SUBSET Path /\ g \in paths
    BY <1>1, <1>2
  <2>4. LeadingTo(a, g) \subseteq paths
    BY <1>1, <2>2, <2>3
  <2>. QED
    BY <2>4
<1>4. e.value \in LeadingTo(a, g) => e.path \in LeadingTo(a, g)
  BY <1>1 DEF WithLinks
<1>. QED
  BY <1>3, <1>4

\* What is no link leads to itself only.
LEMMA NoLinkLeads ==
  ASSUME NEW a \in Archive, NEW g \in Path, NEW p \in LeadingTo(a, g), p \notin LinkPaths(a)
  PROVE  p = g
<1>. SUFFICES ASSUME p # g PROVE FALSE
  OBVIOUS
<1>. DEFINE paths == LeadingTo(a, g) \ {p}
<1>1. /\ LeadingTo(a, g) \subseteq Path /\ g \in LeadingTo(a, g) /\ WithLinks(a, LeadingTo(a, g))
      /\ \A S \in SUBSET Path : g \in S /\ WithLinks(a, S) => LeadingTo(a, g) \subseteq S
  BY LeadingIs
<1>2. ASSUME NEW d \in EntriesOf(a, "link"), d.value \in paths
      PROVE  d.path \in paths
  <2>1. d.path \in LeadingTo(a, g)
    BY <1>1, <1>2 DEF WithLinks
  <2>2. d.value # NoPath
    BY <1>1, <1>2, EntriesAssumption
  <2>3. d.path # p
    BY <2>2 DEF LinkPaths
  <2>. QED
    BY <2>1, <2>3
<1>3. WithLinks(a, paths)
  BY <1>2 DEF WithLinks
<1>4. paths \in SUBSET Path /\ g \in paths
  BY <1>1
<1>. QED
  BY <1>1, <1>3, <1>4

LEMMA FilesAreNoLinks ==
  ASSUME EachPathOnce, NEW a \in Archive, NEW e \in EntriesOf(a, "file")
  PROVE  e.path \in Path \ LinkPaths(a)
<1>1. e.path \in Path
  BY EntriesAre DEF Range, IsEntry
<1>2. e.path \notin LinkPaths(a)
  BY DEF EachPathOnce, LinkPaths
<1>. QED
  BY <1>1, <1>2

-----------------------------------------------------------------------------
(* The links are followed to files.                                        *)

\* A missing link is in byFile under the file that it leads to, and nowhere else.
LEMMA MissingLinkAt ==
  ASSUME EachPathOnce, NEW a \in Archive, FollowOf(a), pc[a] \in {"files", "merge"},
         DOMAIN byFile[a] \subseteq Path, NEW g \in Path \ LinkPaths(a), NEW p \in LeadingTo(a, g), IsMissing(p)
  PROVE  p = g \/ p \in LinksTo(a, g)
<1>1. CASE p \notin LinkPaths(a)
  BY <1>1, NoLinkLeads
<1>2. CASE p \in LinkPaths(a)
  <2>1. PICK f \in DOMAIN byFile[a] : p \in byFile[a][f]
    BY <1>2 DEF FollowOf, MissingLinks, AtFile
  <2>2. f \in Path /\ f \notin LinkPaths(a) /\ SameEnd(a, p, f)
    BY <2>1 DEF FollowOf
  <2>3. f \in LeadingTo(a, g)
    BY <2>2 DEF SameEnd
  <2>4. f = g
    BY <2>2, <2>3, NoLinkLeads
  <2>. QED
    BY <2>1, <2>4 DEF LinksTo
<1>. QED
  BY <1>1, <1>2

LEMMA LinksLead ==
  ASSUME NEW a \in Archive, FollowOf(a), NEW g \in Path \ LinkPaths(a), NEW p \in LinksTo(a, g)
  PROVE  p \in LeadingTo(a, g) /\ IsMissing(p)
<1>1. g \in DOMAIN byFile[a] /\ p \in byFile[a][g]
  BY DEF LinksTo
<1>2. SameEnd(a, p, g) /\ IsMissing(p)
  BY <1>1 DEF FollowOf
<1>3. g \in LeadingTo(a, g)
  BY LeadingIs
<1>. QED
  BY <1>2, <1>3 DEF SameEnd

\* onFileIsNeeded() is right about a file: some path that leads to it is missing.
LEMMA NeededIsMissing ==
  ASSUME EachPathOnce, NEW a \in Archive, FollowOf(a), pc[a] \in {"files", "merge"},
         DOMAIN byFile[a] \subseteq Path, NEW e \in EntriesOf(a, "file")
  PROVE  IsNeeded(a, e) <=> MissingAt(a, e) # {}
<1>1. e.path \in Path \ LinkPaths(a) /\ e.type = "file"
  <2>1. e.type = "file"
    BY EntriesAre
  <2>. QED
    BY <2>1, FilesAreNoLinks
<1>2. ASSUME NEW p \in MissingAt(a, e)
      PROVE  IsNeeded(a, e)
  <2>1. p = e.path \/ p \in LinksTo(a, e.path)
    BY <1>1, <1>2, MissingLinkAt DEF MissingAt
  <2>2. IsMissing(p)
    BY <1>2 DEF MissingAt
  <2>3. p \in LinksTo(a, e.path) => e.path \in DOMAIN byFile[a]
    BY DEF LinksTo
  <2>. QED
    BY <1>1, <2>1, <2>2, <2>3 DEF IsNeeded
<1>3. ASSUME IsNeeded(a, e)
      PROVE  MissingAt(a, e) # {}
  <2>1. CASE IsMissing(e.path)
    <3>1. e.path \in LeadingTo(a, e.path)
      BY <1>1, LeadingIs
    <3>. QED
      BY <2>1, <3>1 DEF MissingAt
  <2>2. CASE e.path \in DOMAIN byFile[a]
    <3>1. byFile[a][e.path] # {}
      BY <2>2 DEF FollowOf
    <3>2. PICK p : p \in byFile[a][e.path]
      BY <3>1
    <3>3. p \in LinksTo(a, e.path)
      BY <2>2, <3>2 DEF LinksTo
    <3>4. p \in LeadingTo(a, e.path) /\ IsMissing(p)
      BY <1>1, <3>3, LinksLead
    <3>. QED
      BY <3>4 DEF MissingAt
  <2>. QED
    BY <1>3, <2>1, <2>2 DEF IsNeeded
<1>. QED
  BY <1>2, <1>3

-----------------------------------------------------------------------------
(* The steps of a task.                                                    *)

\* What holds of another task does not change.
LEMMA OthersExact ==
  ASSUME NEW a \in Archive, NEW b \in Archive, b # a, Own(a), DOMAIN libs \subseteq DOMAIN libs', ExactOf(b)
  PROVE  ExactOf(b)'
<1>1. /\ pc'[b] = pc[b] /\ pos'[b] = pos[b] /\ links'[b] = links[b] /\ needed'[b] = needed[b]
      /\ cursor'[b] = cursor[b] /\ byFile'[b] = byFile[b] /\ found'[b] = found[b] /\ complete'[b] = complete[b]
  BY DEF Own
<1>2. LinksOf(b)'
  BY <1>1 DEF ExactOf, LinksOf
<1>3. FollowOf(b)'
  BY <1>1 DEF ExactOf, FollowOf, AtFile
<1>4. FilesOf(b)'
  <2>1. FilesOf(b)
    BY DEF ExactOf
  <2>2. ASSUME NEW i \in DOMAIN Entries[b], pc'[b] = "merge" \/ (pc'[b] = "files" /\ i < pos'[b]), NEW e, e = Entries[b][i]
        PROVE  /\ e.type = "file" => (e.intact \/ MissingAt(b, e) = {}) /\ KeysOf(b, e) \subseteq DOMAIN found'[b]
               /\ e.type = ".PKGINFO" /\ e.complete => complete'[b]
    BY <1>1, <2>1, <2>2 DEF FilesOf
  <2>3. \A k \in DOMAIN found'[b] : Gains(b, k[1], found'[b][k][2])
    BY <1>1, <2>1 DEF FilesOf
  <2>. QED
    BY <2>2, <2>3 DEF FilesOf
<1>5. EndOf(b)'
  <2>1. EndOf(b)
    BY DEF ExactOf
  <2>2. pc'[b] = "ignored" => ~Readable(b)
    BY <1>1, <2>1 DEF EndOf
  <2>3. pc'[b] = "merged" => Readable(b) /\ \A e \in EntriesOf(b, "file") : KeysOf(b, e) \subseteq DOMAIN libs'
    BY <1>1, <2>1 DEF EndOf
  <2>. QED
    BY <2>2, <2>3 DEF EndOf
<1>. QED
  BY <1>2, <1>3, <1>4, <1>5 DEF ExactOf

\* What a step takes from the invariants.
LEMMA TaskFacts ==
  ASSUME IInv, NEW a \in Archive
  PROVE  /\ Tables /\ TaskType(a) /\ ReadOf(a) /\ FoundOf(a)
         /\ Len(Entries[a]) \in Nat /\ DOMAIN Entries[a] = 1 .. Len(Entries[a])
         /\ \A i \in DOMAIN Entries[a] : IsEntry(Entries[a][i])
         /\ \A type \in {"link", "file", ".PKGINFO", "damaged"} :
              EntriesOf(a, type) = {e \in Range(Entries[a]) : e.type = type}
         /\ \A i \in DOMAIN Entries[a] : i < pos[a] + 1 => i < pos[a] \/ i = pos[a]
         /\ pos[a] \notin DOMAIN Entries[a] => \A i \in DOMAIN Entries[a] : i < pos[a]
<1>1. Tables /\ TaskType(a) /\ ReadOf(a) /\ FoundOf(a)
  BY InvParts DEF GlobalInv, TaskInv
<1>2. /\ Len(Entries[a]) \in Nat /\ DOMAIN Entries[a] = 1 .. Len(Entries[a])
      /\ \A i \in DOMAIN Entries[a] : IsEntry(Entries[a][i])
      /\ \A type \in {"link", "file", ".PKGINFO", "damaged"} :
           EntriesOf(a, type) = {e \in Range(Entries[a]) : e.type = type}
  BY EntriesAre
<1>3. pos[a] \in 1 .. Len(Entries[a]) + 1
  BY <1>1 DEF TaskType
<1>4. PICK n \in Nat : n = Len(Entries[a]) /\ DOMAIN Entries[a] = 1 .. n
  BY <1>2
<1>5. \A i \in DOMAIN Entries[a] : i < pos[a] + 1 => i < pos[a] \/ i = pos[a]
  BY <1>3, <1>4
<1>6. pos[a] \notin DOMAIN Entries[a] => \A i \in DOMAIN Entries[a] : i < pos[a]
  BY <1>3, <1>4
<1>. QED
  BY <1>1, <1>2, <1>5, <1>6

\* A path is one of a link with a value if and only if some entry says so.
LEMMA LinkPathsAre ==
  ASSUME NEW a \in Archive
  PROVE  /\ \A i \in DOMAIN Entries[a] : HasValue(Entries[a][i]) => Entries[a][i].path \in LinkPaths(a)
         /\ \A p \in LinkPaths(a) : \E i \in DOMAIN Entries[a] : HasValue(Entries[a][i]) /\ p = Entries[a][i].path
BY EntriesAre DEF LinkPaths, HasValue, Range

LEMMA ScanLinkExact ==
  ASSUME EachPathOnce, IInv, NEW a \in Archive, ExactOf(a), ScanLink(a)
  PROVE  ExactOf(a)'
<1>. DEFINE e == ThisEntry(a)
<1>1. /\ Tables /\ TaskType(a)
      /\ \A i \in DOMAIN Entries[a] : IsEntry(Entries[a][i])
      /\ \A type \in {"link", "file", ".PKGINFO", "damaged"} :
           EntriesOf(a, type) = {d \in Range(Entries[a]) : d.type = type}
      /\ \A i \in DOMAIN Entries[a] : i < pos[a] + 1 => i < pos[a] \/ i = pos[a]
  BY TaskFacts
<1>2. LinksOf(a) /\ FollowOf(a) /\ FilesOf(a) /\ EndOf(a)
  BY DEF ExactOf
<1>3. /\ pc[a] = "links" /\ pos[a] \in DOMAIN Entries[a] /\ UNCHANGED <<cursor, byFile, found, complete, libs>>
      /\ e = Entries[a][pos[a]] /\ e \in Range(Entries[a]) /\ IsEntry(e)
  <2>1. /\ pc[a] = "links" /\ pos[a] \in DOMAIN Entries[a] /\ UNCHANGED <<cursor, byFile, found, complete, libs>>
    BY DEF ScanLink, Reading, passVars
  <2>2. e = Entries[a][pos[a]]
    BY DEF ThisEntry
  <2>. QED
    BY <1>1, <2>1, <2>2 DEF Range
<1>4. CASE e.type = "damaged" \/ (e.type = "link" /\ e.value = Outside)
  <2>1. pc'[a] = "ignored" /\ UNCHANGED <<pos, links, needed>>
    BY <1>1, <1>4 DEF ScanLink, Goto, Tables, passVars
  <2>2. ~Undamaged(a)
    BY <1>1, <1>3, <1>4 DEF Undamaged
  <2>3. LinksOf(a)'
    BY <2>1 DEF LinksOf
  <2>4. FollowOf(a)'
    BY <1>2, <1>3, <2>1 DEF FollowOf, AtFile
  <2>5. FilesOf(a)'
    BY <1>2, <1>3, <2>1 DEF FilesOf
  <2>6. EndOf(a)'
    BY <2>1, <2>2 DEF EndOf, Readable
  <2>. QED
    BY <2>3, <2>4, <2>5, <2>6 DEF ExactOf
<1>5. CASE ~(e.type = "damaged" \/ (e.type = "link" /\ e.value = Outside))
  <2>1. pos'[a] = pos[a] + 1 /\ pc' = pc
    BY <1>1, <1>5 DEF ScanLink, Advance, Tables
  <2>2. FilesOf(a)' /\ EndOf(a)'
    BY <1>2, <1>3, <2>1 DEF FilesOf, EndOf
  <2>3. CASE HasValue(e)
    <3>1. /\ needed'[a] = IF IsMissing(e.path) THEN needed[a] \cup {e.path} ELSE needed[a]
          /\ links'[a] = Insert(links[a], e.path, e.value)
      BY <1>1, <1>5, <2>3 DEF ScanLink, HasValue, Tables
    <3>2. e \in EntriesOf(a, "link") /\ e.value # NoPath /\ e.path \in LinkPaths(a)
      BY <1>1, <1>3, <2>3 DEF HasValue, LinkPaths
    <3>. HIDE DEF e
    <3>3. /\ DOMAIN links'[a] = DOMAIN links[a] \cup {e.path}
          /\ \A p \in DOMAIN links'[a] : links'[a][p] = IF p \in DOMAIN links[a] THEN links[a][p] ELSE e.value
      BY <3>1 DEF Insert
    <3>4. ASSUME NEW p \in DOMAIN links'[a]
          PROVE  \E d \in EntriesOf(a, "link") : d.value # NoPath /\ p = d.path /\ links'[a][p] = d.value
      <4>1. CASE p \in DOMAIN links[a]
        <5>1. links'[a][p] = links[a][p]
          BY <3>3, <3>4, <4>1
        <5>. QED
          BY <1>2, <1>3, <4>1, <5>1 DEF LinksOf
      <4>2. CASE p \notin DOMAIN links[a]
        <5>1. p = e.path /\ links'[a][p] = e.value
          BY <3>3, <3>4, <4>2
        <5>. QED
          BY <3>2, <5>1
      <4>. QED
        BY <4>1, <4>2
    <3>5. ASSUME NEW i \in DOMAIN Entries[a], HasValue(Entries[a][i]), i < pos'[a]
          PROVE  Entries[a][i].path \in DOMAIN links'[a]
      <4>1. i < pos[a] \/ i = pos[a]
        BY <1>1, <2>1, <3>5
      <4>2. i < pos[a] => Entries[a][i].path \in DOMAIN links[a]
        BY <1>2, <1>3, <3>5 DEF LinksOf
      <4>. QED
        BY <1>3, <3>3, <4>1, <4>2
    <3>6. ASSUME NEW i \in DOMAIN Entries[a], HasValue(Entries[a][i]), i < pos'[a], IsMissing(Entries[a][i].path)
          PROVE  Entries[a][i].path \in needed'[a]
      <4>1. i < pos[a] \/ i = pos[a]
        BY <1>1, <2>1, <3>6
      <4>2. i < pos[a] => Entries[a][i].path \in needed[a]
        BY <1>2, <1>3, <3>6 DEF LinksOf
      <4>3. i = pos[a] => IsMissing(e.path) /\ Entries[a][i].path = e.path
        BY <1>3, <3>6
      <4>. QED
        BY <3>1, <4>1, <4>2, <4>3
    <3>7. cursor'[a] = NoTask /\ DOMAIN byFile'[a] = {}
      BY <1>2, <1>3 DEF LinksOf
    <3>8. LinksOf(a)'
      BY <1>3, <2>1, <3>4, <3>5, <3>6, <3>7 DEF LinksOf
    <3>9. needed'[a] \subseteq MissingLinks(a)
      BY <1>2, <3>1, <3>2 DEF FollowOf, MissingLinks
    <3>10. FollowOf(a)'
      BY <1>3, <2>1, <3>7, <3>9 DEF FollowOf
    <3>. QED
      BY <2>2, <3>8, <3>10 DEF ExactOf
  <2>4. CASE ~HasValue(e)
    <3>1. UNCHANGED <<needed, links>>
      BY <1>5, <2>4 DEF ScanLink, HasValue
    <3>2. ASSUME NEW i \in DOMAIN Entries[a], HasValue(Entries[a][i]), i < pos'[a]
          PROVE  i < pos[a]
      BY <1>1, <1>3, <2>1, <2>4, <3>2
    <3>3. LinksOf(a)'
      BY <1>2, <1>3, <2>1, <3>1, <3>2 DEF LinksOf
    <3>4. FollowOf(a)'
      BY <1>2, <1>3, <2>1, <3>1 DEF FollowOf, AtFile
    <3>. QED
      BY <2>2, <3>3, <3>4 DEF ExactOf
  <2>. QED
    BY <2>3, <2>4
<1>. QED
  BY <1>4, <1>5

LEMMA FollowExact ==
  ASSUME EachPathOnce, IInv, NEW a \in Archive, ExactOf(a),
         EndOfLinks(a) \/ (\E p \in Path : FollowNext(a, p)) \/ Follow(a) \/ FollowEnd(a) \/ EndOfFollow(a)
  PROVE  ExactOf(a)'
<1>1. /\ Tables /\ TaskType(a)
      /\ \A i \in DOMAIN Entries[a] : IsEntry(Entries[a][i])
      /\ \A type \in {"link", "file", ".PKGINFO", "damaged"} :
           EntriesOf(a, type) = {d \in Range(Entries[a]) : d.type = type}
      /\ pos[a] \notin DOMAIN Entries[a] => \A i \in DOMAIN Entries[a] : i < pos[a]
      /\ Len(Entries[a]) \in Nat /\ DOMAIN Entries[a] = 1 .. Len(Entries[a])
  BY TaskFacts
<1>2. LinksOf(a) /\ FollowOf(a) /\ FilesOf(a) /\ EndOf(a)
  BY DEF ExactOf
<1>3. NoPath \notin Path /\ NoTask \notin Path \X Path
  BY EntriesAssumption
<1>4. CASE EndOfLinks(a)
  <2>1. /\ pc[a] = "links" /\ \A i \in DOMAIN Entries[a] : i < pos[a]
        /\ pc'[a] = "follow" /\ UNCHANGED <<pos, links, needed, cursor, byFile, found, complete, libs>>
    BY <1>1, <1>4 DEF EndOfLinks, Goto, Tables, passVars
  <2>2. LinksOf(a)'
    BY <1>2, <2>1 DEF LinksOf
  <2>3. ASSUME NEW p \in MissingLinks(a)
        PROVE  p \in needed[a]
    <3>1. PICK i \in DOMAIN Entries[a] : HasValue(Entries[a][i]) /\ p = Entries[a][i].path
      BY <2>3, LinkPathsAre DEF MissingLinks
    <3>. QED
      BY <1>2, <2>1, <2>3, <3>1 DEF LinksOf, MissingLinks
  <2>4. FollowOf(a)'
    BY <1>2, <2>1, <2>3 DEF FollowOf
  <2>5. FilesOf(a)' /\ EndOf(a)'
    BY <1>2, <2>1 DEF FilesOf, EndOf
  <2>. QED
    BY <2>2, <2>4, <2>5 DEF ExactOf
\* While links are followed, the second pass has not begun.
<1>5. ASSUME pc[a] = "follow", UNCHANGED <<pc, pos, links, found, complete, libs>>, FollowOf(a)'
      PROVE  ExactOf(a)'
  <2>1. LinksOf(a)'
    BY <1>2, <1>5 DEF LinksOf
  <2>2. FilesOf(a)' /\ EndOf(a)'
    BY <1>2, <1>5 DEF FilesOf, EndOf
  <2>. QED
    BY <1>5, <2>1, <2>2 DEF ExactOf
<1>6. ASSUME NEW p \in Path, FollowNext(a, p)
      PROVE  ExactOf(a)'
  <2>1. /\ pc[a] = "follow" /\ cursor[a] = NoTask /\ p \in needed[a]
        /\ UNCHANGED <<pc, pos, links, byFile, found, complete, libs>>
        /\ cursor'[a] = <<p, p>> /\ needed'[a] = needed[a] \ {p}
    BY <1>1, <1>6 DEF FollowNext, Tables
  <2>2. <<p, p>> # NoTask
    BY <1>3
  <2>3. /\ needed'[a] \subseteq MissingLinks(a)
        /\ cursor'[a][1] \in MissingLinks(a) /\ SameEnd(a, cursor'[a][1], cursor'[a][2])
    BY <1>2, <2>1 DEF FollowOf, SameEnd
  <2>4. ASSUME NEW q \in MissingLinks(a)
        PROVE  q \in needed'[a] \/ (cursor'[a] # NoTask /\ q = cursor'[a][1]) \/ AtFile(a, q)
    <3>1. q \in needed[a] \/ AtFile(a, q)
      BY <1>2, <2>1 DEF FollowOf
    <3>. QED
      BY <2>1, <2>2, <3>1
  <2>5. FollowOf(a)'
    BY <1>2, <2>1, <2>3, <2>4 DEF FollowOf, AtFile
  <2>. QED
    BY <1>5, <2>1, <2>5
<1>7. CASE Follow(a)
  <2>1. /\ pc[a] = "follow" /\ cursor[a] # NoTask /\ cursor[a] \in Path \X Path /\ cursor[a][2] \in DOMAIN links[a]
        /\ UNCHANGED <<pc, pos, links, needed, byFile, found, complete, libs>>
        /\ cursor'[a] = [cursor[a] EXCEPT ![2] = links[a][@]]
    BY <1>1, <1>7 DEF Follow, AtEnd, TaskType, Tables
  <2>2. PICK e \in EntriesOf(a, "link") : e.value # NoPath /\ cursor[a][2] = e.path /\ links[a][cursor[a][2]] = e.value
    BY <1>2, <2>1 DEF LinksOf
  <2>3. SameEnd(a, e.path, e.value)
    BY <2>2, LinkLeads
  <2>4. cursor'[a][1] = cursor[a][1] /\ cursor'[a][2] = e.value
    BY <2>1, <2>2
  <2>5. cursor[a][1] \in MissingLinks(a) /\ SameEnd(a, cursor[a][1], cursor[a][2])
    BY <1>2, <2>1 DEF FollowOf
  <2>6. SameEnd(a, cursor[a][1], e.value)
    BY <2>2, <2>3, <2>5 DEF SameEnd
  <2>7. cursor'[a] # NoTask
    <3>1. links[a][cursor[a][2]] \in Path
      BY <1>1, <2>1 DEF TaskType, Range
    <3>2. cursor'[a] \in Path \X Path
      BY <2>1, <3>1
    <3>. QED
      BY <1>3, <3>2
  <2>8. FollowOf(a)'
    BY <1>2, <2>1, <2>4, <2>5, <2>6, <2>7 DEF FollowOf, AtFile
  <2>. QED
    BY <1>5, <2>1, <2>8
<1>8. CASE FollowEnd(a)
  <2>. DEFINE file == cursor[a][2]
              link == cursor[a][1]
  <2>1. /\ pc[a] = "follow" /\ cursor[a] # NoTask /\ file \notin DOMAIN links[a]
        /\ UNCHANGED <<pc, pos, links, needed, found, complete, libs>>
        /\ cursor'[a] = NoTask
        /\ byFile'[a] = [f \in DOMAIN byFile[a] \cup {file} |->
                           (IF f \in DOMAIN byFile[a] THEN byFile[a][f] ELSE {}) \cup (IF f = file THEN {link} ELSE {})]
    BY <1>1, <1>8 DEF FollowEnd, AtEnd, Tables
  <2>2. link \in MissingLinks(a) /\ SameEnd(a, link, file)
    BY <1>2, <2>1 DEF FollowOf
  <2>3. file \notin LinkPaths(a)
    <3>1. ASSUME file \in LinkPaths(a)
          PROVE  FALSE
      <4>1. PICK i \in DOMAIN Entries[a] : HasValue(Entries[a][i]) /\ file = Entries[a][i].path
        BY <3>1, LinkPathsAre
      <4>. QED
        BY <1>2, <2>1, <4>1 DEF LinksOf
    <3>. QED
      BY <3>1
  <2>. HIDE DEF file, link
  <2>4. DOMAIN byFile'[a] = DOMAIN byFile[a] \cup {file} /\ link \in byFile'[a][file]
    BY <2>1
  <2>5. ASSUME NEW f \in DOMAIN byFile'[a]
        PROVE  /\ f \in DOMAIN byFile[a] => byFile[a][f] \subseteq byFile'[a][f]
               /\ \A p \in byFile'[a][f] : (f \in DOMAIN byFile[a] /\ p \in byFile[a][f]) \/ (f = file /\ p = link)
    BY <2>1, <2>5
  <2>6. ASSUME NEW q \in MissingLinks(a)
        PROVE  q \in needed'[a] \/ AtFile(a, q)'
    <3>1. q \in needed[a] \/ q = link \/ AtFile(a, q)
      BY <1>2, <2>1 DEF FollowOf, link
    <3>2. q = link => AtFile(a, q)'
      BY <2>4 DEF AtFile
    <3>3. AtFile(a, q) => AtFile(a, q)'
      BY <2>4, <2>5 DEF AtFile
    <3>. QED
      BY <2>1, <3>1, <3>2, <3>3
  <2>7. ASSUME NEW f \in DOMAIN byFile'[a]
        PROVE  /\ f \notin LinkPaths(a) /\ byFile'[a][f] # {}
               /\ \A p \in byFile'[a][f] : IsMissing(p) /\ SameEnd(a, p, f)
    <3>1. f \in DOMAIN byFile[a] =>
            /\ f \notin LinkPaths(a) /\ byFile[a][f] # {}
            /\ \A p \in byFile[a][f] : IsMissing(p) /\ SameEnd(a, p, f)
      BY <1>2 DEF FollowOf
    <3>2. IsMissing(link)
      BY <2>2 DEF MissingLinks
    <3>3. f \notin LinkPaths(a) /\ byFile'[a][f] # {}
      BY <2>3, <2>4, <2>5, <3>1
    <3>4. ASSUME NEW p \in byFile'[a][f]
          PROVE  IsMissing(p) /\ SameEnd(a, p, f)
      BY <2>2, <2>5, <3>1, <3>2, <3>4
    <3>. QED
      BY <3>3, <3>4
  <2>8. FollowOf(a)'
    BY <1>2, <2>1, <2>6, <2>7 DEF FollowOf
  <2>. QED
    BY <1>5, <2>1, <2>8
<1>9. CASE EndOfFollow(a)
  <2>1. /\ pc[a] = "follow" /\ cursor[a] = NoTask /\ needed[a] = {}
        /\ pc'[a] = "files" /\ pos'[a] = 1 /\ UNCHANGED <<needed, cursor, byFile, found, complete, libs>>
    BY <1>1, <1>9 DEF EndOfFollow, Goto, Tables
  <2>2. \A p \in MissingLinks(a) : AtFile(a, p)
    BY <1>2, <2>1 DEF FollowOf
  <2>3. FollowOf(a)'
    BY <1>2, <2>1, <2>2 DEF FollowOf, AtFile
  <2>4. LinksOf(a)' /\ EndOf(a)'
    BY <2>1 DEF LinksOf, EndOf
  <2>5. \A i \in DOMAIN Entries[a] : ~(i < 1)
    BY <1>1
  <2>6. FilesOf(a)'
    BY <1>2, <2>1, <2>5 DEF FilesOf
  <2>. QED
    BY <2>3, <2>4, <2>6 DEF ExactOf
<1>. QED
  BY <1>4, <1>6, <1>7, <1>8, <1>9

LEMMA ScanFileExact ==
  ASSUME EachPathOnce, IInv, NEW a \in Archive, ExactOf(a), ScanFile(a)
  PROVE  ExactOf(a)'
<1>. DEFINE e == ThisEntry(a)
<1>1. /\ Tables /\ TaskType(a) /\ FoundOf(a)
      /\ \A i \in DOMAIN Entries[a] : IsEntry(Entries[a][i])
      /\ \A type \in {"link", "file", ".PKGINFO", "damaged"} :
           EntriesOf(a, type) = {d \in Range(Entries[a]) : d.type = type}
      /\ \A i \in DOMAIN Entries[a] : i < pos[a] + 1 => i < pos[a] \/ i = pos[a]
  BY TaskFacts
<1>2. LinksOf(a) /\ FollowOf(a) /\ FilesOf(a) /\ EndOf(a)
  BY DEF ExactOf
<1>3. /\ pc[a] = "files" /\ pos[a] \in DOMAIN Entries[a] /\ UNCHANGED <<links, needed, cursor, byFile, libs>>
      /\ e = Entries[a][pos[a]] /\ e \in Range(Entries[a]) /\ IsEntry(e)
  <2>1. /\ pc[a] = "files" /\ pos[a] \in DOMAIN Entries[a] /\ UNCHANGED <<links, needed, cursor, byFile, libs>>
    BY DEF ScanFile, Reading, passVars
  <2>2. e = Entries[a][pos[a]]
    BY DEF ThisEntry
  <2>. QED
    BY <1>1, <2>1, <2>2 DEF Range
<1>4. e.type = "file" => e \in EntriesOf(a, "file") /\ (IsNeeded(a, e) <=> MissingAt(a, e) # {})
  <2>1. e.type = "file" => e \in EntriesOf(a, "file")
    BY <1>1, <1>3
  <2>2. DOMAIN byFile[a] \subseteq Path
    BY <1>1 DEF TaskType
  <2>. QED
    BY <1>2, <1>3, <2>1, <2>2, NeededIsMissing
<1>5. CASE Breaks(a, e)
  <2>1. pc'[a] = "ignored" /\ UNCHANGED <<pos, found, complete>>
    BY <1>1, <1>5 DEF ScanFile, Goto, Tables
  <2>2. ~Readable(a)
    <3>1. CASE e.type = "damaged" \/ (e.type = ".PKGINFO" /\ ~e.parses)
      BY <1>1, <1>3, <3>1 DEF Readable, Undamaged
    <3>2. CASE IsNeeded(a, e) /\ ~e.intact
      <4>1. e \in EntriesOf(a, "file") /\ MissingAt(a, e) # {}
        BY <1>4, <3>2 DEF IsNeeded
      <4>. QED
        BY <3>2, <4>1 DEF Readable, MissingAt
    <3>. QED
      BY <1>5, <3>1, <3>2 DEF Breaks
  <2>3. LinksOf(a)' /\ EndOf(a)'
    BY <2>1, <2>2 DEF LinksOf, EndOf
  <2>4. FollowOf(a)'
    BY <1>2, <1>3, <2>1 DEF FollowOf
  <2>5. FilesOf(a)'
    BY <1>2, <2>1 DEF FilesOf
  <2>. QED
    BY <2>3, <2>4, <2>5 DEF ExactOf
<1>6. CASE ~Breaks(a, e)
  <2>1. /\ pos'[a] = pos[a] + 1 /\ pc' = pc
        /\ complete'[a] = (complete[a] \/ (e.type = ".PKGINFO" /\ e.complete))
    BY <1>1, <1>6 DEF ScanFile, Advance, Tables
  <2>2. LinksOf(a)' /\ EndOf(a)'
    BY <1>2, <1>3, <2>1 DEF LinksOf, EndOf
  <2>3. FollowOf(a)'
    BY <1>2, <1>3, <2>1 DEF FollowOf, AtFile
  <2>4. /\ DOMAIN found[a] \subseteq DOMAIN found'[a]
        /\ e.type = "file" => (e.intact \/ MissingAt(a, e) = {}) /\ KeysOf(a, e) \subseteq DOMAIN found'[a]
        /\ \A k \in DOMAIN found'[a] : Gains(a, k[1], found'[a][k][2])
    <3>1. CASE ~IsNeeded(a, e)
      <4>1. found' = found
        BY <1>6, <3>1 DEF ScanFile
      <4>2. e.type = "file" => MissingAt(a, e) = {} /\ KeysOf(a, e) = {}
        BY <1>4, <3>1 DEF KeysOf
      <4>. QED
        BY <1>2, <4>1, <4>2 DEF FilesOf
    <3>2. CASE IsNeeded(a, e)
      <4>. DEFINE f == FromArchive(Fresh(FALSE), e.image)
                  paths == IF f.isLib THEN {e.path} \cup LinksTo(a, e.path) ELSE {}
                  keys == {<<p, f.is32>> : p \in paths}
      <4>1. e.type = "file" /\ e.path \in Path /\ IsImage(e.image) /\ e.intact /\ e \in EntriesOf(a, "file")
        BY <1>3, <1>4, <1>6, <3>2 DEF IsNeeded, IsEntry, Breaks
      <4>2. found'[a] = [k \in DOMAIN found[a] \cup keys |-> IF k \in DOMAIN found[a] THEN found[a][k] ELSE <<a, e.path>>]
        BY <1>1, <1>6, <3>2 DEF ScanFile, AddLibs, Tables
      <4>3. e.path \in Path \ LinkPaths(a)
        BY <4>1, FilesAreNoLinks
      <4>4. ASSUME NEW p \in paths
            PROVE  p \in LeadingTo(a, e.path) /\ (IsMissing(p) \/ p = e.path)
        <5>1. p = e.path \/ p \in LinksTo(a, e.path)
          BY <4>4
        <5>. HIDE DEF e, paths
        <5>2. p \in LeadingTo(a, e.path)
          BY <1>2, <4>3, <5>1, LinksLead, LeadingIs
        <5>3. p \in LinksTo(a, e.path) => IsMissing(p)
          BY <1>2 DEF LinksTo, FollowOf
        <5>. QED
          BY <5>1, <5>2, <5>3
      <4>5. ASSUME IsLib(e), NEW p \in MissingAt(a, e)
            PROVE  <<p, e.image.is32>> \in keys
        <5>1. f.isLib /\ f.is32 = e.image.is32
          BY <4>1, <4>5, LibIsTaken, TakenForLib
        <5>2. p = e.path \/ p \in LinksTo(a, e.path)
          <6>1. DOMAIN byFile[a] \subseteq Path
            BY <1>1 DEF TaskType
          <6>2. p \in LeadingTo(a, e.path) /\ IsMissing(p)
            BY <4>5 DEF MissingAt
          <6>. HIDE DEF e
          <6>. QED
            BY <1>2, <1>3, <4>3, <6>1, <6>2, MissingLinkAt
        <5>3. p \in paths
          BY <5>1, <5>2
        <5>. HIDE DEF e, f, paths
        <5>. QED
          BY <5>1, <5>3
      <4>6. ASSUME NEW k \in keys
            PROVE  Gains(a, k[1], e.path)
        <5>1. PICK p \in paths : k = <<p, f.is32>>
          BY <4>6
        <5>2. p \in LeadingTo(a, e.path) /\ (IsMissing(p) \/ p = e.path)
          BY <4>4, <5>1
        <5>3. MissingAt(a, e) # {}
          BY <1>4, <3>2, <4>1
        <5>4. \E q \in LeadingTo(a, e.path) : IsMissing(q)
          BY <5>3 DEF MissingAt
        <5>. HIDE DEF e, f, paths, keys
        <5>. QED
          BY <5>1, <5>2, <5>4 DEF Gains
      <4>7. KeysOf(a, e) \subseteq keys
        BY <4>5 DEF KeysOf
      <4>. HIDE DEF e, f, paths, keys
      <4>8. DOMAIN found'[a] = DOMAIN found[a] \cup keys
        BY <4>2
      <4>9. ASSUME NEW k \in DOMAIN found'[a]
            PROVE  Gains(a, k[1], found'[a][k][2])
        <5>1. CASE k \in DOMAIN found[a]
          <6>1. found'[a][k] = found[a][k]
            BY <4>2, <4>9, <5>1
          <6>. QED
            BY <1>2, <5>1, <6>1 DEF FilesOf
        <5>2. CASE k \notin DOMAIN found[a]
          <6>1. found'[a][k] = <<a, e.path>> /\ k \in keys
            BY <4>2, <4>8, <4>9, <5>2
          <6>. QED
            BY <4>6, <6>1
        <5>. QED
          BY <5>1, <5>2
      <4>. QED
        BY <4>1, <4>7, <4>8, <4>9
    <3>. QED
      BY <3>1, <3>2
  <2>5. ASSUME NEW i \in DOMAIN Entries[a], i < pos'[a], NEW d, d = Entries[a][i]
        PROVE  /\ d.type = "file" => (d.intact \/ MissingAt(a, d) = {}) /\ KeysOf(a, d) \subseteq DOMAIN found'[a]
               /\ d.type = ".PKGINFO" /\ d.complete => complete'[a]
    <3>1. CASE i < pos[a]
      <4>1. /\ d.type = "file" => (d.intact \/ MissingAt(a, d) = {}) /\ KeysOf(a, d) \subseteq DOMAIN found[a]
            /\ d.type = ".PKGINFO" /\ d.complete => complete[a]
        BY <1>2, <1>3, <2>5, <3>1 DEF FilesOf
      <4>. QED
        BY <2>1, <2>4, <4>1
    <3>2. CASE i = pos[a]
      <4>1. d = e
        BY <1>3, <2>5, <3>2
      <4>. QED
        BY <2>1, <2>4, <4>1
    <3>. QED
      BY <1>1, <2>1, <2>5, <3>1, <3>2
  <2>6. FilesOf(a)'
    BY <1>3, <2>1, <2>4, <2>5 DEF FilesOf
  <2>. QED
    BY <2>2, <2>3, <2>6 DEF ExactOf
<1>. QED
  BY <1>5, <1>6

\* An archive that was read in both passes is Readable.
LEMMA MergedIsReadable ==
  ASSUME IInv, NEW a \in Archive, FilesOf(a), pc[a] = "merge"
  PROVE  Readable(a)
<1>1. /\ ReadOf(a)
      /\ \A type \in {"link", "file", ".PKGINFO", "damaged"} :
           EntriesOf(a, type) = {d \in Range(Entries[a]) : d.type = type}
  BY TaskFacts
<1>2. /\ \A e \in Range(Entries[a]) : LinkRead(e) /\ FileRead(e)
      /\ \E e \in EntriesOf(a, ".PKGINFO") : e.complete
  BY <1>1 DEF ReadOf, Range
<1>3. Undamaged(a)
  BY <1>1, <1>2 DEF Undamaged, LinkRead, FileRead
<1>4. \A e \in EntriesOf(a, "file") : e.intact \/ MissingAt(a, e) = {}
  BY <1>1 DEF FilesOf, Range
<1>. QED
  BY <1>3, <1>4 DEF Readable, MissingAt

LEMMA EndExact ==
  ASSUME IInv, NEW a \in Archive, ExactOf(a), EndOfFiles(a) \/ Merge(a)
  PROVE  ExactOf(a)'
<1>1. /\ Tables /\ TaskType(a)
      /\ \A type \in {"link", "file", ".PKGINFO", "damaged"} :
           EntriesOf(a, type) = {d \in Range(Entries[a]) : d.type = type}
      /\ pos[a] \notin DOMAIN Entries[a] => \A i \in DOMAIN Entries[a] : i < pos[a]
  BY TaskFacts
<1>2. LinksOf(a) /\ FollowOf(a) /\ FilesOf(a) /\ EndOf(a)
  BY DEF ExactOf
<1>3. CASE EndOfFiles(a)
  <2>1. /\ pc[a] = "files" /\ \A i \in DOMAIN Entries[a] : i < pos[a]
        /\ pc'[a] = (IF complete[a] THEN "merge" ELSE "ignored")
        /\ UNCHANGED <<pos, links, needed, cursor, byFile, found, complete, libs>>
    BY <1>1, <1>3 DEF EndOfFiles, Goto, Tables, passVars
  <2>2. ~complete[a] => ~Undamaged(a)
    <3>1. \A e \in EntriesOf(a, ".PKGINFO") : e.complete => complete[a]
      BY <1>1, <1>2, <2>1 DEF FilesOf, Range
    <3>. QED
      BY <3>1 DEF Undamaged
  <2>3. LinksOf(a)'
    BY <2>1 DEF LinksOf
  <2>4. FollowOf(a)'
    BY <1>2, <2>1 DEF FollowOf, AtFile
  <2>5. FilesOf(a)'
    BY <1>2, <2>1 DEF FilesOf
  <2>6. EndOf(a)'
    BY <2>1, <2>2 DEF EndOf, Readable
  <2>. QED
    BY <2>3, <2>4, <2>5, <2>6 DEF ExactOf
<1>4. CASE Merge(a)
  <2>1. /\ pc[a] = "merge" /\ pc'[a] = "merged" /\ DOMAIN found'[a] = {} /\ DOMAIN byFile'[a] = {}
        /\ UNCHANGED <<pos, links, needed, cursor, complete>>
        /\ DOMAIN libs' = DOMAIN libs \cup DOMAIN found[a]
    BY <1>1, <1>4 DEF Merge, Goto, Tables
  <2>2. LinksOf(a)'
    BY <2>1 DEF LinksOf
  <2>3. FollowOf(a)'
    BY <1>2, <2>1 DEF FollowOf
  <2>4. FilesOf(a)'
    BY <2>1 DEF FilesOf
  <2>5. \A e \in EntriesOf(a, "file") : KeysOf(a, e) \subseteq DOMAIN found[a]
    BY <1>1, <1>2, <2>1 DEF FilesOf, Range
  <2>6. Readable(a)
    BY <1>2, <2>1, MergedIsReadable
  <2>7. EndOf(a)'
    BY <2>1, <2>5, <2>6 DEF EndOf
  <2>. QED
    BY <2>2, <2>3, <2>4, <2>7 DEF ExactOf
<1>. QED
  BY <1>3, <1>4

LEMMA LibsLeadStays ==
  ASSUME IInv, LibsLead, NEW a \in Archive, ExactOf(a), Step(a)
  PROVE  LibsLead' /\ DOMAIN libs \subseteq DOMAIN libs'
<1>1. CASE Merge(a)
  <2>1. /\ DOMAIN libs' = DOMAIN libs \cup DOMAIN found[a]
        /\ \A k \in DOMAIN libs' : libs'[k] = IF k \in DOMAIN libs THEN libs[k] ELSE found[a][k]
    BY <1>1 DEF Merge
  <2>2. FoundOf(a) /\ FilesOf(a)
    BY TaskFacts DEF ExactOf
  <2>3. ASSUME NEW k \in DOMAIN libs' \ DOMAIN SystemLibs
        PROVE  Gains(libs'[k][1], k[1], libs'[k][2])
    <3>1. CASE k \in DOMAIN libs
      BY <2>1, <2>3, <3>1 DEF LibsLead
    <3>2. CASE k \notin DOMAIN libs
      <4>1. k \in DOMAIN found[a] /\ libs'[k] = found[a][k]
        BY <2>1, <2>3, <3>2
      <4>2. found[a][k][1] = a /\ Gains(a, k[1], found[a][k][2])
        BY <2>2, <4>1 DEF FoundOf, FilesOf
      <4>. QED
        BY <4>1, <4>2
    <3>. QED
      BY <3>1, <3>2
  <2>. QED
    BY <2>1, <2>3 DEF LibsLead
<1>2. CASE ~Merge(a)
  <2>1. libs' = libs
    BY <1>2 DEF Step, ScanLink, EndOfLinks, FollowNext, Follow, FollowEnd, EndOfFollow, ScanFile, EndOfFiles
  <2>. QED
    BY <2>1 DEF LibsLead
<1>. QED
  BY <1>1, <1>2

LEMMA StepExact ==
  ASSUME EachPathOnce, IInv, ExactInv, NEW a \in Archive, Step(a)
  PROVE  ExactInv'
<1>1. LibsLead /\ \A b \in Archive : ExactOf(b)
  BY DEF ExactInv
<1>2. ExactOf(a)'
  BY <1>1, ScanLinkExact, FollowExact, ScanFileExact, EndExact DEF Step
<1>3. LibsLead' /\ DOMAIN libs \subseteq DOMAIN libs'
  BY <1>1, LibsLeadStays
<1>4. Own(a)
  BY TaskFacts, StepsAreOwn
<1>5. ASSUME NEW b \in Archive, b # a
      PROVE  ExactOf(b)'
  BY <1>1, <1>3, <1>4, <1>5, OthersExact
<1>6. \A b \in Archive : ExactOf(b)'
  BY <1>2, <1>5
<1>. QED
  BY <1>3, <1>6 DEF ExactInv

LEMMA ExactInit ==
  ASSUME Init
  PROVE  ExactInv
<1>1. ASSUME NEW a \in Archive
      PROVE  ExactOf(a)
  <2>1. /\ pc[a] \in {"absent", "links"} /\ pos[a] = 1 /\ needed[a] = {} /\ cursor[a] = NoTask
        /\ DOMAIN links[a] = {} /\ DOMAIN byFile[a] = {} /\ DOMAIN found[a] = {}
    BY DEF Init
  <2>2. \A i \in DOMAIN Entries[a] : ~(i < 1)
    BY EntriesAre
  <2>3. LinksOf(a)
    BY <2>1, <2>2 DEF LinksOf
  <2>4. FollowOf(a)
    BY <2>1 DEF FollowOf
  <2>5. FilesOf(a) /\ EndOf(a)
    BY <2>1 DEF FilesOf, EndOf
  <2>. QED
    BY <2>3, <2>4, <2>5 DEF ExactOf
<1>2. LibsLead
  BY DEF Init, LibsLead
<1>. QED
  BY <1>1, <1>2 DEF ExactInv

LEMMA ExactIsKept == EachPathOnce /\ IInv /\ ExactInv /\ [Next]_vars => ExactInv'
<1>. SUFFICES ASSUME EachPathOnce, IInv, ExactInv, [Next]_vars PROVE ExactInv'
  OBVIOUS
<1>1. CASE UNCHANGED vars
  <2>. USE <1>1 DEF vars, passVars
  <2>1. LibsLead'
    BY DEF ExactInv, LibsLead
  <2>2. ASSUME NEW a \in Archive
        PROVE  ExactOf(a)'
    <3>1. LinksOf(a) /\ FollowOf(a) /\ FilesOf(a) /\ EndOf(a)
      BY DEF ExactInv, ExactOf
    <3>2. LinksOf(a)' /\ EndOf(a)'
      BY <3>1 DEF LinksOf, EndOf
    <3>3. FollowOf(a)'
      BY <3>1 DEF FollowOf, AtFile
    <3>4. FilesOf(a)'
      BY <3>1 DEF FilesOf
    <3>. QED
      BY <3>2, <3>3, <3>4 DEF ExactOf
  <2>. QED
    BY <2>1, <2>2 DEF ExactInv
<1>2. CASE Next
  BY <1>1, <1>2, StepExact DEF Next, Finished
<1>. QED
  BY <1>1, <1>2

\* The invariants say what data.libs has.
LEMMA ExactlyFound ==
  ASSUME IInv, ExactInv
  PROVE  FindsExactly
<1>1. ASSUME NEW a \in Archive, Over(a), Readable(a), NEW e \in EntriesOf(a, "file"), IsLib(e),
             NEW p \in LeadingTo(a, e.path), IsMissing(p)
      PROVE  <<p, e.image.is32>> \in DOMAIN libs
  <2>1. EndOf(a)
    BY DEF ExactInv, ExactOf
  <2>2. KeysOf(a, e) \subseteq DOMAIN libs
    BY <1>1, <2>1 DEF EndOf, Over
  <2>3. <<p, e.image.is32>> \in KeysOf(a, e)
    BY <1>1 DEF KeysOf, MissingAt
  <2>. QED
    BY <2>2, <2>3
<1>2. ASSUME NEW k \in DOMAIN libs \ DOMAIN SystemLibs
      PROVE  /\ Readable(libs[k][1])
             /\ Gains(libs[k][1], k[1], libs[k][2])
             /\ LeadsToLib(libs[k], k[2])
  <2>1. libs[k][1] \in Archive /\ pc[libs[k][1]] = "merged" /\ LeadsToLib(libs[k], k[2])
    BY DEF IInv, LibsInv
  <2>2. EndOf(libs[k][1])
    BY <2>1 DEF ExactInv, ExactOf
  <2>3. Gains(libs[k][1], k[1], libs[k][2])
    BY DEF ExactInv, LibsLead
  <2>. QED
    BY <2>1, <2>2, <2>3 DEF EndOf
<1>. QED
  BY <1>1, <1>2 DEF FindsExactly, FindsMissing, NothingElse

\* For any archives that have each path once, in any order of their tasks:
\* data.libs gains the missing libraries that the readable ones hold, by every
\* missing path that leads to them through links, and nothing else.
THEOREM FindsWhatIsMissing == EachPathOnce => (Spec => []FindsExactly)
<1>. SUFFICES ASSUME EachPathOnce
              PROVE  Spec => []FindsExactly
  OBVIOUS
<1>1. Init => ExactInv
  BY ExactInit
<1>2. IInv /\ ExactInv /\ [Next]_vars => ExactInv'
  BY ExactIsKept
<1>3. IInv /\ ExactInv => FindsExactly
  BY ExactlyFound
<1>. QED
  BY Invariance, <1>1, <1>2, <1>3, PTL DEF Spec
=============================================================================
