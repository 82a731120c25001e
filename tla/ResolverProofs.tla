---------------------------- MODULE ResolverProofs ----------------------------
(***************************************************************************)
(* Proofs about Resolver, for any files, libraries and search paths.       *)
(***************************************************************************)
EXTENDS Resolver, SequenceTheorems, WellFoundedInduction, TLAPS

\* A set of numbers that is not empty has a least element: the first place
\* that has the library is well defined.
LEMMA LeastElement ==
  ASSUME NEW S \in SUBSET Nat, S # {}
  PROVE  \E i \in S : \A j \in S : i <= j
<1>1. PICK i \in S : \A j \in S : ~ (<<j, i>> \in OpToRel(<, Nat))
  BY NatLessThanWellFounded, WFMin, Zenon
<1>2. ASSUME NEW j \in S
      PROVE  i <= j
  <2>1. i \in Nat /\ j \in Nat
    OBVIOUS
  <2>2. <<j, i>> \in Nat \X Nat
    BY <2>1
  <2>3. ~ (j < i)
    BY <1>1, <2>2, Zenon DEF OpToRel
  <2>. QED
    BY <2>1, <2>3
<1>. QED
  BY <1>2

\* What FilesCollector left has the types that the constants promise.
LEMMA FactsType ==
  ASSUME NEW f \in File
  PROVE  /\ Facts[f].configPaths \in Seq(Dir) /\ Facts[f].rPaths \in Seq(Dir)
         /\ Facts[f].runPaths \in Seq(Dir) /\ Facts[f].needed \subseteq Name
         /\ RPaths(f) \in Seq(Dir) /\ MoreLibs(f) \in Seq(Dir)
<1>1. Facts[f] \in FileFacts
  BY FactsAssumption
<1>2. /\ Facts[f].configPaths \in Seq(Dir) /\ Facts[f].rPaths \in Seq(Dir)
      /\ Facts[f].runPaths \in Seq(Dir) /\ Facts[f].needed \subseteq Name
  BY <1>1 DEF FileFacts
<1>3. << >> \in Seq(Dir)
  OBVIOUS
<1>. QED
  BY <1>2, <1>3, PathAssumption DEF RPaths, MoreLibs

\* Directories become places, one by one.
LEMMA InDirsType ==
  ASSUME NEW n \in Name, NEW dirs \in Seq(Dir)
  PROVE  /\ InDirs(dirs, n) \in Seq(Place)
         /\ Len(InDirs(dirs, n)) = Len(dirs)
         /\ \A i \in 1..Len(dirs) : InDirs(dirs, n)[i] = InLibs(<<dirs[i], n>>)
         /\ Range(InDirs(dirs, n)) = {InLibs(<<d, n>>) : d \in Range(dirs)}
<1>1. DOMAIN dirs = 1..Len(dirs) /\ Len(dirs) \in Nat /\ \A i \in 1..Len(dirs) : dirs[i] \in Dir
  OBVIOUS
<1>2. \A i \in 1..Len(dirs) : InLibs(<<dirs[i], n>>) \in Place
  BY <1>1 DEF InLibs, Place, Path
<1>3. InDirs(dirs, n) = [i \in 1..Len(dirs) |-> InLibs(<<dirs[i], n>>)]
  BY <1>1 DEF InDirs
<1>4. InDirs(dirs, n) \in Seq(Place) /\ Len(InDirs(dirs, n)) = Len(dirs)
  BY <1>1, <1>2, <1>3
<1>5. Range(InDirs(dirs, n)) = {InLibs(<<d, n>>) : d \in Range(dirs)}
  BY <1>1, <1>3 DEF Range
<1>. QED
  BY <1>3, <1>4, <1>5

\* What a concatenation of three and of four search paths holds.
LEMMA JoinedThree ==
  ASSUME NEW S, NEW s \in Seq(S), NEW t \in Seq(S), NEW u \in Seq(S)
  PROVE  /\ s \o t \o u \in Seq(S)
         /\ Range(s \o t \o u) = Range(s) \cup Range(t) \cup Range(u)
<1>1. s \o t \in Seq(S) /\ Range(s \o t) = Range(s) \cup Range(t)
  BY RangeConcatenation, ConcatProperties
<1>2. PICK st \in Seq(S) : st = s \o t
  BY <1>1
<1>3. st \o u \in Seq(S) /\ Range(st \o u) = Range(st) \cup Range(u)
  BY RangeConcatenation, ConcatProperties
<1>. QED
  BY <1>1, <1>2, <1>3

LEMMA JoinedFour ==
  ASSUME NEW S, NEW s \in Seq(S), NEW t \in Seq(S), NEW u \in Seq(S), NEW v \in Seq(S)
  PROVE  /\ s \o t \o u \o v \in Seq(S)
         /\ Range(s \o t \o u \o v) = Range(s) \cup Range(t) \cup Range(u) \cup Range(v)
<1>1. s \o t \in Seq(S) /\ Range(s \o t) = Range(s) \cup Range(t)
  BY RangeConcatenation, ConcatProperties
<1>2. PICK st \in Seq(S) : st = s \o t
  BY <1>1
<1>3. st \o u \o v \in Seq(S) /\ Range(st \o u \o v) = Range(st) \cup Range(u) \cup Range(v)
  BY JoinedThree
<1>. QED
  BY <1>1, <1>2, <1>3

LEMMA LdPlace ==
  ASSUME NEW n \in Name
  PROVE  /\ <<[map |-> "ldCache", key |-> n]>> \in Seq(Place)
         /\ Range(<<[map |-> "ldCache", key |-> n]>>) = {[map |-> "ldCache", key |-> n]}
BY DEF Place, Range

\* The places of a bare name are the directories that ld.so(8) names and ldCache.
LEMMA PlacesOfName ==
  ASSUME NEW f \in File, NEW n \in Name, n \notin DOMAIN AbsPath
  PROVE  /\ Places(f, n) \in Seq(Place)
         /\ Range(Places(f, n)) = {InLibs(<<d, n>>) : d \in AllowedDirs(f)}
                                    \cup {[map |-> "ldCache", key |-> n]}
<1>. DEFINE dirs == Facts[f].configPaths \o RPaths(f) \o MoreLibs(f) \o Facts[f].runPaths
            ld == <<[map |-> "ldCache", key |-> n]>>
<1>1. /\ Facts[f].configPaths \in Seq(Dir) /\ RPaths(f) \in Seq(Dir)
      /\ MoreLibs(f) \in Seq(Dir) /\ Facts[f].runPaths \in Seq(Dir)
      /\ ScanDefaultLibs \in Seq(Dir)
  BY FactsType, PathAssumption
<1>4. /\ dirs \in Seq(Dir)
      /\ Range(dirs) = Range(Facts[f].configPaths) \cup Range(RPaths(f)) \cup Range(MoreLibs(f))
                         \cup Range(Facts[f].runPaths)
  BY <1>1, JoinedFour
<1>5. Range(<< >>) = {}
  BY DEF Range
<1>6. Range(dirs) \cup Range(ScanDefaultLibs) = AllowedDirs(f)
  BY <1>4, <1>5 DEF AllowedDirs, RPaths, MoreLibs
<1>7. Places(f, n) = InDirs(dirs, n) \o ld \o InDirs(ScanDefaultLibs, n)
  BY DEF Places
<1>8. /\ InDirs(dirs, n) \in Seq(Place) /\ InDirs(ScanDefaultLibs, n) \in Seq(Place)
      /\ ld \in Seq(Place)
      /\ Range(InDirs(dirs, n)) = {InLibs(<<d, n>>) : d \in Range(dirs)}
      /\ Range(InDirs(ScanDefaultLibs, n)) = {InLibs(<<d, n>>) : d \in Range(ScanDefaultLibs)}
      /\ Range(ld) = {[map |-> "ldCache", key |-> n]}
  BY <1>1, <1>4, InDirsType, LdPlace
<1>. HIDE DEF dirs, ld
<1>9. PICK a \in Seq(Place), b \in Seq(Place), c \in Seq(Place) :
        a = InDirs(dirs, n) /\ b = ld /\ c = InDirs(ScanDefaultLibs, n)
  BY <1>8
<1>10. /\ Places(f, n) \in Seq(Place)
       /\ Range(Places(f, n)) = Range(a) \cup Range(b) \cup Range(c)
  <2>1. Places(f, n) = a \o b \o c
    BY <1>7, <1>9
  <2>. QED
    BY <2>1, JoinedThree
<1>. QED
  BY <1>6, <1>8, <1>9, <1>10

\* A library given by absolute path has that one place.
LEMMA PlacesOfPath ==
  ASSUME NEW f \in File, NEW n \in Name, n \in DOMAIN AbsPath
  PROVE  /\ Places(f, n) \in Seq(Place)
         /\ Range(Places(f, n)) = {InLibs(AbsPath[n])}
<1>1. Places(f, n) = <<InLibs(AbsPath[n])>>
  BY DEF Places
<1>2. InLibs(AbsPath[n]) \in Place
  BY PathAssumption DEF InLibs, Place
<1>. QED
  BY <1>1, <1>2 DEF Range

LEMMA PlacesType ==
  ASSUME NEW f \in File, NEW n \in Name
  PROVE  Places(f, n) \in Seq(Place)
BY PlacesOfName, PlacesOfPath

\* The first of the places that have the library, if one has it.
LEMMA FirstHitIsHit ==
  ASSUME NEW f \in File, NEW n \in Name, Hits(f, n) # {}
  PROVE  /\ FirstHit(f, n) \in Hits(f, n)
         /\ \A j \in Hits(f, n) : FirstHit(f, n) <= j
         /\ Places(f, n)[FirstHit(f, n)] \in Place
<1>1. Places(f, n) \in Seq(Place)
  BY PlacesType
<1>2. Hits(f, n) \subseteq 1..Len(Places(f, n)) /\ Len(Places(f, n)) \in Nat
  BY <1>1 DEF Hits
<1>3. Hits(f, n) \in SUBSET Nat
  BY <1>2
<1>4. \E i \in Hits(f, n) : \A j \in Hits(f, n) : i <= j
  BY <1>3, LeastElement
<1>5. FirstHit(f, n) \in Hits(f, n) /\ \A j \in Hits(f, n) : FirstHit(f, n) <= j
  BY <1>4 DEF FirstHit
<1>. QED
  BY <1>1, <1>2, <1>5

\* The search in order finds nothing exactly if nothing is there: the order
\* and the groups matter for which file is found, not for whether one is.
LEMMA SearchIsComplete ==
  ASSUME NEW f \in File, NEW n \in Name
  PROVE  Hits(f, n) = {} <=> ~Available(f, n)
<1>1. Hits(f, n) = {} <=> \A p \in Range(Places(f, n)) : ~Holds(p, Facts[f].is32)
  BY DEF Hits, Range
<1>2. CASE n \in DOMAIN AbsPath
  <2>1. Range(Places(f, n)) = {InLibs(AbsPath[n])}
    BY <1>2, PlacesOfPath
  <2>. QED
    BY <1>1, <1>2, <2>1 DEF Available, Holds, InLibs
<1>3. CASE n \notin DOMAIN AbsPath
  <2>1. Range(Places(f, n)) = {InLibs(<<d, n>>) : d \in AllowedDirs(f)}
                                \cup {[map |-> "ldCache", key |-> n]}
    BY <1>3, PlacesOfName
  <2>2. \A d : Holds(InLibs(<<d, n>>), Facts[f].is32) <=> <<<<d, n>>, Facts[f].is32>> \in DOMAIN libs
    BY DEF Holds, InLibs
  <2>3. Holds([map |-> "ldCache", key |-> n], Facts[f].is32) <=> <<n, Facts[f].is32>> \in DOMAIN ldCache
    BY DEF Holds
  <2>. QED
    BY <1>1, <1>3, <2>1, <2>2, <2>3 DEF Available
<1>. QED
  BY <1>2, <1>3

-----------------------------------------------------------------------------
(* The invariant.                                                          *)

\* Only the maps decide, and libraries are only added.
LEMMA LibrariesStay ==
  ASSUME DOMAIN libs \subseteq DOMAIN libs', DOMAIN ldCache \subseteq DOMAIN ldCache',
         NEW f \in File, NEW n \in Name, Available(f, n)
  PROVE  Available(f, n)'
BY DEF Available

LEMMA SameLibraries ==
  ASSUME libs' = libs, ldCache' = ldCache, NEW f \in File, NEW n \in Name
  PROVE  /\ Available(f, n)' <=> Available(f, n)
         /\ Hits(f, n)' = Hits(f, n)
         /\ FirstHit(f, n)' = FirstHit(f, n)
BY DEF Available, Hits, FirstHit, Holds

LEMMA InitStep == Init => IInv
<1>. SUFFICES ASSUME Init PROVE IInv
  OBVIOUS
<1>. USE DEF Init
<1>1. DOMAIN files = File /\ \A f \in File : files[f] = Facts[f].needed
  OBVIOUS
<1>2. TypeOK
  <2>1. DOMAIN libs \subseteq Path \X BOOLEAN /\ DOMAIN ldCache \subseteq Name \X BOOLEAN
    BY PathAssumption
  <2>2. DOMAIN todo = {} /\ DOMAIN bound = {}
    OBVIOUS
  <2>. QED
    BY <1>1, <2>1, <2>2 DEF TypeOK
<1>3. KnownInv
  BY <1>1 DEF KnownInv
<1>4. StageInv /\ BindInv
  BY DEF StageInv, BindInv
<1>. QED
  BY <1>2, <1>3, <1>4 DEF IInv

LEMMA StartStep == IInv /\ Start => IInv'
<1>. SUFFICES ASSUME IInv, Start PROVE IInv'
  OBVIOUS
<1>. USE DEF IInv
<1>. DEFINE left == {f \in DOMAIN files : Unfinished(f)}
<1>1. /\ DOMAIN files' = left /\ \A f \in left : files'[f] = files[f]
      /\ todo' = files'
  BY DEF Start, Restrict
<1>2. /\ at = "ready" /\ at' = "resolving" /\ pass < 2 /\ pass' = pass + 1
      /\ libs' = libs /\ ldCache' = ldCache /\ unresolved' = unresolved /\ bound' = bound
  BY DEF Start
<1>3. TypeOK'
  <2>1. pass \in 0..2 /\ pass' \in 0..2
    BY <1>2 DEF TypeOK
  <2>. QED
    BY <1>1, <1>2, <2>1 DEF TypeOK
<1>4. KnownInv'
  <2>. SUFFICES ASSUME NEW f \in File, Facts[f].isDynamicELF, NEW n \in Facts[f].needed,
                       f \notin left \/ n \notin files'[f]
                PROVE  Available(f, n)'
    BY <1>1 DEF KnownInv
  <2>1. f \notin DOMAIN files \/ n \notin files[f]
    BY <1>1 DEF Unfinished
  <2>2. n \in Name
    BY FactsType
  <2>. QED
    BY <1>2, <2>1, <2>2, SameLibraries DEF KnownInv
<1>5. StageInv'
  BY <1>1, <1>2 DEF StageInv, Unfinished
<1>6. BindInv'
  <2>1. pass \in 0..2
    BY DEF TypeOK
  <2>2. pass' # 0 /\ (pass' = 1 => bound' = << >>)
    BY <1>2, <2>1 DEF BindInv
  <2>. QED
    BY <2>2 DEF BindInv
<1>. QED
  BY <1>3, <1>4, <1>5, <1>6

LEMMA ResolveStep ==
  ASSUME IInv, NEW f \in File, NEW n \in Name, Resolve(f, n)
  PROVE  IInv'
<1>. USE DEF IInv
<1>1. /\ at = "resolving" /\ at' = "resolving" /\ f \in DOMAIN todo /\ n \in todo[f]
      /\ todo' = [todo EXCEPT ![f] = @ \ {n}]
      /\ pass' = pass /\ libs' = libs /\ ldCache' = ldCache /\ unresolved' = unresolved
  BY DEF Resolve
<1>2. \A g \in File, m \in Name :
        /\ Available(g, m)' <=> Available(g, m)
        /\ Hits(g, m)' = Hits(g, m) /\ FirstHit(g, m)' = FirstHit(g, m)
  BY <1>1, SameLibraries
<1>3. /\ DOMAIN todo' = DOMAIN todo /\ todo'[f] = todo[f] \ {n}
      /\ \A g \in DOMAIN todo : g # f => todo'[g] = todo[g]
  BY <1>1
<1>4. /\ DOMAIN todo = DOMAIN files /\ DOMAIN files \subseteq File
      /\ \A g \in DOMAIN files : Facts[g].isDynamicELF /\ todo[g] \subseteq files[g]
      /\ \A g \in DOMAIN files : files[g] \subseteq Facts[g].needed
      /\ \A g \in DOMAIN files : \A m \in files[g] \ todo[g] : ~Available(g, m)
      /\ \A g \in File : Facts[g].needed \subseteq Name
  BY <1>1, FactsType DEF TypeOK, StageInv
<1>5. CASE Hits(f, n) = {}
  <2>1. files' = files /\ bound' = bound
    BY <1>5 DEF Resolve
  <2>2. ~Available(f, n)
    BY <1>5, SearchIsComplete
  <2>3. TypeOK'
    BY <1>1, <1>3, <1>4, <2>1 DEF TypeOK
  <2>4. KnownInv'
    BY <1>2, <1>4, <2>1 DEF KnownInv
  <2>5. StageInv'
    <3>1. ASSUME NEW g \in DOMAIN files, NEW m \in files[g] \ todo'[g]
          PROVE  ~Available(g, m)
      BY <1>3, <1>4, <2>2
    <3>. QED
      BY <1>1, <1>2, <1>3, <1>4, <2>1, <3>1 DEF StageInv
  <2>6. BindInv'
    BY <1>1, <1>2, <2>1 DEF BindInv, TypeOK
  <2>. QED
    BY <2>3, <2>4, <2>5, <2>6
<1>6. CASE Hits(f, n) # {}
  <2>1. /\ files' = [files EXCEPT ![f] = @ \ {n}]
        /\ bound' = [k \in DOMAIN bound \cup {<<f, n>>} |->
                       IF k = <<f, n>> THEN Places(f, n)[FirstHit(f, n)] ELSE bound[k]]
    BY <1>6 DEF Resolve
  <2>2. Available(f, n)
    BY <1>6, SearchIsComplete
  <2>3. /\ DOMAIN files' = DOMAIN files /\ files'[f] = files[f] \ {n}
        /\ \A g \in DOMAIN files : g # f => files'[g] = files[g]
    BY <1>1, <1>4, <2>1
  <2>4. TypeOK'
    <3>1. /\ DOMAIN files' \subseteq File
          /\ \A g \in DOMAIN files' : files'[g] \subseteq Facts[g].needed
      BY <1>4, <2>3
    <3>2. /\ DOMAIN todo' \subseteq DOMAIN files'
          /\ \A g \in DOMAIN todo' : todo'[g] \subseteq files'[g]
      BY <1>3, <1>4, <2>3
    <3>3. DOMAIN bound' \subseteq File \X Name /\ \A k \in DOMAIN bound' : bound'[k] \in Place
      BY <1>6, <2>1, FirstHitIsHit DEF TypeOK
    <3>. QED
      BY <1>1, <3>1, <3>2, <3>3 DEF TypeOK
  <2>5. KnownInv'
    <3>. SUFFICES ASSUME NEW g \in File, Facts[g].isDynamicELF, NEW m \in Facts[g].needed,
                         g \notin DOMAIN files' \/ m \notin files'[g]
                  PROVE  Available(g, m)
      BY <1>2, <1>4 DEF KnownInv
    <3>1. CASE g = f /\ m = n
      BY <2>2, <3>1
    <3>2. CASE ~(g = f /\ m = n)
      BY <2>3, <3>2 DEF KnownInv
    <3>. QED
      BY <3>1, <3>2
  <2>6. StageInv'
    <3>1. ASSUME NEW g \in DOMAIN files, NEW m \in files'[g] \ todo'[g]
          PROVE  ~Available(g, m)
      BY <1>3, <1>4, <2>3
    <3>2. \A g \in DOMAIN files, m \in Name : Available(g, m)' <=> Available(g, m)
      BY <1>2, <1>4
    <3>3. \A g \in DOMAIN files : files'[g] \subseteq Name
      BY <1>4, <2>3
    <3>. QED
      BY <1>1, <1>3, <1>4, <2>3, <3>1, <3>2, <3>3 DEF StageInv
  <2>7. BindInv'
    <3>1. pass # 0
      BY <1>1 DEF BindInv
    <3>2. ASSUME pass = 1, NEW k \in DOMAIN bound'
          PROVE  /\ Hits(k[1], k[2]) # {} /\ k[1] \in File /\ k[2] \in Name
                 /\ bound'[k] = Places(k[1], k[2])[FirstHit(k[1], k[2])]
      <4>1. CASE k = <<f, n>>
        BY <1>6, <2>1, <4>1
      <4>2. CASE k # <<f, n>>
        <5>1. k \in DOMAIN bound /\ bound'[k] = bound[k]
          BY <2>1, <4>2
        <5>. QED
          BY <1>1, <3>2, <5>1 DEF BindInv, TypeOK
      <4>. QED
        BY <4>1, <4>2
    <3>. QED
      BY <1>1, <1>2, <3>1, <3>2 DEF BindInv
  <2>. QED
    BY <2>4, <2>5, <2>6, <2>7
<1>. QED
  BY <1>5, <1>6

LEMMA CollectStep == IInv /\ Collect => IInv'
<1>. SUFFICES ASSUME IInv, Collect PROVE IInv'
  OBVIOUS
<1>. USE DEF IInv
<1>. DEFINE left == {f \in DOMAIN files : files[f] # {}}
<1>1. /\ DOMAIN files' = left /\ \A f \in left : files'[f] = files[f]
      /\ todo' = << >>
  BY DEF Collect, Restrict
<1>2. /\ at = "resolving" /\ at' = "returned" /\ pass' = pass
      /\ libs' = libs /\ ldCache' = ldCache /\ bound' = bound
      /\ \A f \in DOMAIN todo : todo[f] = {}
      /\ unresolved' = unresolved \cup UNION Range(files)
  BY DEF Collect
<1>3. \A g \in File, m \in Name :
        /\ Available(g, m)' <=> Available(g, m)
        /\ Hits(g, m)' = Hits(g, m) /\ FirstHit(g, m)' = FirstHit(g, m)
  BY <1>2, SameLibraries
<1>4. /\ DOMAIN files \subseteq File
      /\ \A g \in DOMAIN files : files[g] \subseteq Facts[g].needed /\ files[g] \subseteq Name
  BY FactsType DEF TypeOK
<1>5. TypeOK'
  <2>1. unresolved' \subseteq Name
    BY <1>2, <1>4 DEF TypeOK, Range
  <2>2. DOMAIN todo' = {}
    BY <1>1
  <2>. QED
    BY <1>1, <1>2, <1>4, <2>1, <2>2 DEF TypeOK
<1>6. KnownInv'
  <2>. SUFFICES ASSUME NEW f \in File, Facts[f].isDynamicELF, NEW n \in Facts[f].needed,
                       f \notin left \/ n \notin files'[f]
                PROVE  Available(f, n)'
    BY <1>1 DEF KnownInv
  <2>1. f \notin DOMAIN files \/ n \notin files[f]
    BY <1>1
  <2>2. n \in Name
    BY FactsType
  <2>. QED
    BY <1>3, <2>1, <2>2 DEF KnownInv
<1>7. StageInv'
  <2>1. \A f \in DOMAIN files : Facts[f].isDynamicELF /\ \A n \in files[f] : ~Available(f, n)
    BY <1>2 DEF StageInv
  <2>. QED
    BY <1>1, <1>2, <1>3, <1>4, <2>1 DEF StageInv
<1>8. BindInv'
  BY <1>2, <1>3 DEF BindInv, TypeOK
<1>. QED
  BY <1>5, <1>6, <1>7, <1>8

LEMMA AddLibsStep ==
  ASSUME IInv, NEW added \in Additions, AddLibs(added)
  PROVE  IInv'
<1>. USE DEF IInv
<1>1. /\ at = "returned" /\ at' = "ready" /\ pass < 2 /\ pass' = pass
      /\ files' = files /\ todo' = todo /\ ldCache' = ldCache /\ unresolved' = unresolved
      /\ bound' = bound /\ DOMAIN libs' = DOMAIN libs \cup DOMAIN added
  BY DEF AddLibs
<1>2. TypeOK'
  <2>1. DOMAIN added \subseteq Path \X BOOLEAN
    BY PathAssumption
  <2>. QED
    BY <1>1, <2>1 DEF TypeOK
<1>3. KnownInv'
  <2>1. \A f \in File, n \in Name : Available(f, n) => Available(f, n)'
    BY <1>1, LibrariesStay
  <2>2. \A f \in File : Facts[f].needed \subseteq Name
    BY FactsType
  <2>. QED
    BY <1>1, <2>1, <2>2 DEF KnownInv
<1>4. StageInv'
  BY <1>1 DEF StageInv
<1>5. BindInv'
  BY <1>1 DEF BindInv
<1>. QED
  BY <1>2, <1>3, <1>4, <1>5

LEMMA StutterStep == IInv /\ UNCHANGED vars => IInv'
<1>. SUFFICES ASSUME IInv, UNCHANGED vars PROVE IInv'
  OBVIOUS
<1>1. /\ at' = at /\ pass' = pass /\ files' = files /\ todo' = todo /\ libs' = libs
      /\ ldCache' = ldCache /\ unresolved' = unresolved /\ bound' = bound
  BY DEF vars
<1>2. TypeOK'
  BY <1>1 DEF IInv, TypeOK
<1>3. KnownInv' /\ StageInv'
  BY <1>1 DEF IInv, KnownInv, StageInv, Available
<1>4. BindInv'
  <2>1. \A f \in File, n \in Name : Hits(f, n)' = Hits(f, n) /\ FirstHit(f, n)' = FirstHit(f, n)
    BY <1>1, SameLibraries
  <2>. QED
    BY <1>1, <2>1 DEF IInv, BindInv, TypeOK
<1>. QED
  BY <1>2, <1>3, <1>4 DEF IInv

LEMMA Invariance == Spec => []IInv
<1>1. IInv /\ [Next]_vars => IInv'
  BY StartStep, ResolveStep, CollectStep, AddLibsStep, StutterStep DEF Next, Finished
<1>. QED
  BY InitStep, <1>1, PTL DEF Spec

\* The type invariant; in particular, what a task asks for is what its file
\* still lacks, and a library is bound to a place that can hold it.
THEOREM TypeCorrect == Spec => []TypeOK
<1>1. IInv => TypeOK
  BY DEF IInv
<1>. QED
  BY Invariance, <1>1, PTL

\* When execute() returns, it reports exactly the dynamic files that lack a
\* library, each with exactly the libraries that are in none of the places
\* ld.so(8) names, whatever the search paths and the order of the tasks.
THEOREM ReportIsExact == Spec => []ReportsExactly
<1>1. IInv => ReportsExactly
  <2>. SUFFICES ASSUME IInv, at = "returned" PROVE ReportsExactly
    BY DEF ReportsExactly
  <2>1. /\ DOMAIN files \subseteq File
        /\ \A f \in DOMAIN files : /\ files[f] \subseteq Facts[f].needed /\ files[f] # {}
                                   /\ Facts[f].isDynamicELF
                                   /\ \A n \in files[f] : ~Available(f, n)
    BY DEF IInv, TypeOK, StageInv
  <2>2. ASSUME NEW f \in DOMAIN files
        PROVE  files[f] = MissingOf(f)
    BY <2>1 DEF IInv, KnownInv, MissingOf
  <2>3. ASSUME NEW f \in File, Facts[f].isDynamicELF, f \notin DOMAIN files
        PROVE  MissingOf(f) = {}
    BY <2>3 DEF IInv, KnownInv, MissingOf
  <2>4. \A f \in File : f \in DOMAIN files <=> (Facts[f].isDynamicELF /\ MissingOf(f) # {})
    BY <2>1, <2>2, <2>3
  <2>. QED
    BY <2>1, <2>2, <2>4 DEF ReportsExactly
<1>. QED
  BY Invariance, <1>1, PTL

-----------------------------------------------------------------------------
(* The order of the search.                                                *)

LEMMA JoinedTwoElements ==
  ASSUME NEW S, NEW s \in Seq(S), NEW t \in Seq(S), NEW p, p = s \o t
  PROVE  /\ p \in Seq(S) /\ Len(p) = Len(s) + Len(t)
         /\ \A i \in 1..Len(s) : i \in 1..Len(p) /\ p[i] = s[i]
         /\ \A i \in 1..Len(t) : Len(s) + i \in 1..Len(p) /\ p[Len(s) + i] = t[i]
<1>1. /\ p \in Seq(S) /\ Len(p) = Len(s) + Len(t)
      /\ \A i \in 1..(Len(s) + Len(t)) : p[i] = IF i <= Len(s) THEN s[i] ELSE t[i - Len(s)]
  BY ConcatProperties, Zenon
<1>2. Len(s) \in Nat /\ Len(t) \in Nat
  OBVIOUS
<1>3. ASSUME NEW i \in 1..Len(t)
      PROVE  Len(s) + i \in 1..Len(p) /\ p[Len(s) + i] = t[i]
  <2>1. Len(s) + i \in 1..(Len(s) + Len(t)) /\ ~(Len(s) + i <= Len(s)) /\ (Len(s) + i) - Len(s) = i
    BY <1>2
  <2>. QED
    BY <1>1, <2>1
<1>. QED
  BY <1>1, <1>2, <1>3

LEMMA JoinedThreeElements ==
  ASSUME NEW S, NEW s \in Seq(S), NEW t \in Seq(S), NEW u \in Seq(S), NEW p, p = s \o t \o u
  PROVE  /\ p \in Seq(S) /\ Len(p) = Len(s) + Len(t) + Len(u)
         /\ \A i \in 1..Len(s) : i \in 1..Len(p) /\ p[i] = s[i]
         /\ \A i \in 1..Len(t) : Len(s) + i \in 1..Len(p) /\ p[Len(s) + i] = t[i]
         /\ \A i \in 1..Len(u) : Len(s) + Len(t) + i \in 1..Len(p) /\ p[Len(s) + Len(t) + i] = u[i]
<1>1. PICK st : st = s \o t
  OBVIOUS
<1>2. /\ st \in Seq(S) /\ Len(st) = Len(s) + Len(t)
      /\ \A i \in 1..Len(s) : i \in 1..Len(st) /\ st[i] = s[i]
      /\ \A i \in 1..Len(t) : Len(s) + i \in 1..Len(st) /\ st[Len(s) + i] = t[i]
  BY <1>1, JoinedTwoElements
<1>3. st \in Seq(S) /\ p = st \o u
  BY <1>1, <1>2
<1>4. /\ p \in Seq(S) /\ Len(p) = Len(st) + Len(u)
      /\ \A i \in 1..Len(st) : i \in 1..Len(p) /\ p[i] = st[i]
      /\ \A i \in 1..Len(u) : Len(st) + i \in 1..Len(p) /\ p[Len(st) + i] = u[i]
  BY <1>3, JoinedTwoElements
<1>. QED
  BY <1>2, <1>4, Zenon

LEMMA JoinedFourElements ==
  ASSUME NEW S, NEW s \in Seq(S), NEW t \in Seq(S), NEW u \in Seq(S), NEW v \in Seq(S),
         NEW p, p = s \o t \o u \o v
  PROVE  /\ p \in Seq(S) /\ Len(p) = Len(s) + Len(t) + Len(u) + Len(v)
         /\ \A i \in 1..Len(s) : i \in 1..Len(p) /\ p[i] = s[i]
         /\ \A i \in 1..Len(t) : Len(s) + i \in 1..Len(p) /\ p[Len(s) + i] = t[i]
         /\ \A i \in 1..Len(u) : Len(s) + Len(t) + i \in 1..Len(p) /\ p[Len(s) + Len(t) + i] = u[i]
         /\ \A i \in 1..Len(v) : /\ Len(s) + Len(t) + Len(u) + i \in 1..Len(p)
                                 /\ p[Len(s) + Len(t) + Len(u) + i] = v[i]
<1>1. PICK st : st = s \o t \o u
  OBVIOUS
<1>2. /\ st \in Seq(S) /\ Len(st) = Len(s) + Len(t) + Len(u)
      /\ \A i \in 1..Len(s) : i \in 1..Len(st) /\ st[i] = s[i]
      /\ \A i \in 1..Len(t) : Len(s) + i \in 1..Len(st) /\ st[Len(s) + i] = t[i]
      /\ \A i \in 1..Len(u) : Len(s) + Len(t) + i \in 1..Len(st) /\ st[Len(s) + Len(t) + i] = u[i]
  BY <1>1, JoinedThreeElements
<1>3. st \in Seq(S) /\ p = st \o v
  BY <1>1, <1>2
<1>4. /\ p \in Seq(S) /\ Len(p) = Len(st) + Len(v)
      /\ \A i \in 1..Len(st) : i \in 1..Len(p) /\ p[i] = st[i]
      /\ \A i \in 1..Len(v) : Len(st) + i \in 1..Len(p) /\ p[Len(st) + i] = v[i]
  BY <1>3, JoinedTwoElements
<1>. QED
  BY <1>2, <1>4, Zenon

\* How many places are searched before the group g.
Offset(f, g) ==
  IF g = 1 THEN 0
  ELSE IF g = 2 THEN Len(Groups(f)[1])
  ELSE IF g = 3 THEN Len(Groups(f)[1]) + Len(Groups(f)[2])
  ELSE IF g = 4 THEN Len(Groups(f)[1]) + Len(Groups(f)[2]) + Len(Groups(f)[3])
  ELSE Len(Groups(f)[1]) + Len(Groups(f)[2]) + Len(Groups(f)[3]) + Len(Groups(f)[4]) + 1

\* The position in Places of the place with rank r.
Position(f, r) == Offset(f, r[1]) + r[2]

LEMMA GroupsType ==
  ASSUME NEW f \in File
  PROVE  /\ Groups(f)[1] = Facts[f].configPaths /\ Groups(f)[2] = RPaths(f)
         /\ Groups(f)[3] = MoreLibs(f) /\ Groups(f)[4] = Facts[f].runPaths
         /\ Groups(f)[5] = << >> /\ Groups(f)[6] = ScanDefaultLibs
         /\ \A g \in 1..6 : Groups(f)[g] \in Seq(Dir) /\ Len(Groups(f)[g]) \in Nat
<1>1. /\ Groups(f)[1] = Facts[f].configPaths /\ Groups(f)[2] = RPaths(f)
      /\ Groups(f)[3] = MoreLibs(f) /\ Groups(f)[4] = Facts[f].runPaths
      /\ Groups(f)[5] = << >> /\ Groups(f)[6] = ScanDefaultLibs
  BY DEF Groups, RPaths, MoreLibs
<1>2. << >> \in Seq(Dir) /\ ScanDefaultLibs \in Seq(Dir)
  BY PathAssumption
<1>3. /\ Groups(f)[1] \in Seq(Dir) /\ Groups(f)[2] \in Seq(Dir) /\ Groups(f)[3] \in Seq(Dir)
      /\ Groups(f)[4] \in Seq(Dir) /\ Groups(f)[5] \in Seq(Dir) /\ Groups(f)[6] \in Seq(Dir)
  BY <1>1, <1>2, FactsType, Zenon
<1>4. \A s \in Seq(Dir) : Len(s) \in Nat
  OBVIOUS
<1>5. ASSUME NEW g \in 1..6
      PROVE  Groups(f)[g] \in Seq(Dir)
  <2>1. g = 1 \/ g = 2 \/ g = 3 \/ g = 4 \/ g = 5 \/ g = 6
    OBVIOUS
  <2>. QED
    BY <1>3, <2>1, Zenon
<1>. QED
  BY <1>1, <1>4, <1>5, Zenon

\* A rank is that of the cache, or that of a directory in one of five groups.
LEMMA RankCases ==
  ASSUME NEW f \in File, NEW r \in Ranks(f)
  PROVE  \/ r = <<5, 0>>
         \/ \E g \in {1, 2, 3, 4, 6} : \E i \in 1..Len(Groups(f)[g]) : r = <<g, i>>
<1>. SUFFICES ASSUME r # <<5, 0>>
              PROVE  \E g \in {1, 2, 3, 4, 6} : \E i \in 1..Len(Groups(f)[g]) : r = <<g, i>>
  OBVIOUS
<1>1. PICK g \in 1..6 : r \in {g} \X (1..Len(Groups(f)[g]))
  BY DEF Ranks
<1>2. PICK i \in 1..Len(Groups(f)[g]) : r = <<g, i>>
  BY <1>1
<1>3. g # 5
  BY <1>2, GroupsType
<1>. QED
  BY <1>2, <1>3

\* Positions follow ranks.
LEMMA PositionsAreOrdered ==
  ASSUME NEW f \in File, NEW a \in Ranks(f), NEW b \in Ranks(f), Position(f, a) <= Position(f, b)
  PROVE  a = b \/ Before(a, b)
<1>1. PICK l1 \in Nat, l2 \in Nat, l3 \in Nat, l4 \in Nat, l6 \in Nat :
        /\ l1 = Len(Groups(f)[1]) /\ l2 = Len(Groups(f)[2]) /\ l3 = Len(Groups(f)[3])
        /\ l4 = Len(Groups(f)[4]) /\ l6 = Len(Groups(f)[6])
  <2>1. 1 \in 1..6 /\ 2 \in 1..6 /\ 3 \in 1..6 /\ 4 \in 1..6 /\ 6 \in 1..6
    OBVIOUS
  <2>. QED
    BY <2>1, GroupsType, Zenon
<1>2. ASSUME NEW r \in Ranks(f)
      PROVE  /\ r = <<r[1], r[2]>> /\ r[1] \in 1..6 /\ r[2] \in Nat
             /\ r[1] = 1 => r[2] \in 1..l1 /\ Position(f, r) = r[2]
             /\ r[1] = 2 => r[2] \in 1..l2 /\ Position(f, r) = l1 + r[2]
             /\ r[1] = 3 => r[2] \in 1..l3 /\ Position(f, r) = l1 + l2 + r[2]
             /\ r[1] = 4 => r[2] \in 1..l4 /\ Position(f, r) = l1 + l2 + l3 + r[2]
             /\ r[1] = 5 => r[2] = 0 /\ Position(f, r) = l1 + l2 + l3 + l4 + 1
             /\ r[1] = 6 => r[2] \in 1..l6 /\ Position(f, r) = l1 + l2 + l3 + l4 + 1 + r[2]
  <2>1. CASE r = <<5, 0>>
    BY <1>1, <2>1 DEF Position, Offset
  <2>2. ASSUME NEW g \in {1, 2, 3, 4, 6}, NEW i \in 1..Len(Groups(f)[g]), r = <<g, i>>
        PROVE  /\ r = <<r[1], r[2]>> /\ r[1] \in 1..6 /\ r[1] # 5 /\ r[2] \in Nat
               /\ r[1] = 1 => r[2] \in 1..l1 /\ Position(f, r) = r[2]
               /\ r[1] = 2 => r[2] \in 1..l2 /\ Position(f, r) = l1 + r[2]
               /\ r[1] = 3 => r[2] \in 1..l3 /\ Position(f, r) = l1 + l2 + r[2]
               /\ r[1] = 4 => r[2] \in 1..l4 /\ Position(f, r) = l1 + l2 + l3 + r[2]
               /\ r[1] = 6 => r[2] \in 1..l6 /\ Position(f, r) = l1 + l2 + l3 + l4 + 1 + r[2]
    <3>1. r[1] = g /\ r[2] = i /\ Len(Groups(f)[g]) \in Nat /\ i \in Nat
      BY <2>2, GroupsType
    <3>2. Position(f, r) = Offset(f, g) + i
      BY <3>1 DEF Position
    <3>3. g = 1 \/ g = 2 \/ g = 3 \/ g = 4 \/ g = 6
      OBVIOUS
    <3>4. CASE g = 1
      BY <1>1, <2>2, <3>1, <3>2, <3>4 DEF Offset
    <3>5. CASE g = 2
      BY <1>1, <2>2, <3>1, <3>2, <3>5 DEF Offset
    <3>6. CASE g = 3
      BY <1>1, <2>2, <3>1, <3>2, <3>6 DEF Offset
    <3>7. CASE g = 4
      BY <1>1, <2>2, <3>1, <3>2, <3>7 DEF Offset
    <3>8. CASE g = 6
      BY <1>1, <2>2, <3>1, <3>2, <3>8 DEF Offset
    <3>. QED
      BY <3>3, <3>4, <3>5, <3>6, <3>7, <3>8, Zenon
  <2>. QED
    BY <2>1, <2>2, RankCases
<1>3. a[1] < b[1] \/ (a[1] = b[1] /\ a[2] <= b[2])
  BY <1>2
<1>. QED
  BY <1>2, <1>3 DEF Before

\* The places of a bare name, group by group.
LEMMA PlacesByGroup ==
  ASSUME NEW f \in File, NEW n \in Name, n \notin DOMAIN AbsPath
  PROVE  /\ Len(Places(f, n)) = Offset(f, 6) + Len(Groups(f)[6])
         /\ Places(f, n)[Offset(f, 6)] = [map |-> "ldCache", key |-> n]
         /\ \A g \in {1, 2, 3, 4, 6} : \A i \in 1..Len(Groups(f)[g]) :
              Places(f, n)[Offset(f, g) + i] = InLibs(<<Groups(f)[g][i], n>>)
<1>1. PICK c \in Seq(Dir), r \in Seq(Dir), m \in Seq(Dir), u \in Seq(Dir), d \in Seq(Dir) :
        /\ c = Groups(f)[1] /\ r = Groups(f)[2] /\ m = Groups(f)[3] /\ u = Groups(f)[4] /\ d = Groups(f)[6]
  BY GroupsType
<1>2. PICK dirs : dirs = c \o r \o m \o u
  OBVIOUS
<1>3. /\ dirs \in Seq(Dir) /\ Len(dirs) = Len(c) + Len(r) + Len(m) + Len(u)
      /\ \A i \in 1..Len(c) : i \in 1..Len(dirs) /\ dirs[i] = c[i]
      /\ \A i \in 1..Len(r) : Len(c) + i \in 1..Len(dirs) /\ dirs[Len(c) + i] = r[i]
      /\ \A i \in 1..Len(m) : Len(c) + Len(r) + i \in 1..Len(dirs) /\ dirs[Len(c) + Len(r) + i] = m[i]
      /\ \A i \in 1..Len(u) : /\ Len(c) + Len(r) + Len(m) + i \in 1..Len(dirs)
                              /\ dirs[Len(c) + Len(r) + Len(m) + i] = u[i]
  BY <1>2, JoinedFourElements
<1>4. PICK x \in Seq(Place), y \in Seq(Place), z \in Seq(Place) :
        x = InDirs(dirs, n) /\ y = <<[map |-> "ldCache", key |-> n]>> /\ z = InDirs(d, n)
  BY <1>3, InDirsType, LdPlace
<1>5. PICK p : p = x \o y \o z
  OBVIOUS
<1>6. /\ Len(p) = Len(x) + Len(y) + Len(z)
      /\ \A i \in 1..Len(x) : p[i] = x[i]
      /\ \A i \in 1..Len(y) : p[Len(x) + i] = y[i]
      /\ \A i \in 1..Len(z) : p[Len(x) + Len(y) + i] = z[i]
  BY <1>5, JoinedThreeElements, SMTT(30)
<1>7. /\ Len(x) = Len(dirs) /\ Len(y) = 1 /\ Len(z) = Len(d) /\ Len(d) \in Nat /\ Len(dirs) \in Nat
      /\ \A i \in 1..Len(dirs) : x[i] = InLibs(<<dirs[i], n>>)
      /\ y[1] = [map |-> "ldCache", key |-> n]
      /\ \A i \in 1..Len(d) : z[i] = InLibs(<<d[i], n>>)
  BY <1>3, <1>4, InDirsType
<1>8. Places(f, n) = p
  BY <1>1, <1>2, <1>4, <1>5, GroupsType, Zenon DEF Places
<1>9. /\ Len(Places(f, n)) = Len(dirs) + 1 + Len(d)
      /\ \A i \in 1..Len(dirs) : Places(f, n)[i] = InLibs(<<dirs[i], n>>)
      /\ Places(f, n)[Len(dirs) + 1] = [map |-> "ldCache", key |-> n]
      /\ \A i \in 1..Len(d) : Places(f, n)[Len(dirs) + 1 + i] = InLibs(<<d[i], n>>)
  <2>1. 1 \in 1..Len(y) /\ Len(x) + Len(y) = Len(dirs) + 1
    BY <1>7
  <2>2. Len(p) = Len(dirs) + 1 + Len(d)
    BY <1>6, <1>7
  <2>3. \A i \in 1..Len(dirs) : p[i] = InLibs(<<dirs[i], n>>)
    BY <1>6, <1>7, Zenon
  <2>4. p[Len(dirs) + 1] = [map |-> "ldCache", key |-> n]
    <3>1. p[Len(x) + 1] = y[1]
      BY <1>6, <2>1, Zenon
    <3>2. Len(x) = Len(dirs) /\ y[1] = [map |-> "ldCache", key |-> n]
      BY <1>7, Zenon
    <3>. QED
      BY <3>1, <3>2, Zenon
  <2>5. ASSUME NEW i \in 1..Len(d)
        PROVE  p[Len(dirs) + 1 + i] = InLibs(<<d[i], n>>)
    <3>1. i \in 1..Len(z) /\ z[i] = InLibs(<<d[i], n>>)
      BY <1>7, Zenon
    <3>2. p[Len(x) + Len(y) + i] = z[i]
      BY <1>6, <3>1, Zenon
    <3>. QED
      BY <2>1, <3>1, <3>2, Zenon
  <2>. QED
    BY <1>8, <2>2, <2>3, <2>4, <2>5, Zenon
<1>10. Len(c) \in Nat /\ Len(r) \in Nat /\ Len(m) \in Nat /\ Len(u) \in Nat
  OBVIOUS
<1>11. /\ Offset(f, 1) = 0 /\ Offset(f, 2) = Len(c) /\ Offset(f, 3) = Len(c) + Len(r)
       /\ Offset(f, 4) = Len(c) + Len(r) + Len(m) /\ Offset(f, 6) = Len(dirs) + 1
  BY <1>1, <1>3, <1>10 DEF Offset
<1>12. ASSUME NEW i \in 1..Len(c)
       PROVE  Places(f, n)[Offset(f, 1) + i] = InLibs(<<c[i], n>>)
  <2>1. Offset(f, 1) + i = i
    BY <1>11
  <2>2. i \in 1..Len(dirs) /\ dirs[i] = c[i]
    BY <1>3
  <2>. QED
    BY <1>9, <2>1, <2>2
<1>13. ASSUME NEW i \in 1..Len(r)
       PROVE  Places(f, n)[Offset(f, 2) + i] = InLibs(<<r[i], n>>)
  <2>1. Offset(f, 2) + i = Len(c) + i
    BY <1>11
  <2>2. Len(c) + i \in 1..Len(dirs) /\ dirs[Len(c) + i] = r[i]
    BY <1>3
  <2>. QED
    BY <1>9, <2>1, <2>2
<1>14. ASSUME NEW i \in 1..Len(m)
       PROVE  Places(f, n)[Offset(f, 3) + i] = InLibs(<<m[i], n>>)
  <2>1. Offset(f, 3) + i = Len(c) + Len(r) + i
    BY <1>11
  <2>2. Len(c) + Len(r) + i \in 1..Len(dirs) /\ dirs[Len(c) + Len(r) + i] = m[i]
    BY <1>3
  <2>. QED
    BY <1>9, <2>1, <2>2
<1>15. ASSUME NEW i \in 1..Len(u)
       PROVE  Places(f, n)[Offset(f, 4) + i] = InLibs(<<u[i], n>>)
  <2>1. Offset(f, 4) + i = Len(c) + Len(r) + Len(m) + i
    BY <1>11
  <2>2. Len(c) + Len(r) + Len(m) + i \in 1..Len(dirs) /\ dirs[Len(c) + Len(r) + Len(m) + i] = u[i]
    BY <1>3
  <2>. QED
    BY <1>9, <2>1, <2>2
<1>16. \A i \in 1..Len(d) : Places(f, n)[Offset(f, 6) + i] = InLibs(<<d[i], n>>)
  BY <1>9, <1>11, Zenon
<1>17. ASSUME NEW g \in {1, 2, 3, 4, 6}, NEW i \in 1..Len(Groups(f)[g])
       PROVE  Places(f, n)[Offset(f, g) + i] = InLibs(<<Groups(f)[g][i], n>>)
  <2>1. g = 1 \/ g = 2 \/ g = 3 \/ g = 4 \/ g = 6
    OBVIOUS
  <2>2. CASE g = 1
    BY <1>1, <1>12, <2>2, Zenon
  <2>3. CASE g = 2
    BY <1>1, <1>13, <2>3, Zenon
  <2>4. CASE g = 3
    BY <1>1, <1>14, <2>4, Zenon
  <2>5. CASE g = 4
    BY <1>1, <1>15, <2>5, Zenon
  <2>6. CASE g = 6
    BY <1>1, <1>16, <2>6, Zenon
  <2>. QED
    BY <2>1, <2>2, <2>3, <2>4, <2>5, <2>6, Zenon
<1>. QED
  BY <1>1, <1>9, <1>11, <1>17, Zenon

\* A rank's place is at its position, and every position has a rank.
LEMMA RanksArePositions ==
  ASSUME NEW f \in File, NEW n \in Name, n \notin DOMAIN AbsPath
  PROVE  /\ \A r \in Ranks(f) : /\ Position(f, r) \in 1..Len(Places(f, n))
                                 /\ Places(f, n)[Position(f, r)] = RankedPlace(f, n, r)
         /\ \A j \in 1..Len(Places(f, n)) : \E r \in Ranks(f) : Position(f, r) = j
<1>1. PICK l1 \in Nat, l2 \in Nat, l3 \in Nat, l4 \in Nat, l6 \in Nat :
        /\ l1 = Len(Groups(f)[1]) /\ l2 = Len(Groups(f)[2]) /\ l3 = Len(Groups(f)[3])
        /\ l4 = Len(Groups(f)[4]) /\ l6 = Len(Groups(f)[6])
  <2>1. 1 \in 1..6 /\ 2 \in 1..6 /\ 3 \in 1..6 /\ 4 \in 1..6 /\ 6 \in 1..6
    OBVIOUS
  <2>. QED
    BY <2>1, GroupsType, Zenon
<1>2. /\ Offset(f, 1) = 0 /\ Offset(f, 2) = l1 /\ Offset(f, 3) = l1 + l2
      /\ Offset(f, 4) = l1 + l2 + l3 /\ Offset(f, 5) = l1 + l2 + l3 + l4 + 1
      /\ Offset(f, 6) = l1 + l2 + l3 + l4 + 1
  BY <1>1 DEF Offset
<1>3. Len(Places(f, n)) = l1 + l2 + l3 + l4 + 1 + l6
  BY <1>1, <1>2, PlacesByGroup
<1>4. \A g \in {1, 2, 3, 4, 6} : \A i \in 1..Len(Groups(f)[g]) :
        Places(f, n)[Offset(f, g) + i] = InLibs(<<Groups(f)[g][i], n>>)
  BY PlacesByGroup
<1>5. ASSUME NEW r \in Ranks(f)
      PROVE  /\ Position(f, r) \in 1..Len(Places(f, n))
             /\ Places(f, n)[Position(f, r)] = RankedPlace(f, n, r)
  <2>1. CASE r = <<5, 0>>
    <3>1. Position(f, r) = Offset(f, 6)
      BY <1>2, <2>1 DEF Position
    <3>2. RankedPlace(f, n, r) = [map |-> "ldCache", key |-> n]
      BY <2>1 DEF RankedPlace
    <3>. QED
      BY <1>2, <1>3, <3>1, <3>2, PlacesByGroup
  <2>2. ASSUME NEW g \in {1, 2, 3, 4, 6}, NEW i \in 1..Len(Groups(f)[g]), r = <<g, i>>
        PROVE  /\ Position(f, r) \in 1..Len(Places(f, n))
               /\ Places(f, n)[Position(f, r)] = RankedPlace(f, n, r)
    <3>1. Position(f, r) = Offset(f, g) + i
      BY <2>2 DEF Position
    <3>2. RankedPlace(f, n, r) = InLibs(<<Groups(f)[g][i], n>>)
      BY <2>2 DEF RankedPlace
    <3>3. g = 1 \/ g = 2 \/ g = 3 \/ g = 4 \/ g = 6
      OBVIOUS
    <3>4. /\ g = 1 => Len(Groups(f)[g]) = l1 /\ Offset(f, g) = 0
          /\ g = 2 => Len(Groups(f)[g]) = l2 /\ Offset(f, g) = l1
          /\ g = 3 => Len(Groups(f)[g]) = l3 /\ Offset(f, g) = l1 + l2
          /\ g = 4 => Len(Groups(f)[g]) = l4 /\ Offset(f, g) = l1 + l2 + l3
          /\ g = 6 => Len(Groups(f)[g]) = l6 /\ Offset(f, g) = l1 + l2 + l3 + l4 + 1
      BY <1>1, <1>2, Zenon
    <3>5. Offset(f, g) + i \in 1..Len(Places(f, n))
      BY <1>3, <3>3, <3>4
    <3>6. Places(f, n)[Offset(f, g) + i] = InLibs(<<Groups(f)[g][i], n>>)
      BY <1>4
    <3>. QED
      BY <3>1, <3>2, <3>5, <3>6
  <2>. QED
    BY <2>1, <2>2, RankCases
<1>6. /\ <<5, 0>> \in Ranks(f)
      /\ \A g \in 1..6 : \A i \in 1..Len(Groups(f)[g]) : <<g, i>> \in Ranks(f)
  BY DEF Ranks
<1>7. ASSUME NEW g \in 1..6, NEW i \in 1..Len(Groups(f)[g])
      PROVE  \E r \in Ranks(f) : Position(f, r) = Offset(f, g) + i
  <2>1. Position(f, <<g, i>>) = Offset(f, g) + i
    BY DEF Position
  <2>. QED
    BY <1>6, <2>1, Zenon
<1>8. ASSUME NEW j \in 1..Len(Places(f, n))
      PROVE  \E r \in Ranks(f) : Position(f, r) = j
  <2>1. CASE j <= l1
    <3>1. PICK i \in 1..l1 : 0 + i = j
      <4>1. j - (0) \in 1..l1 /\ 0 + (j - (0)) = j
        BY <1>3, <2>1
      <4>. QED
        BY <4>1
    <3>2. i \in 1..Len(Groups(f)[1])
      BY <1>1, <3>1, Zenon
    <3>3. Offset(f, 1) + i = j /\ 1 \in 1..6
      BY <1>2, <3>1
    <3>. QED
      BY <1>7, <3>2, <3>3
  <2>2. CASE l1 < j /\ j <= l1 + l2
    <3>1. PICK i \in 1..l2 : l1 + i = j
      <4>1. j - (l1) \in 1..l2 /\ l1 + (j - (l1)) = j
        BY <1>3, <2>2
      <4>. QED
        BY <4>1
    <3>2. i \in 1..Len(Groups(f)[2])
      BY <1>1, <3>1, Zenon
    <3>3. Offset(f, 2) + i = j /\ 2 \in 1..6
      BY <1>2, <3>1
    <3>. QED
      BY <1>7, <3>2, <3>3
  <2>3. CASE l1 + l2 < j /\ j <= l1 + l2 + l3
    <3>1. PICK i \in 1..l3 : l1 + l2 + i = j
      <4>1. j - (l1 + l2) \in 1..l3 /\ l1 + l2 + (j - (l1 + l2)) = j
        BY <1>3, <2>3
      <4>. QED
        BY <4>1
    <3>2. i \in 1..Len(Groups(f)[3])
      BY <1>1, <3>1, Zenon
    <3>3. Offset(f, 3) + i = j /\ 3 \in 1..6
      BY <1>2, <3>1
    <3>. QED
      BY <1>7, <3>2, <3>3
  <2>4. CASE l1 + l2 + l3 < j /\ j <= l1 + l2 + l3 + l4
    <3>1. PICK i \in 1..l4 : l1 + l2 + l3 + i = j
      <4>1. j - (l1 + l2 + l3) \in 1..l4 /\ l1 + l2 + l3 + (j - (l1 + l2 + l3)) = j
        BY <1>3, <2>4
      <4>. QED
        BY <4>1
    <3>2. i \in 1..Len(Groups(f)[4])
      BY <1>1, <3>1, Zenon
    <3>3. Offset(f, 4) + i = j /\ 4 \in 1..6
      BY <1>2, <3>1
    <3>. QED
      BY <1>7, <3>2, <3>3
  <2>5. CASE j = l1 + l2 + l3 + l4 + 1
    <3>1. Position(f, <<5, 0>>) = j
      BY <1>2, <2>5 DEF Position
    <3>. QED
      BY <1>6, <3>1
  <2>6. CASE l1 + l2 + l3 + l4 + 1 < j
    <3>1. PICK i \in 1..l6 : l1 + l2 + l3 + l4 + 1 + i = j
      <4>1. j - (l1 + l2 + l3 + l4 + 1) \in 1..l6 /\ l1 + l2 + l3 + l4 + 1 + (j - (l1 + l2 + l3 + l4 + 1)) = j
        BY <1>3, <2>6
      <4>. QED
        BY <4>1
    <3>2. i \in 1..Len(Groups(f)[6])
      BY <1>1, <3>1, Zenon
    <3>3. Offset(f, 6) + i = j /\ 6 \in 1..6
      BY <1>2, <3>1
    <3>. QED
      BY <1>7, <3>2, <3>3
  <2>. QED
    BY <2>1, <2>2, <2>3, <2>4, <2>5, <2>6
<1>. QED
  BY <1>5, <1>8

\* After the first call a library is bound to the first place that has it, in
\* the order of ld.so(8) and, within a group, in the order given.
THEOREM FirstPlaceWins == Spec => []BoundToFirst
<1>1. IInv => BoundToFirst
  <2>. SUFFICES ASSUME IInv, at = "returned", pass = 1,
                       NEW k \in DOMAIN bound, k[2] \notin DOMAIN AbsPath
                PROVE  \E b \in Rank(k[1], k[2], bound[k]) :
                         \A r \in Ranks(k[1]) :
                           Holds(RankedPlace(k[1], k[2], r), Facts[k[1]].is32) => b = r \/ Before(b, r)
    BY DEF BoundToFirst
  <2>1. PICK f \in File, n \in Name : f = k[1] /\ n = k[2]
    BY DEF IInv, TypeOK
  <2>2. Hits(f, n) # {} /\ bound[k] = Places(f, n)[FirstHit(f, n)]
    BY <2>1 DEF IInv, BindInv
  <2>3. FirstHit(f, n) \in Hits(f, n) /\ \A j \in Hits(f, n) : FirstHit(f, n) <= j
    BY <2>2, FirstHitIsHit
  <2>4. Hits(f, n) = {i \in 1..Len(Places(f, n)) : Holds(Places(f, n)[i], Facts[f].is32)}
    BY PlacesType DEF Hits
  <2>5. PICK b \in Ranks(f) : Position(f, b) = FirstHit(f, n)
    BY <2>1, <2>3, <2>4, RanksArePositions
  <2>6. b \in Rank(f, n, bound[k])
    BY <2>1, <2>2, <2>5, RanksArePositions DEF Rank
  <2>7. ASSUME NEW r \in Ranks(f), Holds(RankedPlace(f, n, r), Facts[f].is32)
        PROVE  b = r \/ Before(b, r)
    <3>1. Position(f, r) \in Hits(f, n)
      BY <2>1, <2>4, <2>7, RanksArePositions
    <3>2. Position(f, b) <= Position(f, r)
      BY <2>3, <2>5, <3>1
    <3>. QED
      BY <3>2, PositionsAreOrdered
  <2>. QED
    BY <2>1, <2>6, <2>7
<1>. QED
  BY Invariance, <1>1, PTL
=============================================================================
