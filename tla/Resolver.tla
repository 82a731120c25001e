------------------------------- MODULE Resolver -------------------------------
(***************************************************************************)
(* Resolver: for every dynamic ELF file, is each library it needs found in *)
(* one of the places that ld.so would look at?  execute() runs once over   *)
(* what FilesCollector found and, if something is missing, once more after *)
(* optional dependencies have added libraries.  One task per file; a task  *)
(* erases the needed libraries that it finds from its own file and only    *)
(* reads the maps of libraries, in the unspecified order of a hash set.    *)
(***************************************************************************)
EXTENDS Integers, Sequences, FiniteSets, Functions

CONSTANTS
  File,
  Name,           \* what DT_NEEDED may say
  AbsPath,        \* [some of Name -> Path]: needed libraries given by absolute path
  Dir,
  Facts,          \* [File -> what FilesCollector and ELFInspector stored]
  Systems,        \* what FilesCollector may leave: data.libs, a partial function on
                  \* Path \X BOOLEAN, and data.ldCache, one on Name \X BOOLEAN
  Additions,      \* what optional dependencies may add to data.libs
  ScanMoreLibs, ScanDefaultLibs

Path == Dir \X Name
FileFacts == [isDynamicELF : BOOLEAN, isLib : BOOLEAN, is32 : BOOLEAN, isSecure : BOOLEAN,
              needed : SUBSET Name,
              configPaths : Seq(Dir), rPaths : Seq(Dir), runPaths : Seq(Dir)]

ASSUME FactsAssumption == Facts \in [File -> FileFacts]
ASSUME PathAssumption ==
  /\ \A n \in DOMAIN AbsPath : AbsPath[n] \in Path
  /\ \A s \in Systems : DOMAIN s.libs \subseteq Path \X BOOLEAN /\ DOMAIN s.ldCache \subseteq Name \X BOOLEAN
  /\ \A a \in Additions : DOMAIN a \subseteq Path \X BOOLEAN
  /\ ScanMoreLibs \in Seq(Dir) /\ ScanDefaultLibs \in Seq(Dir)

VARIABLES
  at,         \* execute(): "ready", "resolving", "returned"
  pass,       \* how many times it was called
  files,      \* data.uniqueFilesByPath1, as [File -> File::neededLibs], partial
  todo,       \* the tasks: the needed libraries that each has still to look for
  libs, ldCache,
  unresolved, \* data.unresolvedNeededLibNames
  bound       \* history: [<<file, name>> -> place it was found at], partial

vars == <<at, pass, files, todo, libs, ldCache, unresolved, bound>>

\* Every place has keys of its own: a path in data.libs, a bare name in ldCache.
Place == [map : {"libs"}, key : Path] \cup [map : {"ldCache"}, key : Name]
InLibs(p) == [map |-> "libs", key |-> p]
InDirs(dirs, n) == [i \in DOMAIN dirs |-> InLibs(<<dirs[i], n>>)]

\* Mutant: the order of ld.so for RPATH is kept although there is a RUNPATH.
RPaths_Always(f) == Facts[f].rPaths
RPaths(f) == IF Facts[f].runPaths = << >> THEN Facts[f].rPaths ELSE << >>

MoreLibs(f) == IF Facts[f].isSecure THEN << >> ELSE ScanMoreLibs

\* Where the task of f looks for n, in this order.
Places(f, n) ==
  IF n \in DOMAIN AbsPath THEN <<InLibs(AbsPath[n])>>
  ELSE InDirs(Facts[f].configPaths \o RPaths(f) \o MoreLibs(f) \o Facts[f].runPaths, n)
         \o <<[map |-> "ldCache", key |-> n]>>
         \o InDirs(ScanDefaultLibs, n)

Holds(place, is32) ==
  <<place.key, is32>> \in DOMAIN (IF place.map = "libs" THEN libs ELSE ldCache)

Hits(f, n) == {i \in DOMAIN Places(f, n) : Holds(Places(f, n)[i], Facts[f].is32)}
FirstHit(f, n) == CHOOSE i \in Hits(f, n) : \A j \in Hits(f, n) : i <= j

\* The type invariant.
TypeOK ==
  /\ at \in {"ready", "resolving", "returned"} /\ pass \in 0..2
  /\ DOMAIN files \subseteq File /\ \A f \in DOMAIN files : files[f] \subseteq Facts[f].needed
  /\ DOMAIN todo \subseteq DOMAIN files /\ \A f \in DOMAIN todo : todo[f] \subseteq files[f]
  /\ DOMAIN libs \subseteq Path \X BOOLEAN /\ DOMAIN ldCache \subseteq Name \X BOOLEAN
  /\ unresolved \subseteq Name
  /\ DOMAIN bound \subseteq File \X Name /\ \A k \in DOMAIN bound : bound[k] \in Place

Init ==
  /\ at = "ready" /\ pass = 0
  /\ files = [f \in File |-> Facts[f].needed]
  /\ todo = << >> /\ bound = << >>
  /\ \E s \in Systems : libs = s.libs /\ ldCache = s.ldCache
  /\ unresolved = {}

Unfinished(f) == Facts[f].isDynamicELF /\ files[f] # {}

\* The first loop of execute(), and addTasks().
Start ==
  /\ at = "ready" /\ pass < 2
  /\ at' = "resolving" /\ pass' = pass + 1
  /\ files' = Restrict(files, {f \in DOMAIN files : Unfinished(f)})
  /\ todo' = files'
  /\ UNCHANGED <<libs, ldCache, unresolved, bound>>

\* One turn of compute()'s loop.  The search ends at the first place that has
\* the name, and the name is erased, whatever file it leads to: the file
\* itself, or one that is no library, is only logged.
Resolve(f, n) ==
  /\ at = "resolving" /\ f \in DOMAIN todo /\ n \in todo[f]
  /\ todo' = [todo EXCEPT ![f] = @ \ {n}]
  /\ IF Hits(f, n) = {} THEN UNCHANGED <<files, bound>>
     ELSE /\ files' = [files EXCEPT ![f] = @ \ {n}]
          /\ bound' = [k \in DOMAIN bound \cup {<<f, n>>} |->
                         IF k = <<f, n>> THEN Places(f, n)[FirstHit(f, n)] ELSE bound[k]]
  /\ UNCHANGED <<at, pass, libs, ldCache, unresolved>>

\* Mutant: the second loop does not wait for the tasks.
Collect_Early ==
  /\ at = "resolving"
  /\ at' = "returned" /\ todo' = << >>
  /\ files' = Restrict(files, {f \in DOMAIN files : files[f] # {}})
  /\ unresolved' = unresolved \cup UNION Range(files)
  /\ UNCHANGED <<pass, libs, ldCache, bound>>

\* waitAll(), then the second loop.
Collect ==
  /\ at = "resolving" /\ \A f \in DOMAIN todo : todo[f] = {}
  /\ at' = "returned" /\ todo' = << >>
  /\ files' = Restrict(files, {f \in DOMAIN files : files[f] # {}})
  /\ unresolved' = unresolved \cup UNION Range(files)
  /\ UNCHANGED <<pass, libs, ldCache, bound>>

\* Between the calls: ParseArchiveTask::merge() inserts, so keys that data.libs
\* has already keep their file.
AddLibs(added) ==
  /\ at = "returned" /\ files # << >> /\ pass < 2
  /\ at' = "ready"
  /\ libs' = [k \in DOMAIN libs \cup DOMAIN added |-> IF k \in DOMAIN libs THEN libs[k] ELSE added[k]]
  /\ UNCHANGED <<pass, files, todo, ldCache, unresolved, bound>>

Finished == at = "returned" /\ (files = << >> \/ pass = 2) /\ UNCHANGED vars

Next ==
  \/ Start \/ Collect
  \/ \E f \in File, n \in Name : Resolve(f, n)
  \/ \E added \in Additions : AddLibs(added)
  \/ Finished

Spec == Init /\ [][Next]_vars

-----------------------------------------------------------------------------
(* What ld.so(8) says, without an order.                                   *)

AllowedDirs(f) ==
  Range(Facts[f].configPaths) \cup Range(Facts[f].runPaths) \cup Range(ScanDefaultLibs)
    \cup (IF Facts[f].runPaths = << >> THEN Range(Facts[f].rPaths) ELSE {})
    \cup (IF Facts[f].isSecure THEN {} ELSE Range(ScanMoreLibs))

Available(f, n) ==
  IF n \in DOMAIN AbsPath THEN <<AbsPath[n], Facts[f].is32>> \in DOMAIN libs
  ELSE \/ \E d \in AllowedDirs(f) : <<<<d, n>>, Facts[f].is32>> \in DOMAIN libs
       \/ <<n, Facts[f].is32>> \in DOMAIN ldCache

\* When execute() returns, the files it reports are those that lack a library
\* and the libraries it reports for them are those that are nowhere: nothing
\* is skipped when the loop erases while it iterates, no task is cut off, and
\* the second call leaves nothing of the first's verdict that is out of date.
MissingOf(f) == {n \in Facts[f].needed : ~Available(f, n)}
ReportsExactly ==
  at = "returned" =>
    /\ DOMAIN files = {f \in File : Facts[f].isDynamicELF /\ MissingOf(f) # {}}
    /\ \A f \in DOMAIN files : files[f] = MissingOf(f)

\* What a file is bound to comes from the first of these groups that has it:
\* configuration, RPATH, LD_LIBRARY_PATH, RUNPATH, ld.so.cache, defaults; within
\* one, from the directory given first.
Groups(f) ==
  <<Facts[f].configPaths, IF Facts[f].runPaths = << >> THEN Facts[f].rPaths ELSE << >>,
    IF Facts[f].isSecure THEN << >> ELSE ScanMoreLibs, Facts[f].runPaths, << >>, ScanDefaultLibs>>
Ranks(f) == {<<5, 0>>} \cup UNION {{g} \X (1..Len(Groups(f)[g])) : g \in 1..6}
RankedPlace(f, n, r) ==
  IF r = <<5, 0>> THEN [map |-> "ldCache", key |-> n] ELSE InLibs(<<Groups(f)[r[1]][r[2]], n>>)
Rank(f, n, place) == {r \in Ranks(f) : place = RankedPlace(f, n, r)}
Before(a, b) == a[1] < b[1] \/ (a[1] = b[1] /\ a[2] < b[2])

BoundToFirst ==
  at = "returned" /\ pass = 1 =>
    \A k \in {k \in DOMAIN bound : k[2] \notin DOMAIN AbsPath} :
      \E b \in Rank(k[1], k[2], bound[k]) :
        \A r \in Ranks(k[1]) :
          Holds(RankedPlace(k[1], k[2], r), Facts[k[1]].is32) => b = r \/ Before(b, r)

-----------------------------------------------------------------------------
(* The invariant behind ReportsExactly and BoundToFirst.                   *)

\* What is no longer asked for is there; nothing removes a library.
KnownInv ==
  \A f \in File : Facts[f].isDynamicELF =>
    \A n \in Facts[f].needed :
      (f \notin DOMAIN files \/ n \notin files[f]) => Available(f, n)

\* What a task passed over without erasing it is nowhere, for as long as
\* data.libs stays as it is.
StageInv ==
  /\ at # "ready" => \A f \in DOMAIN files : Facts[f].isDynamicELF
  /\ at = "resolving" =>
       /\ DOMAIN todo = DOMAIN files
       /\ \A f \in DOMAIN files : \A n \in files[f] \ todo[f] : ~Available(f, n)
  /\ at = "returned" =>
       \A f \in DOMAIN files : files[f] # {} /\ \A n \in files[f] : ~Available(f, n)

\* The first pass works on the data.libs that it began with.
BindInv ==
  /\ pass = 0 => at = "ready" /\ bound = << >>
  /\ pass = 1 /\ at # "ready" =>
       \A k \in DOMAIN bound :
         /\ Hits(k[1], k[2]) # {}
         /\ bound[k] = Places(k[1], k[2])[FirstHit(k[1], k[2])]

IInv == TypeOK /\ KnownInv /\ StageInv /\ BindInv
=============================================================================
