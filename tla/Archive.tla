-------------------------------- MODULE Archive --------------------------------
(***************************************************************************)
(* PacMan::ParseArchiveTask: the libraries that a downloaded package would *)
(* add to the system, if they are among those that Resolver misses.  Each  *)
(* archive is read twice: the first pass collects the symlinks, because a  *)
(* link may come before or after what it leads to, and the second unpacks  *)
(* the files that are missing or that a missing link leads to.  Tasks run  *)
(* in parallel; merge(), under the pool's mutex, inserts into data.libs.   *)
(***************************************************************************)
EXTENDS ELFInspector

CONSTANTS
  Archive, Path,
  Batches,     \* sets of archives: what a call of processOptionalDependencies() may find
  Entries,     \* [Archive -> Seq(Entry)]
  NameOf,      \* [Path -> Name]: the last component
  Missing,     \* data.unresolvedNeededLibNames: names and absolute paths
  SystemLibs,  \* data.libs: a partial function on Path \X BOOLEAN
  NoPath,      \* the value of a symlink entry without one
  Outside,     \* normalizePath() throws: the link's value leads beyond the root
  NoTask

\* A link's value is normalised against its directory.  "damaged": libarchive
\* fails at this header; a file that is not intact fails when it is unpacked.
IsEntry(e) ==
  \/ e.type = "link" /\ e.path \in Path /\ e.value \in Path \cup {NoPath, Outside}
  \/ e.type = "file" /\ e.path \in Path /\ e.intact \in BOOLEAN /\ IsImage(e.image)
  \/ e.type = ".PKGINFO" /\ e.parses \in BOOLEAN /\ e.complete \in BOOLEAN
  \/ e.type = "damaged"

ASSUME EntriesAssumption ==
  /\ \A a \in Archive :
       Entries[a] \in Seq(Range(Entries[a])) /\ \A i \in DOMAIN Entries[a] : IsEntry(Entries[a][i])
  /\ DOMAIN SystemLibs \subseteq Path \X BOOLEAN
  /\ NoPath \notin Path /\ NoTask \notin Path \X Path
  /\ Batches \subseteq SUBSET Archive

VARIABLES
  pc,         \* [Archive -> ...]: where the task is
  pos,        \* the next entry of the pass
  links,      \* resolvedPath1BySymlinkPath1
  needed,     \* neededSymlinks
  cursor,     \* onSymlinksDone(): the link it follows and the path it came to
  byFile,     \* neededSymlinksByFilePath1
  found,      \* ParseArchiveTask::libs, with the archive each file is from
  complete,   \* whether p->name and p->version are known
  libs        \* data.libs

passVars == <<links, needed, cursor, byFile>>
vars == <<pc, pos, passVars, found, complete, libs>>

\* The type invariant.
TypeOK ==
  /\ pc \in [Archive -> {"absent", "links", "follow", "files", "merge", "ignored", "merged"}]
  /\ DOMAIN pos = Archive /\ DOMAIN links = Archive /\ DOMAIN needed = Archive /\ DOMAIN cursor = Archive
  /\ DOMAIN byFile = Archive /\ DOMAIN found = Archive /\ DOMAIN complete = Archive
  /\ \A a \in Archive :
       /\ pos[a] \in 1..(Len(Entries[a]) + 1)
       /\ DOMAIN links[a] \subseteq Path /\ Range(links[a]) \subseteq Path
       /\ needed[a] \subseteq Path
       /\ cursor[a] \in {NoTask} \cup (Path \X Path)
       /\ DOMAIN byFile[a] \subseteq Path /\ UNION Range(byFile[a]) \subseteq Path
       /\ DOMAIN found[a] \subseteq Path \X BOOLEAN
       /\ complete[a] \in BOOLEAN
  /\ DOMAIN libs \subseteq Path \X BOOLEAN

\* processOptionalDependencies() makes a task for each archive of the batch.
Init ==
  /\ \E batch \in Batches : pc = [a \in Archive |-> IF a \in batch THEN "links" ELSE "absent"]
  /\ pos = [a \in Archive |-> 1]
  /\ links = [a \in Archive |-> << >>]
  /\ needed = [a \in Archive |-> {}]
  /\ cursor = [a \in Archive |-> NoTask]
  /\ byFile = [a \in Archive |-> << >>]
  /\ found = [a \in Archive |-> << >>]
  /\ complete = [a \in Archive |-> FALSE]
  /\ libs = SystemLibs

-----------------------------------------------------------------------------
\* std::unordered_map::insert(): what is there already stays.
Insert(map, key, value) ==
  [k \in DOMAIN map \cup {key} |-> IF k \in DOMAIN map THEN map[k] ELSE value]
Goto(a, label) == pc' = [pc EXCEPT ![a] = label]

\* onFileIsNeeded_impl().
IsMissing(p) == NameOf[p] \in Missing \/ p \in Missing

Reading(a, label) == pc[a] = label /\ pos[a] \in DOMAIN Entries[a]
ThisEntry(a) == Entries[a][pos[a]]
Advance(a) == pos' = [pos EXCEPT ![a] = @ + 1]

\* scanAll() in the first pass; the archive is given up if that throws.
ScanLink(a) ==
  /\ Reading(a, "links")
  /\ LET e == ThisEntry(a)
     IN  IF e.type = "damaged" \/ (e.type = "link" /\ e.value = Outside)
         THEN Goto(a, "ignored") /\ UNCHANGED <<pos, passVars>>
         ELSE /\ Advance(a)
              /\ IF e.type = "link" /\ e.value # NoPath
                 THEN /\ needed' = [needed EXCEPT ![a] = IF IsMissing(e.path) THEN @ \cup {e.path} ELSE @]
                      /\ links' = [links EXCEPT ![a] = Insert(@, e.path, e.value)]
                 ELSE UNCHANGED <<needed, links>>
              /\ UNCHANGED <<pc, cursor, byFile>>
  /\ UNCHANGED <<found, complete, libs>>

EndOfLinks(a) ==
  /\ pc[a] = "links" /\ pos[a] \notin DOMAIN Entries[a]
  /\ Goto(a, "follow")
  /\ UNCHANGED <<pos, passVars, found, complete, libs>>

\* Mutant: a link that was followed is not done with.
FollowNext_Again(a, p) ==
  /\ pc[a] = "follow" /\ cursor[a] = NoTask /\ p \in needed[a]
  /\ cursor' = [cursor EXCEPT ![a] = <<p, p>>]
  /\ UNCHANGED <<pc, pos, links, needed, byFile, found, complete, libs>>

\* onSymlinksDone(): the set of links is hashed, so any of them may be next.
FollowNext(a, p) ==
  /\ pc[a] = "follow" /\ cursor[a] = NoTask /\ p \in needed[a]
  /\ cursor' = [cursor EXCEPT ![a] = <<p, p>>]
  /\ needed' = [needed EXCEPT ![a] = @ \ {p}]
  /\ UNCHANGED <<pc, pos, links, byFile, found, complete, libs>>

\* Mutant: the links of one chain are followed once.
AtEnd_OneStep(a) == cursor[a][1] # cursor[a][2] \/ cursor[a][2] \notin DOMAIN links[a]
AtEnd(a) == cursor[a][2] \notin DOMAIN links[a]

Follow(a) ==
  /\ pc[a] = "follow" /\ cursor[a] # NoTask /\ ~AtEnd(a)
  /\ cursor' = [cursor EXCEPT ![a][2] = links[a][@]]
  /\ UNCHANGED <<pc, pos, links, needed, byFile, found, complete, libs>>

FollowEnd(a) ==
  /\ pc[a] = "follow" /\ cursor[a] # NoTask /\ AtEnd(a)
  /\ LET file == cursor[a][2]
     IN  byFile' = [byFile EXCEPT ![a] = [f \in DOMAIN @ \cup {file} |->
                      (IF f \in DOMAIN @ THEN @[f] ELSE {}) \cup (IF f = file THEN {cursor[a][1]} ELSE {})]]
  /\ cursor' = [cursor EXCEPT ![a] = NoTask]
  /\ UNCHANGED <<pc, pos, links, needed, found, complete, libs>>

\* onSymlinksDone() returns and clears the links; the second scanAll() begins.
EndOfFollow(a) ==
  /\ pc[a] = "follow" /\ cursor[a] = NoTask /\ needed[a] = {}
  /\ Goto(a, "files") /\ pos' = [pos EXCEPT ![a] = 1]
  /\ links' = [links EXCEPT ![a] = << >>]
  /\ UNCHANGED <<needed, cursor, byFile, found, complete, libs>>

-----------------------------------------------------------------------------
LinksTo(a, p) == IF p \in DOMAIN byFile[a] THEN byFile[a][p] ELSE {}

\* onFileContents(): addLib() for the file and for the links that lead to it.
AddLibs(a, e) ==
  LET f == FromArchive(Fresh(FALSE), e.image)
      paths == IF f.isLib THEN {e.path} \cup LinksTo(a, e.path) ELSE {}
  IN  [k \in DOMAIN found[a] \cup {<<p, f.is32>> : p \in paths} |->
         IF k \in DOMAIN found[a] THEN found[a][k] ELSE <<a, e.path>>]

\* onFileIsNeeded().
IsNeeded(a, e) == e.type = "file" /\ (e.path \in DOMAIN byFile[a] \/ IsMissing(e.path))
Breaks(a, e) ==
  \/ e.type = "damaged"
  \/ e.type = ".PKGINFO" /\ ~e.parses
  \/ IsNeeded(a, e) /\ ~e.intact

\* scanAll() in the second pass.
ScanFile(a) ==
  /\ Reading(a, "files")
  /\ LET e == ThisEntry(a)
     IN  IF Breaks(a, e)
         THEN Goto(a, "ignored") /\ UNCHANGED <<pos, found, complete>>
         ELSE /\ Advance(a)
              /\ complete' = [complete EXCEPT ![a] = @ \/ (e.type = ".PKGINFO" /\ e.complete)]
              /\ IF IsNeeded(a, e)
                 THEN found' = [found EXCEPT ![a] = AddLibs(a, e)]
                 ELSE UNCHANGED found
              /\ UNCHANGED pc
  /\ UNCHANGED <<passVars, libs>>

\* The rest of compute(): p is dropped if its name or version is empty.
EndOfFiles(a) ==
  /\ pc[a] = "files" /\ pos[a] \notin DOMAIN Entries[a]
  /\ Goto(a, IF complete[a] THEN "merge" ELSE "ignored")
  /\ UNCHANGED <<pos, passVars, found, complete, libs>>

\* Mutant: operator[] in place of insert().
Merge_Overwrites(a) ==
  /\ pc[a] = "merge"
  /\ Goto(a, "merged")
  /\ libs' = [k \in DOMAIN libs \cup DOMAIN found[a] |-> IF k \in DOMAIN found[a] THEN found[a][k] ELSE libs[k]]
  /\ found' = [found EXCEPT ![a] = << >>] /\ byFile' = [byFile EXCEPT ![a] = << >>]
  /\ UNCHANGED <<pos, links, needed, cursor, complete>>

\* Keys that data.libs has already keep their file.
Merge(a) ==
  /\ pc[a] = "merge"
  /\ Goto(a, "merged")
  /\ libs' = [k \in DOMAIN libs \cup DOMAIN found[a] |-> IF k \in DOMAIN libs THEN libs[k] ELSE found[a][k]]
  /\ found' = [found EXCEPT ![a] = << >>] /\ byFile' = [byFile EXCEPT ![a] = << >>]
  /\ UNCHANGED <<pos, links, needed, cursor, complete>>

Over(a) == pc[a] \in {"ignored", "merged"}
Batch == {a \in Archive : pc[a] # "absent"}
Finished == (\A a \in Batch : Over(a)) /\ UNCHANGED vars

Step(a) ==
  \/ ScanLink(a) \/ EndOfLinks(a)
  \/ \E p \in Path : FollowNext(a, p)
  \/ Follow(a) \/ FollowEnd(a) \/ EndOfFollow(a)
  \/ ScanFile(a) \/ EndOfFiles(a) \/ Merge(a)

Next == (\E a \in Archive : Step(a)) \/ Finished

Spec == Init /\ [][Next]_vars

\* Threads run while there are tasks to run.  Which task goes on is open: tasks
\* are grouped, one group per thread, and a task only runs when those before it
\* in its group have ended.
FairSpec == Spec /\ WF_vars(\E a \in Archive : Step(a))

-----------------------------------------------------------------------------
(* What an archive holds, as a whole.                                      *)

ByType ==
  [a \in Archive |-> [type \in {"link", "file", ".PKGINFO", "damaged"} |-> {e \in Range(Entries[a]) : e.type = type}]]
EntriesOf(a, type) == ByType[a][type]

\* The paths that lead to p, over any number of links: those in each set that
\* has p and, with a link's value, the link.
WithLinks(a, paths) == \A e \in EntriesOf(a, "link") : e.value \in paths => e.path \in paths
Leading ==
  [a \in Archive |-> [p \in Path |->
     {q \in Path : \A paths \in SUBSET Path : p \in paths /\ WithLinks(a, paths) => q \in paths}]]
LeadingTo(a, p) == Leading[a][p]

\* Both passes come to the end, and the package says what it is.
Undamaged(a) ==
  /\ EntriesOf(a, "damaged") = {}
  /\ \A e \in EntriesOf(a, "link") : e.value # Outside
  /\ \A e \in EntriesOf(a, ".PKGINFO") : e.parses
  /\ \E e \in EntriesOf(a, ".PKGINFO") : e.complete
Readable(a) ==
  /\ Undamaged(a)
  /\ \A e \in EntriesOf(a, "file") : e.intact \/ \A p \in LeadingTo(a, e.path) : ~IsMissing(p)

\* A shared object whose sections can be read up to its DYNAMIC one; that one is
\* not looked into.
IsLib(e) ==
  /\ e.image.header = "ET_DYN"
  /\ \E i \in DOMAIN e.image.sections :
       /\ e.image.sections[i].type = "DYNAMIC"
       /\ \A j \in 1 .. i : e.image.sections[j].type # "unreadable"

\* When the tasks are over, data.libs has every missing library that a readable
\* archive holds, by every missing path that leads to it, wherever in the
\* archive the links are and whichever archive was merged first.
FindsMissing ==
  \A a \in Archive : Over(a) /\ Readable(a) =>
    \A e \in EntriesOf(a, "file") : IsLib(e) =>
      \A p \in LeadingTo(a, e.path) : IsMissing(p) => <<p, e.image.is32>> \in DOMAIN libs

\* The value of a key is an archive and the path of a library in it.
LeadsToLib(value, is32) ==
  \E e \in EntriesOf(value[1], "file") : e.path = value[2] /\ IsLib(e) /\ e.image.is32 = is32

\* A file is unpacked for a missing path that leads to it.  It is known by those
\* paths, and by its own.
Gains(a, p, file) ==
  /\ p \in LeadingTo(a, file)
  /\ IsMissing(p) \/ p = file
  /\ \E q \in LeadingTo(a, file) : IsMissing(q)

\* What data.libs gained leads to a library of that bitness, unpacked for a path
\* that is missing, in an archive that could be read as a whole: of the others,
\* nothing is taken.
NothingElse ==
  \A k \in DOMAIN libs \ DOMAIN SystemLibs :
    /\ Readable(libs[k][1])
    /\ Gains(libs[k][1], k[1], libs[k][2])
    /\ LeadsToLib(libs[k], k[2])

\* data.libs gains the missing libraries, under their missing paths and their
\* own, and nothing else.
FindsExactly == FindsMissing /\ NothingElse

\* A library that is known stays what it is: the system's own come first, then
\* those of the archive merged first.
FirstStays == [][\A k \in DOMAIN libs : k \in DOMAIN libs' /\ libs'[k] = libs[k]]_libs

\* What NothingElse says of the archive and the file, but not of the links.
FromUndamaged ==
  \A k \in DOMAIN libs \ DOMAIN SystemLibs :
    /\ libs[k][1] \in Archive /\ pc[libs[k][1]] = "merged"
    /\ Undamaged(libs[k][1]) /\ LeadsToLib(libs[k], k[2])

LinkPaths(a) == {e.path : e \in {l \in EntriesOf(a, "link") : l.value # NoPath}}
MissingLinks(a) == {p \in LinkPaths(a) : IsMissing(p)}

\* A missing link whose chain has no end, in an archive whose first pass is not
\* given up: onSymlinksDone() follows the chain for ever.
Circular(a) ==
  /\ EntriesOf(a, "damaged") = {} /\ \A e \in EntriesOf(a, "link") : e.value # Outside
  /\ \E p \in MissingLinks(a) : \A end \in Path \ LinkPaths(a) : p \notin LeadingTo(a, end)

\* processOptionalDependencies() comes to its end, damaged archives and cycles of
\* links that no missing one leads into included, unless the batch has an archive
\* with a missing link that leads into a cycle: then waitAll() never returns.
TasksEnd ==
  /\ (\A a \in Batch : ~Circular(a)) => <>(\A a \in Batch : Over(a))
  /\ (\E a \in Batch : Circular(a)) => [](\E a \in Batch : ~Over(a))

-----------------------------------------------------------------------------
(* The invariant behind FromUndamaged.                                     *)

\* What a pass that got beyond an entry says of it.
LinkRead(e) == e.type # "damaged" /\ (e.type = "link" => e.value # Outside)
FileRead(e) == e.type = ".PKGINFO" => e.parses
ReadInv ==
  \A a \in Archive :
    /\ \A i \in DOMAIN Entries[a] :
         /\ pc[a] \in {"follow", "files", "merge", "merged"} \/ (pc[a] = "links" /\ i < pos[a]) => LinkRead(Entries[a][i])
         /\ pc[a] \in {"merge", "merged"} \/ (pc[a] = "files" /\ i < pos[a]) => FileRead(Entries[a][i])
    /\ complete[a] => \E e \in EntriesOf(a, ".PKGINFO") : e.complete
    /\ pc[a] \in {"merge", "merged"} => complete[a]

FoundInv ==
  \A a \in Archive : \A k \in DOMAIN found[a] : found[a][k][1] = a /\ LeadsToLib(found[a][k], k[2])
LibsInv ==
  \A k \in DOMAIN libs \ DOMAIN SystemLibs :
    libs[k][1] \in Archive /\ pc[libs[k][1]] = "merged" /\ LeadsToLib(libs[k], k[2])

IInv == TypeOK /\ ReadInv /\ FoundInv /\ LibsInv

-----------------------------------------------------------------------------
(* The invariant behind FindsExactly.                                      *)

\* A package holds each path once.
EachPathOnce ==
  \A a \in Archive : \A e \in EntriesOf(a, "link") :
    /\ \A d \in EntriesOf(a, "link") : d.path = e.path => d = e
    /\ \A d \in EntriesOf(a, "file") : d.path # e.path

HasValue(e) == e.type = "link" /\ e.value # NoPath
\* What is no link gets the same from p as from q.
SameEnd(a, p, q) == \A g \in Path \ LinkPaths(a) : p \in LeadingTo(a, g) <=> q \in LeadingTo(a, g)

\* The first pass collects the links it came by, and of the missing ones the paths.
LinksOf(a) ==
  /\ pc[a] \in {"links", "follow"} =>
       /\ \A p \in DOMAIN links[a] :
            \E e \in EntriesOf(a, "link") : e.value # NoPath /\ p = e.path /\ links[a][p] = e.value
       /\ \A i \in DOMAIN Entries[a] :
            HasValue(Entries[a][i]) /\ (pc[a] = "links" => i < pos[a]) => Entries[a][i].path \in DOMAIN links[a]
  /\ pc[a] = "links" =>
       /\ cursor[a] = NoTask /\ DOMAIN byFile[a] = {}
       /\ \A i \in DOMAIN Entries[a] :
            HasValue(Entries[a][i]) /\ i < pos[a] /\ IsMissing(Entries[a][i].path) => Entries[a][i].path \in needed[a]

\* A missing link is to be followed, is being followed, or is at its end.
AtFile(a, p) == \E f \in DOMAIN byFile[a] : p \in byFile[a][f]
FollowOf(a) ==
  /\ needed[a] \subseteq MissingLinks(a)
  /\ cursor[a] # NoTask => cursor[a][1] \in MissingLinks(a) /\ SameEnd(a, cursor[a][1], cursor[a][2])
  /\ pc[a] = "follow" =>
       \A p \in MissingLinks(a) : p \in needed[a] \/ (cursor[a] # NoTask /\ p = cursor[a][1]) \/ AtFile(a, p)
  /\ pc[a] \in {"files", "merge"} => \A p \in MissingLinks(a) : AtFile(a, p)
  /\ \A f \in DOMAIN byFile[a] :
       /\ f \notin LinkPaths(a) /\ byFile[a][f] # {}
       /\ \A p \in byFile[a][f] : IsMissing(p) /\ SameEnd(a, p, f)

\* The missing paths by which a file is known.
MissingAt(a, e) == {p \in LeadingTo(a, e.path) : IsMissing(p)}
KeysOf(a, e) == IF IsLib(e) THEN {<<p, e.image.is32>> : p \in MissingAt(a, e)} ELSE {}
FilesOf(a) ==
  /\ \A i \in DOMAIN Entries[a] : pc[a] = "merge" \/ (pc[a] = "files" /\ i < pos[a]) =>
       LET e == Entries[a][i]
       IN  /\ e.type = "file" => (e.intact \/ MissingAt(a, e) = {}) /\ KeysOf(a, e) \subseteq DOMAIN found[a]
           /\ e.type = ".PKGINFO" /\ e.complete => complete[a]
  /\ \A k \in DOMAIN found[a] : Gains(a, k[1], found[a][k][2])

EndOf(a) ==
  /\ pc[a] = "ignored" => ~Readable(a)
  /\ pc[a] = "merged" => Readable(a) /\ \A e \in EntriesOf(a, "file") : KeysOf(a, e) \subseteq DOMAIN libs

LibsLead == \A k \in DOMAIN libs \ DOMAIN SystemLibs : Gains(libs[k][1], k[1], libs[k][2])

ExactOf(a) == LinksOf(a) /\ FollowOf(a) /\ FilesOf(a) /\ EndOf(a)
ExactInv == LibsLead /\ \A a \in Archive : ExactOf(a)
=============================================================================
