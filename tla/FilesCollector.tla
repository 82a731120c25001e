--------------------------- MODULE FilesCollector ---------------------------
(***************************************************************************)
(* FilesCollector: which files of the system are analysed and which of     *)
(* them are libraries.  The main thread walks the directories in the       *)
(* queue; then one task per file found has ELFInspector read it and may    *)
(* add directories to the queue, so that both alternate until nothing new  *)
(* turns up; then `ldconfig -p` adds files and the loop runs again.        *)
(*                                                                         *)
(* Real paths are the members of Dir and File; a symlink is known by the   *)
(* path it was found at.  The file system does not change during a run.    *)
(***************************************************************************)
EXTENDS ELFInspector, FiniteSets

CONSTANTS
  Dir, File, Link,
  Children,     \* [Dir -> SUBSET (Dir \cup File \cup Link)]
  RealPath,     \* [Link -> Dir \cup File \cup {Missing, Unresolvable}]
  Missing,      \* realpath() fails with ENOENT
  Unresolvable, \* realpath() fails otherwise: a cycle of symlinks, no permission
  EntryInode,   \* [Dir -> Nat]: as readdir() of the parent shows it
  StatInode,    \* [Dir -> Nat]: as statx() shows it; differs at a mount point
  Ignored,      \* paths that a pattern of ctx.ignoreFiles matches
  Wanted,       \* files with an x-permission or a name like a library
  Systems,      \* [image : [File -> images], ldconfig : what `ldconfig -p` prints]
  Walk,         \* what is at directory \o suffix: partial on Dir \X suffixes of $ORIGIN
  PathOf,       \* [File -> sequences]: path1, in pieces
  PackageRules, \* [File -> Seq(SearchPath)]: addLibPath for the file's package
  PrefixRules,  \* addLibPath for files and directories: {[prefix, paths]}
  ScanPaths     \* scanBins, scanDefaultLibs and scanMoreLibs, in this order

Path == File \cup Link
Nowhere == {Missing, Unresolvable}
\* Inode 0: addLibPath may name a directory that does not exist.
SearchPath == [dir : Dir, inode : Nat]

ASSUME TreeAssumption ==
  /\ IsFiniteSet(Dir) /\ Dir \cap Path = {} /\ File \cap Link = {} /\ (Dir \cup Path) \cap Nowhere = {}
  /\ Wanted \subseteq File
  /\ \A d \in Dir : Children[d] \subseteq Dir \cup Path /\ EntryInode[d] \in Nat /\ StatInode[d] \in Nat
  /\ \A l \in Link : RealPath[l] \in Dir \cup File \cup Nowhere
  /\ \A w \in DOMAIN Walk : Walk[w] \in Dir \cup File \cup Nowhere
  /\ ScanPaths \in Seq(SearchPath)
  /\ \A f \in File : PackageRules[f] \in Seq(SearchPath)
  /\ IsFiniteSet(PrefixRules) /\ \A r \in PrefixRules : r.paths \in Seq(SearchPath)
  /\ \A s \in Systems :
       /\ \A f \in File : IsImage(s.image[f])
       /\ s.ldconfig.count \in Int /\ s.ldconfig.lines \in Seq(Range(s.ldconfig.lines))

VARIABLES
  image, ldconfig, rules, \* chosen at the start: files, ldconfig's output, PrefixRules in some order
  pc, error,       \* the main thread, and what it threw
  second,          \* processQueue() after `ldconfig -p`
  queue, stack,    \* directories asked for; those being read, innermost first
  processedDirs,
  iteration,       \* uniqueFilesAddedByCurrentIteration, whose order nothing depends on
  files,           \* data.uniqueFilesByPath1
  all,             \* allFilesByPath1
  task,            \* the tasks of this iteration
  line, ldCache, libs,
  scanned          \* history: directories whose reading was begun

systemVars == <<image, ldconfig, rules>>
walkVars == <<queue, stack, processedDirs, scanned>>
fileVars == <<iteration, files, all>>
ldVars == <<line, ldCache, libs>>
vars == <<systemVars, pc, error, second, walkVars, fileVars, task, ldVars>>

\* The type invariant.
TypeOK ==
  /\ pc \in {"scan", "inspect", "ldconfig", "fill", "done", "error"}
  /\ error \in {"none", "realpath", "duplicate key", "already inspected", "ldconfig"}
  /\ second \in BOOLEAN
  /\ queue \in Seq(SearchPath)
  /\ stack \in Seq([dir : Dir, todo : SUBSET (Dir \cup Path)])
  /\ DOMAIN files \subseteq File /\ iteration \subseteq DOMAIN files
  /\ DOMAIN all \subseteq Path /\ Range(all) \subseteq DOMAIN files
  /\ DOMAIN task \subseteq iteration
  /\ \A f \in DOMAIN task : task[f].at = "config" => task[f].left \in Seq(SearchPath)
  /\ Range(ldCache) \cup Range(libs) \subseteq DOMAIN files

-----------------------------------------------------------------------------
Init ==
  /\ \E s \in Systems : image = s.image /\ ldconfig = s.ldconfig
  /\ rules \in SetToSeqs(PrefixRules)
  /\ pc = "scan" /\ error = "none" /\ second = FALSE
  /\ queue = ScanPaths /\ stack = << >> /\ processedDirs = {} /\ scanned = {}
  /\ iteration = {} /\ files = << >> /\ all = << >>
  /\ task = << >>
  /\ line = 0 /\ ldCache = << >> /\ libs = << >>

Fail(what) ==
  /\ pc' = "error" /\ error' = what
  /\ UNCHANGED <<second, walkVars, fileVars, task, ldVars>>

(* Walking the directories.                                                *)

Frame(d) == [dir |-> d, todo |-> Children[d]]

\* Mutant: directories that are being read already are entered again.
Refused_Never(d, inode) == d \in Ignored
Refused(d, inode) == d \in Ignored \/ inode \in processedDirs

\* processRecursive(..., DT_DIR): rest is the stack below the new frame.
Enter(d, inode, rest) ==
  IF Refused(d, inode)
  THEN stack' = rest /\ UNCHANGED <<processedDirs, scanned>>
  ELSE /\ processedDirs' = processedDirs \cup {inode}
       /\ scanned' = scanned \cup {d}
       /\ stack' = <<Frame(d)>> \o rest

\* Mutant: queue.front() without queue.pop().
Dequeue_NoPop ==
  /\ pc = "scan" /\ stack = << >> /\ queue # << >>
  /\ UNCHANGED queue
  /\ Enter(Head(queue).dir, Head(queue).inode, << >>)
  /\ UNCHANGED <<pc, error, second, fileVars, task, ldVars>>

Dequeue ==
  /\ pc = "scan" /\ stack = << >> /\ queue # << >>
  /\ queue' = Tail(queue)
  /\ Enter(Head(queue).dir, Head(queue).inode, << >>)
  /\ UNCHANGED <<pc, error, second, fileVars, task, ldVars>>

\* The directory entry c comes next; readdir() gives them in any order.
Reading(c) == pc = "scan" /\ stack # << >> /\ c \in Head(stack).todo
Without(c) == <<[Head(stack) EXCEPT !.todo = @ \ {c}]>> \o Tail(stack)

\* insert() of a map: a key that is there keeps its value.
Insert(map, key, value) ==
  [x \in DOMAIN map \cup {key} |-> IF x \in DOMAIN map THEN map[x] ELSE value]

\* processRegularFileAfterStatx()'s addFile(): a new file, or one found before;
\* WithFile(f) is what it makes of allFilesByPath1.
AddFile(f) ==
  IF f \in DOMAIN files THEN UNCHANGED <<files, iteration>>
  ELSE /\ \E junk \in BOOLEAN : files' = Insert(files, f, Fresh(junk))
       /\ iteration' = iteration \cup {f}
WithFile(f) == IF f \in DOMAIN files THEN all ELSE Insert(all, f, f)
Duplicate(f) == f \notin DOMAIN files /\ f \in DOMAIN all

ReadFile(f) ==
  /\ Reading(f) /\ f \in Wanted \ Ignored
  /\ IF Duplicate(f) THEN Fail("duplicate key")
     ELSE /\ AddFile(f) /\ all' = WithFile(f)
          /\ stack' = Without(f)
          /\ UNCHANGED <<pc, error, second, queue, processedDirs, scanned, task, ldVars>>

SkipFile(f) ==
  /\ Reading(f) /\ f \notin Wanted \ Ignored
  /\ stack' = Without(f)
  /\ UNCHANGED <<pc, error, second, queue, processedDirs, scanned, fileVars, task, ldVars>>

ReadDir(d) ==
  /\ Reading(d)
  /\ Enter(d, EntryInode[d], Without(d))
  /\ UNCHANGED <<pc, error, second, queue, fileVars, task, ldVars>>

\* Only the link's own path is held against ctx.ignoreFiles here.
LinkIs(l, targets) == Reading(l) /\ l \notin Ignored /\ RealPath[l] \in targets

SkipLink(l) ==
  /\ Reading(l) /\ (l \in Ignored \/ RealPath[l] \in {Missing} \cup (File \ Wanted))
  /\ stack' = Without(l)
  /\ UNCHANGED <<pc, error, second, queue, processedDirs, scanned, fileVars, task, ldVars>>

LinkThrows(l) == LinkIs(l, {Unresolvable}) /\ Fail("realpath")

\* Mutant: only the link's path is added.
LinkToFile_Lost(l) ==
  /\ LinkIs(l, Wanted)
  /\ AddFile(RealPath[l]) /\ all' = WithFile(RealPath[l])
  /\ stack' = Without(l)
  /\ UNCHANGED <<pc, error, second, queue, processedDirs, scanned, task, ldVars>>

LinkToFile(l) ==
  /\ LinkIs(l, Wanted)
  /\ IF Duplicate(RealPath[l]) \/ l \in DOMAIN WithFile(RealPath[l]) THEN Fail("duplicate key")
     ELSE /\ AddFile(RealPath[l])
          /\ all' = Insert(WithFile(RealPath[l]), l, RealPath[l])
          /\ stack' = Without(l)
          /\ UNCHANGED <<pc, error, second, queue, processedDirs, scanned, task, ldVars>>

LinkToDir(l) ==
  /\ LinkIs(l, Dir)
  /\ Enter(RealPath[l], StatInode[RealPath[l]], Without(l))
  /\ UNCHANGED <<pc, error, second, queue, fileVars, task, ldVars>>

EndOfDir ==
  /\ pc = "scan" /\ stack # << >> /\ Head(stack).todo = {}
  /\ stack' = Tail(stack)
  /\ UNCHANGED <<pc, error, second, queue, processedDirs, scanned, fileVars, task, ldVars>>

EndOfQueue ==
  /\ pc = "scan" /\ stack = << >> /\ queue = << >>
  /\ IF iteration # {}
     THEN pc' = "inspect" /\ task' = [f \in iteration |-> [at |-> "open", left |-> << >>]]
     ELSE pc' = (IF second THEN "fill" ELSE "ldconfig") /\ UNCHANGED task
  /\ UNCHANGED <<error, second, walkVars, fileVars, ldVars>>

-----------------------------------------------------------------------------
(* The tasks: ELFInspector::processOne_file(), then the configuration.  A  *)
(* push to the queue, under its spinlock, is one step.                     *)

Running(f, at) == pc = "inspect" /\ f \in DOMAIN task /\ task[f].at = at
At(f, at, left) == task' = [task EXCEPT ![f] = [at |-> at, left |-> left]]
InspectUnchanged == UNCHANGED <<pc, error, second, stack, processedDirs, scanned, iteration, all, ldVars>>

Open(f) ==
  /\ Running(f, "open")
  /\ IF image[f].header = "no handle" THEN At(f, "done", << >>) /\ UNCHANGED files
     ELSE IF files[f].isInspected THEN At(f, "threw", << >>) /\ UNCHANGED files
     ELSE At(f, "run paths", RunPathsIn(image[f])) /\ files' = [files EXCEPT ![f] = Headed(@, image[f])]
  /\ UNCHANGED queue /\ InspectUnchanged

\* $ORIGIN is the directory of the file itself.  For what is no string the code
\* constructs a std::string of NULL, which throws where realpath() would.
DirOf(f) == CHOOSE d \in Dir : f \in Children[d]
Target(f, part) ==
  CASE part.form = "absolute" -> IF part.to \in Link THEN RealPath[part.to] ELSE part.to
    [] part.form = "$ORIGIN" -> IF <<DirOf(f), part.to>> \in DOMAIN Walk THEN Walk[DirOf(f), part.to] ELSE Missing
    [] part.form = "relative" -> Missing
    [] part.form = "no string" -> Unresolvable

\* parseRunPath() for one part: what is not an existing directory is skipped,
\* and when realpath() throws, the rest of the file is not read.
RunPath(f) ==
  /\ Running(f, "run paths") /\ task[f].left # << >>
  /\ LET next == Head(task[f].left)
         dir == Target(f, next.part)
     IN  /\ At(f, IF dir = Unresolvable THEN "done" ELSE "run paths", Tail(task[f].left))
         /\ IF dir \notin Dir THEN UNCHANGED <<queue, files>>
            ELSE LET sp == [dir |-> dir, inode |-> StatInode[dir]]
                 IN  /\ queue' = Append(queue, sp)
                     /\ files' = [files EXCEPT ![f][next.list] = Append(@, sp)]
  /\ InspectUnchanged

Applies(prefix, f) == IsPrefix(prefix, PathOf[f])
ConfigPaths(f) ==
  PackageRules[f] \o FlattenSeq([i \in DOMAIN rules |-> IF Applies(rules[i].prefix, f) THEN rules[i].paths ELSE << >>])

\* Needed libraries, the sections behind, and the flags.
EndOfELF(f) ==
  /\ Running(f, "run paths") /\ task[f].left = << >>
  /\ files' = [files EXCEPT ![f] = Flagged([@ EXCEPT !.neededLibs = NeededIn(image[f])], image[f], FALSE)]
  /\ IF files'[f].isDynamicELF THEN At(f, "config", ConfigPaths(f)) ELSE At(f, "done", << >>)
  /\ UNCHANGED queue /\ InspectUnchanged

AddConfigPath(f) ==
  /\ Running(f, "config") /\ task[f].left # << >>
  /\ LET sp == Head(task[f].left)
     IN  /\ queue' = IF sp.inode # 0 THEN Append(queue, sp) ELSE queue
         /\ files' = [files EXCEPT ![f].configPaths = Append(@, sp)]
  /\ At(f, "config", Tail(task[f].left))
  /\ InspectUnchanged

EndOfTask(f) ==
  /\ Running(f, "config") /\ task[f].left = << >>
  /\ At(f, "done", << >>)
  /\ UNCHANGED <<queue, files>> /\ InspectUnchanged

\* Mutant: uniqueFilesAddedByCurrentIteration is not cleared.
WaitAll_KeepsIteration ==
  /\ pc = "inspect" /\ \A f \in DOMAIN task : task[f].at \in {"done", "threw"}
  /\ IF \E f \in DOMAIN task : task[f].at = "threw"
     THEN Fail("already inspected")
     ELSE /\ pc' = "scan" /\ task' = << >>
          /\ UNCHANGED <<error, second, walkVars, iteration, files, all, ldVars>>

\* Mutant: the loop of processQueue() ends after one round of tasks.
WaitAll_LastRound ==
  /\ pc = "inspect" /\ \A f \in DOMAIN task : task[f].at \in {"done", "threw"}
  /\ IF \E f \in DOMAIN task : task[f].at = "threw"
     THEN Fail("already inspected")
     ELSE /\ pc' = (IF second THEN "fill" ELSE "ldconfig") /\ iteration' = {} /\ task' = << >>
          /\ UNCHANGED <<error, second, walkVars, files, all, ldVars>>

\* waitAll() returns when all tasks are over, and throws when one did.
WaitAll ==
  /\ pc = "inspect" /\ \A f \in DOMAIN task : task[f].at \in {"done", "threw"}
  /\ IF \E f \in DOMAIN task : task[f].at = "threw"
     THEN Fail("already inspected")
     ELSE /\ pc' = "scan" /\ iteration' = {} /\ task' = << >>
          /\ UNCHANGED <<error, second, walkVars, files, all, ldVars>>

-----------------------------------------------------------------------------
(* `ldconfig -p`, and data.libs.  Its output is a count, rows, and one     *)
(* more line; line counts those read.                                      *)

LdLines == ldconfig.lines
LdReal(p) == IF p \in Link THEN RealPath[p] ELSE p
LdUnchanged == UNCHANGED <<second, walkVars, task, libs>>

\* The child fails, or the first line has no count (-1).
LdStart ==
  /\ pc = "ldconfig" /\ line = 0
  /\ IF ldconfig.count < 0 THEN Fail("ldconfig")
     ELSE line' = 1 /\ UNCHANGED <<pc, error, fileVars, ldCache>> /\ LdUnchanged

LdRow(targets) ==
  /\ pc = "ldconfig" /\ line \in DOMAIN LdLines
  /\ LdLines[line].kind = "row" /\ LdReal(LdLines[line].path) \in targets

\* Skipped: an orphan symlink, or not a regular file.
LdOther ==
  /\ LdRow(Dir \cup {Missing})
  /\ line' = line + 1
  /\ UNCHANGED <<pc, error, fileVars, ldCache>> /\ LdUnchanged

LdThrows ==
  /\ \/ LdRow({Unresolvable}) /\ Fail("realpath")
     \/ pc = "ldconfig" /\ line \in DOMAIN LdLines /\ LdLines[line].kind = "unparsable" /\ Fail("ldconfig")

\* The key's bitness is File::is32, which a file found here does not have
\* yet; insert() keeps an earlier line.
LdAdd ==
  /\ LdRow(File)
  /\ LET path == LdLines[line].path
         f == LdReal(path)
     IN  /\ IF path \in DOMAIN all \/ f \in DOMAIN all THEN UNCHANGED fileVars
            ELSE AddFile(f) /\ all' = WithFile(f)
         /\ ldCache' = Insert(ldCache, <<LdLines[line].name, files'[f].is32>>, f)
  /\ line' = line + 1
  /\ UNCHANGED <<pc, error>> /\ LdUnchanged

\* The last line is optional; nothing may follow it, and rows must be as many
\* as were announced.
AtLdEnd ==
  /\ pc = "ldconfig" /\ line > 0
  /\ line \in DOMAIN LdLines => LdLines[line].kind = "last"

LdEnd ==
  /\ AtLdEnd
  /\ IF line < Len(LdLines) \/ line - 1 # ldconfig.count THEN Fail("ldconfig")
     ELSE /\ pc' = "scan" /\ second' = TRUE
          /\ UNCHANGED <<error, walkVars, fileVars, task, ldVars>>

LibPaths == {p \in DOMAIN all : files[all[p]].isLib}

Fill ==
  /\ pc = "fill"
  /\ libs' = [k \in {<<p, files[all[p]].is32>> : p \in LibPaths} |-> all[k[1]]]
  /\ pc' = "done" /\ processedDirs' = {} /\ all' = << >>
  /\ UNCHANGED <<error, second, queue, stack, scanned, iteration, files, task, line, ldCache>>

Stopped == pc \in {"done", "error"} /\ UNCHANGED vars

Scan ==
  \/ Dequeue \/ EndOfDir \/ EndOfQueue
  \/ \E f \in File : ReadFile(f) \/ SkipFile(f)
  \/ \E d \in Dir : ReadDir(d)
  \/ \E l \in Link : SkipLink(l) \/ LinkThrows(l) \/ LinkToFile(l) \/ LinkToDir(l)

Task(f) == Open(f) \/ RunPath(f) \/ EndOfELF(f) \/ AddConfigPath(f) \/ EndOfTask(f)

Main == Scan \/ WaitAll \/ LdStart \/ LdOther \/ LdThrows \/ LdAdd \/ LdEnd \/ Fill

Next ==
  /\ Main \/ (\E f \in File : Task(f)) \/ Stopped
  /\ UNCHANGED systemVars

Spec == Init /\ [][Next]_vars

\* The main thread and the workers run; no task waits for another.
Fairness ==
  /\ WF_vars(Main /\ UNCHANGED systemVars)
  /\ \A f \in File : WF_vars(Task(f) /\ UNCHANGED systemVars)
FairSpec == Spec /\ Fairness

-----------------------------------------------------------------------------
(* What should have been collected, from the file system alone.            *)

\* The run paths of f up to one that throws, and the directories they name.
RunPathsRead(f) ==
  LET parts == RunPathsIn(image[f])
      bad == {i \in DOMAIN parts : Target(f, parts[i].part) = Unresolvable}
  IN  IF bad = {} THEN parts ELSE SubSeq(parts, 1, CHOOSE i \in bad : \A j \in bad : i <= j)
RunDirs(f) == {Target(f, p.part) : p \in Range(RunPathsRead(f))} \cap Dir

\* A dynamic ELF file: an executable or shared object with one DYNAMIC
\* section, which is sound, and nothing else that cannot be read.
IsDynamic(f) ==
  LET c == image[f]
      dynamic == {i \in DOMAIN c.sections : c.sections[i].type = "DYNAMIC"}
  IN  /\ c.header \in {"ET_EXEC", "ET_DYN"}
      /\ \A i \in DOMAIN c.sections : c.sections[i].type # "unreadable"
      /\ Cardinality(dynamic) = 1 /\ \A i \in dynamic : c.sections[i].sound
      /\ \A p \in Range(RunPathsIn(c)) : Target(f, p.part) # Unresolvable

ConfigDirs(f) == IF IsDynamic(f) THEN {sp.dir : sp \in {s \in Range(ConfigPaths(f)) : s.inode # 0}} ELSE {}

Entries(dirs) == (UNION {Children[d] : d \in dirs}) \ Ignored
Targets(dirs) == {IF e \in Link THEN RealPath[e] ELSE e : e \in Entries(dirs)}
LdRows == {r \in Range(LdLines) : r.kind = "row"}
FilesIn(dirs) == (Targets(dirs) \cap Wanted) \cup ({LdReal(r.path) : r \in LdRows} \cap File)
RequestedBy(found) == UNION {RunDirs(f) \cup ConfigDirs(f) : f \in found}

\* Directories that are asked for, and those that lie or that links lead below.
Reachable ==
  LET step[n \in 0..Cardinality(Dir)] ==
        IF n = 0 THEN {sp.dir : sp \in {s \in Range(ScanPaths) : s.inode # 0}} \ Ignored
        ELSE LET dirs == step[n - 1]
             IN  dirs \cup (((Targets(dirs) \cap Dir) \cup RequestedBy(FilesIn(dirs))) \ Ignored)
  IN  step[Cardinality(Dir)]

\* Exactly the files below the directories asked for are collected, whatever
\* the order in which tasks ask for directories, readdir() lists them and rules
\* are applied; and an output of ldconfig that breaks off is not taken for whole.
CollectsExactly ==
  pc = "done" =>
    /\ DOMAIN files = FilesIn(Reachable)
    /\ Cardinality({i \in DOMAIN LdLines : LdLines[i].kind = "row"}) = ldconfig.count

DirIn(f, list, p) == IF p.list = list /\ Target(f, p.part) \in Dir THEN <<Target(f, p.part)>> ELSE << >>
ListOf(f, list) == FlattenSeq([i \in DOMAIN RunPathsRead(f) |-> DirIn(f, list, RunPathsRead(f)[i])])
Dirs(paths) == [i \in DOMAIN paths |-> paths[i].dir]

\* The record of f after its inspection.
Inspected(f, record) ==
  /\ record.isDynamicELF <=> IsDynamic(f)
  /\ IF ~IsDynamic(f) THEN ~record.isLib /\ record.configPaths = << >>
     ELSE /\ record.isLib <=> image[f].header = "ET_DYN"
          /\ record.is32 <=> image[f].is32
          /\ Dirs(record.rPaths) = ListOf(f, "rPaths") /\ Dirs(record.runPaths) = ListOf(f, "runPaths")
          /\ record.neededLibs = NeededIn(image[f])
          /\ record.configPaths = ConfigPaths(f)

\* Resolver gets every dynamic ELF file with all that its DYNAMIC section says,
\* in its order; a file that is damaged, before or behind that section, it
\* takes for no ELF file at all, and nothing of the configuration applies to it.
InspectedExactly == pc = "done" => \A f \in DOMAIN files : Inspected(f, files[f])

\* Every path of a library in a directory that was asked for, by a search path of
\* the system or of a file, is a key of data.libs: Resolver looks nowhere else.
LibsComplete ==
  pc = "done" =>
    \A d \in Reachable : \A p \in (Children[d] \cap Path) \ Ignored :
      LET f == LdReal(p)
      IN  f \in Wanted /\ IsDynamic(f) /\ image[f].header = "ET_DYN" => <<p, image[f].is32>> \in DOMAIN libs

\* data.libs maps a path and bitness to the library that this path leads to.
LibsSound ==
  \A k \in DOMAIN libs :
    LET f == libs[k]
    IN  LdReal(k[1]) = f /\ IsDynamic(f) /\ image[f].header = "ET_DYN" /\ image[f].is32 = k[2]

\* data.libs is right and, when Resolver gets it, complete.
LibsExact == LibsSound /\ LibsComplete

\* ELFInspector.cpp:73: "FilesCollector does not scan same dir twice".
DirScannedOnce ==
  [][Len(stack') > Len(stack) => Head(stack').dir \notin scanned]_vars

\* No file is found new, or given to a task, twice.
NoInternalError == error \notin {"duplicate key", "already inspected"}

\* Search paths and symlinks may form cycles; collecting ends all the same.
Terminates == <>(pc \in {"done", "error"})

\* FilesCollector.cpp:300: "will use info from ELFInspector to detect bitness".
LdCacheBitness ==
  pc = "done" => \A k \in DOMAIN ldCache :
    files[ldCache[k]].isDynamicELF => files[ldCache[k]].is32 = k[2]

-----------------------------------------------------------------------------
(* The invariant behind NoInternalError and DirScannedOnce, and what both  *)
(* rely on.                                                                *)

\* Inode numbers identify directories: one file system, nothing mounted in
\* it, and search paths that have not been replaced since they were resolved.
Current == {sp \in SearchPath : sp.inode = StatInode[sp.dir]}
CurrentOrGone == {sp \in SearchPath : sp.inode \in {0, StatInode[sp.dir]}}
OneFileSystem ==
  /\ \A d \in Dir : EntryInode[d] = StatInode[d]
  /\ \A d \in Dir : StatInode[d] # 0
  /\ \A d, e \in Dir : StatInode[d] = StatInode[e] => d = e
  /\ \A d, e \in Dir : d # e => Children[d] \cap Children[e] \cap Link = {}
  /\ ScanPaths \in Seq(Current)
  /\ \A f \in File : PackageRules[f] \in Seq(CurrentOrGone)
  /\ \A r \in PrefixRules : r.paths \in Seq(CurrentOrGone)

\* A directory is entered once, and every request names it by its inode.
WalkInv ==
  /\ scanned \subseteq Dir
  /\ pc # "done" => processedDirs = {StatInode[d] : d \in scanned}
  /\ \A i \in DOMAIN stack : stack[i].dir \in scanned /\ stack[i].todo \subseteq Children[stack[i].dir]
  /\ \A i, j \in DOMAIN stack : stack[i].dir = stack[j].dir => i = j
  /\ queue \in Seq(Current)
  /\ \A f \in DOMAIN task : task[f].at = "config" => task[f].left \in Seq(CurrentOrGone)

\* A symlink is a key once its directory has been read up to and past it.
AllInv ==
  /\ pc # "done" => \A f \in File : f \in DOMAIN all <=> f \in DOMAIN files
  /\ \A l \in Link \cap DOMAIN all :
       /\ \E d \in scanned : l \in Children[d]
       /\ \A i \in DOMAIN stack : l \notin stack[i].todo

\* A file has a task in the iteration that added it, and in no other.
InspectInv ==
  /\ pc \in {"scan", "ldconfig"} => \A f \in iteration : ~files[f].isInspected
  /\ pc \in {"scan", "ldconfig", "fill"} => task = << >>
  /\ pc = "inspect" => DOMAIN task = iteration
  /\ \A f \in DOMAIN task : /\ task[f].at \in {"open", "run paths", "config", "done"}
                            /\ task[f].at = "open" => ~files[f].isInspected

\* What holds with mounts as well: a key leads to the real path.
TypeInv == TypeOK /\ rules \in SetToSeqs(PrefixRules) /\ \A p \in DOMAIN all : all[p] = LdReal(p)
IInv == WalkInv /\ AllInv /\ InspectInv /\ NoInternalError
=============================================================================
