------------------------------- MODULE Pipeline -------------------------------
(***************************************************************************)
(* main()'s run: parse the installed packages, apply the configuration to  *)
(* them, collect files, resolve, and if that leaves something missing look *)
(* for it in optional dependencies and resolve again.  PacMan, PacMan_Arch *)
(* and the report are modelled here; collecting, resolving and reading an  *)
(* archive are one step each, see FilesCollector, Resolver and Archive.    *)
(*                                                                         *)
(* A batch of the pool is known by what its tasks have done (TaskBatch):   *)
(* tasks are computed in any order, merged one at a time, and after an     *)
(* exception waitAll() throws Abort.                                       *)
(***************************************************************************)
EXTENDS PacManArch, FiniteSets, Functions

CONSTANTS
  Dir,         \* directories of installed packages, in /var/lib/pacman/local
  File, Lib,   \* files with needed libraries; library names
  Dep,         \* names of packages and of what they provide
  Archive,
  ArgsPerExec, \* optional dependencies that fit in a command line
  Inputs       \* the systems and configurations to be checked

ASSUME EmptyAssumption == Empty \notin Dep \cup Archive \cup Dir /\ ArgsPerExec \in Nat /\ IsFiniteSet(File)
ASSUME InputsAssumption ==
  \A in \in Inputs :
    /\ \A d \in Dir :
         /\ DOMAIN in.packages[d] = {"name", "desc", "files"}
         /\ in.packages[d].name \in (Word \cup {Empty}) \X (Word \cup {Empty})
         /\ \A text \in {in.packages[d].desc, in.packages[d].files} : text = NoFile \/ text \in Seq(Line)
    /\ in.addOptDepend \in [Dep -> SUBSET Dep] /\ in.removeOptDepend \in [Dep -> SUBSET Dep]
    /\ in.useOptionalDeps \in BOOLEAN /\ in.noNetwork \in BOOLEAN
    /\ in.needed \in [File -> SUBSET Lib] /\ in.found \subseteq Lib
    /\ \A dep \in Dep : \A output \in in.outputs[dep] :  \* that pacman may give
         Range(output) \subseteq [name : Dep \cup {Empty}, archive : Archive \cup {Empty}]
    /\ in.contents \in [Archive -> SUBSET Lib]

VARIABLES
  in,                 \* the member of Inputs
  pc, pass, thrown,   \* main(); the resolver's pass; a task threw
  task,               \* the current batch: what each task has done
  packagesByName, packagesByProvides, packagesByFilePath1,
  optDepends,         \* Package::optDepends
  files, libs,        \* data.uniqueFilesByPath1, with File::neededLibs; data.libs
  unresolved,         \* data.unresolvedNeededLibNames
  archiveName,        \* data.archiveNamesByOptDepend
  left, asked,        \* optDependsSorted from `it` on; history: `pacman -Sw` commands
  report, status

packageVars == <<packagesByName, packagesByProvides, packagesByFilePath1, optDepends>>
resolveVars == <<files, libs, unresolved>>
depVars == <<archiveName, left, asked>>
exitVars == <<report, status>>
vars == <<in, pc, pass, thrown, task, packageVars, resolveVars, depVars, exitVars>>

NoReport == [groups |-> << >>, packages |-> 0, assigned |-> 0, unassigned |-> 0]

Init ==
  /\ in \in Inputs
  /\ pc = "parse" /\ pass = 1 /\ thrown = FALSE
  /\ task = [d \in Dir |-> "todo"]
  /\ packagesByName = << >> /\ packagesByProvides = << >> /\ packagesByFilePath1 = << >>
  /\ optDepends = << >>
  /\ files = << >> /\ libs = {} /\ unresolved = {}
  /\ archiveName = << >> /\ left = {} /\ asked = [d \in Dep |-> 0]
  /\ report = NoReport /\ status = 0

\* main()'s catch.
Fail ==
  /\ pc' = "exited" /\ status' = 2
  /\ UNCHANGED <<in, pass, thrown, task, packageVars, resolveVars, depVars, report>>

-----------------------------------------------------------------------------
(* Tasks.                                                                  *)

Doing(label, t, stage) == pc = label /\ ~thrown /\ t \in DOMAIN task /\ task[t] = stage
Becomes(t, stage) == task' = [task EXCEPT ![t] = stage]
Drained == \A t \in DOMAIN task : task[t] = "done"

Throw == thrown' = TRUE /\ UNCHANGED <<task, packageVars>>

Parsed(d) == ParseInstalledPackage(in.packages[d])

ComputePackage(d) ==
  /\ Doing("parse", d, "todo")
  /\ IF Parsed(d) # {}
     THEN Becomes(d, "computed") /\ UNCHANGED <<thrown, packageVars>>
     ELSE Throw
  /\ UNCHANGED <<in, pc, pass, resolveVars, depVars, exitVars>>

\* The values of a new key; the first to come stays.
Inserted(map, keys, value) == [k \in DOMAIN map \cup keys |-> IF k \in DOMAIN map THEN map[k] ELSE value]

\* What was inserted before a throw is of no use to anyone.
MergePackage(d) ==
  /\ Doing("parse", d, "computed")
  /\ \E p \in Parsed(d) :
         IF p.name = Empty \/ p.version = Empty \/ p.name \in DOMAIN packagesByName \/ p.files \cap DOMAIN packagesByFilePath1 # {}
         THEN Throw
         ELSE /\ Becomes(d, "done")
              /\ packagesByName' = Inserted(packagesByName, {p.name}, d)
              /\ packagesByProvides' = Inserted(packagesByProvides, {p.name} \cup p.provides, d)
              /\ packagesByFilePath1' = Inserted(packagesByFilePath1, p.files, d)
              /\ UNCHANGED <<thrown, optDepends>>
  /\ UNCHANGED <<in, pc, pass, resolveVars, depVars, exitVars>>

\* `pacman -Sw --print-format` for one dependency; it may fail.
FindArchive(dep) ==
  /\ Doing("find", dep, "todo")
  /\ Becomes(dep, "done")
  /\ \/ UNCHANGED archiveName
     \/ \E output \in in.outputs[dep] : archiveName' = [archiveName EXCEPT ![dep] = ArchiveFor(dep, output)]
  /\ UNCHANGED <<in, pc, pass, thrown, packageVars, resolveVars, left, asked, exitVars>>

\* Only libraries that were missing are taken from an archive.
ParseArchive(dep) ==
  /\ Doing("process", dep, "todo")
  /\ Becomes(dep, "done")
  /\ libs' = libs \cup (in.contents[archiveName[dep]] \cap unresolved)
  /\ UNCHANGED <<in, pc, pass, thrown, packageVars, files, unresolved, depVars, exitVars>>

\* waitAll(), and the tasks of the next batch.
AwaitPackages ==
  /\ pc = "parse"
  /\ \/ thrown /\ Fail
     \/ /\ ~thrown /\ Drained
        /\ pc' = "configure" /\ task' = << >>
        /\ UNCHANGED <<in, pass, thrown, packageVars, resolveVars, depVars, exitVars>>

WithArchive == {dep \in DOMAIN archiveName : archiveName[dep] # Empty}

AwaitArchiveNames ==
  /\ pc = "find" /\ Drained
  /\ pc' = "process" /\ task' = [dep \in WithArchive |-> "todo"]
  /\ UNCHANGED <<in, pass, thrown, packageVars, resolveVars, depVars, exitVars>>

AwaitArchives ==
  /\ pc = "process" /\ Drained
  /\ pc' = "resolve" /\ pass' = 2 /\ task' = << >>
  /\ UNCHANGED <<in, thrown, packageVars, resolveVars, depVars, exitVars>>

-----------------------------------------------------------------------------
(* main()'s own steps.                                                     *)

Adjusted(p) == (p.optDepends \cup in.addOptDepend[p.name]) \ in.removeOptDepend[p.name]

\* Lines for packages that are not installed are ignored.
Configure ==
  /\ pc = "configure" /\ pc' = "collect"
  /\ optDepends' = [d \in Range(packagesByName) |-> UNION {Adjusted(p) : p \in Parsed(d)}]
  /\ UNCHANGED <<in, pass, thrown, task, packagesByName, packagesByProvides, packagesByFilePath1,
                 resolveVars, depVars, exitVars>>

Collect ==
  /\ pc = "collect"
  /\ \/ Fail
     \/ /\ pc' = "resolve"
        /\ files' = in.needed /\ libs' = in.found
        /\ UNCHANGED <<in, pass, thrown, task, packageVars, unresolved, depVars, exitVars>>

Missing(f) == files[f] \ libs
Problematic == {f \in DOMAIN files : Missing(f) # {}}

AfterResolve ==
  IF Problematic = {} THEN "exited"
  ELSE IF pass = 1 /\ in.useOptionalDeps THEN "optdeps" ELSE "report"

Resolve ==
  /\ pc = "resolve" /\ pc' = AfterResolve
  /\ files' = [f \in Problematic |-> Missing(f)]
  /\ unresolved' = UNION {Missing(f) : f \in DOMAIN files}
  /\ UNCHANGED <<in, pass, thrown, task, packageVars, libs, depVars, exitVars>>

\* Optional dependencies of the packages with problematic files.
Wanted == UNION {optDepends[packagesByFilePath1[f]] : f \in DOMAIN files \cap DOMAIN packagesByFilePath1}

CalculateOptionalDependencies ==
  /\ pc = "optdeps"
  /\ LET deps == Wanted \ DOMAIN packagesByProvides
     IN  /\ archiveName' = [dep \in deps |-> Empty] /\ left' = deps
         /\ pc' = IF deps = {} THEN "report" ELSE "download"
  /\ UNCHANGED <<in, pass, thrown, task, packageVars, resolveVars, asked, exitVars>>

\* Mutant: the dependency that did not fit in a command line is skipped.
Rest_SkipsOne(chunk) ==
  IF left \ chunk = {} THEN {} ELSE (left \ chunk) \ {CHOOSE d \in left \ chunk : TRUE}
Rest(chunk) == left \ chunk

\* Bound: how often a dependency is asked for is counted up to here.
MaxAsked == 2

\* As many dependencies as fit in the command line; without any, or when the
\* user interrupts it, pacman fails.
Download ==
  /\ pc = "download" /\ left # {} /\ ~in.noNetwork
  /\ \/ /\ \E chunk \in SUBSET left :
             /\ chunk # {}
             /\ Cardinality(chunk) = ArgsPerExec \/ (chunk = left /\ Cardinality(left) < ArgsPerExec)
             /\ asked' = [d \in Dep |-> IF d \in chunk /\ asked[d] < MaxAsked THEN asked[d] + 1 ELSE asked[d]]
             /\ left' = Rest(chunk)
        /\ UNCHANGED <<in, pc, pass, thrown, task, packageVars, resolveVars, archiveName, exitVars>>
     \/ Fail

EndOfDownload ==
  /\ pc = "download" /\ (left = {} \/ in.noNetwork)
  /\ pc' = "find" /\ task' = [dep \in DOMAIN archiveName |-> "todo"]
  /\ UNCHANGED <<in, pass, thrown, packageVars, resolveVars, depVars, exitVars>>

Owner(f) == IF f \in DOMAIN packagesByFilePath1 THEN packagesByFilePath1[f] ELSE Empty

\* Mutant: files of no package are left out.
Reported_Assigned == {f \in DOMAIN files : Owner(f) # Empty}
Reported == DOMAIN files

\* dumpErrors(): packages.size() counts the group of unassigned files as well.
DumpErrors ==
  /\ pc = "report" /\ pc' = "exited" /\ status' = 1
  /\ LET groups == [o \in {Owner(f) : f \in Reported} |-> {f \in Reported : Owner(f) = o}]
         unassigned == Cardinality({f \in Reported : Owner(f) = Empty})
     IN  report' = [groups |-> groups, packages |-> Cardinality(DOMAIN groups),
                    assigned |-> Cardinality(DOMAIN files) - unassigned, unassigned |-> unassigned]
  /\ UNCHANGED <<in, pass, thrown, task, packageVars, resolveVars, depVars>>

Exited == pc = "exited" /\ UNCHANGED vars

Tasks ==
  \/ \E d \in Dir : ComputePackage(d) \/ MergePackage(d)
  \/ \E dep \in Dep : FindArchive(dep) \/ ParseArchive(dep)
Main ==
  \/ AwaitPackages \/ Configure \/ Collect \/ Resolve \/ CalculateOptionalDependencies
  \/ Download \/ EndOfDownload \/ AwaitArchiveNames \/ AwaitArchives \/ DumpErrors
Next == Tasks \/ Main \/ Exited

Spec == Init /\ [][Next]_vars

-----------------------------------------------------------------------------
(* What the user may rely on, from the system and the configuration.       *)

Lines(d, section) == LinesOf(in.packages[d].desc, section) \cup LinesOf(in.packages[d].files, section)
Words(d, section) == {Text(l) : l \in Lines(d, section)}
Dependencies(d) == {Dependency(l) : l \in Lines(d, "%OPTDEPENDS%")}
Value(d, section) == ValueOf(in.packages[d].files, section, ValueOf(in.packages[d].desc, section, Empty))
Provided == {in.packages[d].name[1] : d \in Dir} \cup UNION {Words(d, "%PROVIDES%") : d \in Dir}
FilesOf(d) == {Text(l) : l \in {k \in Lines(d, "%FILES%") : ~IsDirectory(k)}}
OwnersOf(f) == {d \in Dir : f \in FilesOf(d)}
Broken == {f \in File : ~(in.needed[f] \subseteq in.found)}

\* The libraries of the system and of the archives found, and the files that
\* they leave incomplete.
LibsOf(deps) == UNION {in.contents[archiveName[dep]] : dep \in deps}
Available == in.found \cup LibsOf(WithArchive)
StillBroken == {f \in File : ~(in.needed[f] \subseteq Available)}

\* pacman's database makes sense.
Coherent ==
  /\ \A d \in Dir :
       LET p == in.packages[d]
       IN  /\ WellFormed(p.desc) /\ WellFormed(p.files)
           /\ p.name = <<Value(d, "%NAME%"), Value(d, "%VERSION%")>> /\ Empty \notin Range(p.name)
  /\ \A d, e \in Dir : d # e => /\ in.packages[d].name[1] # in.packages[e].name[1]
                                /\ FilesOf(d) \cap FilesOf(e) = {}

\* main.cpp:93-94: status 0 says that the system is consistent, 1 that it is
\* not: whether every needed library is on the system or in an archive found,
\* whatever the order of tasks.  A database that makes no sense is an error (2),
\* however its packages are scheduled: nothing is collected or downloaded on
\* the ground of it; and no other database is refused.
StatusIsRight ==
  /\ pc \in {"configure", "exited"} /\ status # 2 => Coherent
  /\ thrown => ~Coherent
  /\ pc = "exited" /\ status # 2 => (status = 0 <=> \A f \in File : in.needed[f] \subseteq Available)

\* What is looked for are the optional dependencies of the packages with
\* problems that no package provides; the configuration adds some and, whatever
\* it adds, removes some.  Each is downloaded once before archives are looked
\* for, or none is (-O, -N).
AsksExactly ==
  /\ pc \in {"download", "find", "process"} =>
       DOMAIN archiveName =
         (UNION {LET name == in.packages[d].name[1]
                 IN  (Dependencies(d) \cup in.addOptDepend[name]) \ in.removeOptDepend[name] :
                 d \in UNION {OwnersOf(f) : f \in Broken}}) \ Provided
  /\ ~in.useOptionalDeps \/ in.noNetwork => \A dep \in Dep : asked[dep] = 0
  /\ pc \in {"find", "process"} /\ ~in.noNetwork =>
       \A dep \in Dep : asked[dep] = IF dep \in DOMAIN archiveName THEN 1 ELSE 0

\* Every file that still misses a library is reported, under the package that
\* owns it.  The last line counts the files of packages and the others as the
\* database has them, and the packages if there are no others: if there are, the
\* number of packages is one too high, because packages.size() counts their
\* group as well (Resolver.cpp:294-295).
ReportsAll ==
  status = 1 =>
    /\ UNION Range(report.groups) = StillBroken
    /\ \A o \in DOMAIN report.groups : \A f \in report.groups[o] : OwnersOf(f) = {o} \ {Empty}
    /\ report.assigned = Cardinality({f \in StillBroken : OwnersOf(f) # {}})
    /\ report.unassigned = Cardinality({f \in StillBroken : OwnersOf(f) = {}})
    /\ report.unassigned = 0 => report.packages = Cardinality(UNION {OwnersOf(f) : f \in StillBroken})
=============================================================================
