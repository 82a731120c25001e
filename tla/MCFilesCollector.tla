-------------------------- MODULE MCFilesCollector --------------------------
(***************************************************************************)
(* A small system:                                                         *)
(*   bin/  prog, tool, readme (not wanted), cycle -> lib/                  *)
(*   lib/  a, a.so -> a, sub/, orphan -> nothing, skipped/ (ignored)       *)
(*   sub/  up -> bin/, hidden (ignored)                                    *)
(*   opt/  b, d, b.so -> b, readme.so -> bin/readme: only a RUNPATH leads   *)
(*         here                                                            *)
(*   own/  c: only `ldconfig -p` knows c; c's RUNPATH is opt/              *)
(*   bad/  loop -> itself                                                  *)
(*   skipped/ s                                                            *)
(***************************************************************************)
EXTENDS FilesCollector, TLC

MCDir == {"bin", "lib", "sub", "opt", "own", "bad", "skipped"}
MCFile == {"prog", "tool", "readme", "a", "b", "c", "d", "hidden", "s"}
MCLink == {"cycle", "a.so", "orphan", "up", "b.so", "readme.so", "alias", "loop"}
MCChildren ==
  "bin" :> {"prog", "tool", "readme", "cycle"} @@ "lib" :> {"a", "a.so", "sub", "orphan", "skipped"}
  @@ "sub" :> {"up", "hidden"} @@ "opt" :> {"b", "b.so", "d", "readme.so"} @@ "own" :> {"c"} @@ "bad" :> {"loop"}
  @@ "skipped" :> {"s"}
MCRealPath ==
  "cycle" :> "lib" @@ "a.so" :> "a" @@ "orphan" :> "Missing" @@ "up" :> "bin"
  @@ "b.so" :> "b" @@ "readme.so" :> "readme" @@ "alias" :> "c"
  @@ "loop" :> "Unresolvable"
MCInode == "bin" :> 1 @@ "lib" :> 2 @@ "sub" :> 3 @@ "opt" :> 4 @@ "own" :> 5 @@ "skipped" :> 6 @@ "bad" :> 8
\* opt/ is a mount point in lib/: readdir() shows the inode below the mount.
MountChildren == [MCChildren EXCEPT !["bin"] = {"prog"}, !["lib"] = {"opt"}]
MountEntryInode == [MCInode EXCEPT !["opt"] = 9]
MCIgnored == {"skipped", "hidden"}
MCWanted == MCFile \ {"readme"}

\* Sections and images.
Other == [type |-> "other"]
Torn == [type |-> "unreadable"]
Dyn(entries) == [type |-> "DYNAMIC", sound |-> TRUE, entries |-> entries]
Unsound(entries) == [Dyn(entries) EXCEPT !.sound = FALSE]
Image(header, is32, sections) == [header |-> header, is32 |-> is32, sections |-> sections]
Abs(to) == [form |-> "absolute", to |-> to]
Origin(to) == [form |-> "$ORIGIN", to |-> to]
RPath(parts) == [tag |-> "RPATH", parts |-> parts]
RunPathOf(parts) == [tag |-> "RUNPATH", parts |-> parts]
Needs(n, form) == [tag |-> "NEEDED", name |-> n, form |-> form]
MCWalk == <<"bin", "">> :> "bin" @@ <<"bin", "/..">> :> "own" @@ <<"bin", "/tool">> :> "tool"

Sound ==
  "prog" :> Image("ET_EXEC", FALSE,
              <<Other, Dyn(<<RunPathOf(<<Abs("opt"), [form |-> "relative", to |-> "own"], Origin("/lost"), Abs("cycle")>>),
                             Needs("a.so", "name"), Needs("x/y", "relative"),
                             RPath(<<Origin(""), Origin("/tool")>>)>>), Other>>)
  @@ "tool" :> Image("ET_DYN", TRUE, <<Other>>)
  @@ "a" :> Image("ET_DYN", FALSE, <<Dyn(<<Needs("b.so", "name"), RunPathOf(<<Abs("sub")>>)>>)>>)
  @@ "b" :> Image("ET_DYN", FALSE, <<Dyn(<<RPath(<<Abs("opt")>>)>>)>>)
  @@ "c" :> Image("ET_DYN", TRUE, <<Dyn(<<RPath(<<Abs("opt")>>)>>)>>)
  @@ "d" :> Image("ET_EXEC", TRUE, <<Dyn(<< >>)>>)
  @@ [f \in {"readme", "hidden", "s"} |-> Image("not ELF", FALSE, << >>)]

\* Each is one thing wrong; the run paths ahead of it are asked for all the same.
Entries1 == <<RunPathOf(<<Abs("opt")>>), Needs("a.so", "name")>>
Damaged ==
  {Image("ET_EXEC", FALSE, <<Dyn(Entries1), Torn>>), Image("ET_DYN", FALSE, <<Dyn(Entries1), Dyn(<< >>)>>),
   Image("ET_DYN", TRUE, <<Torn, Dyn(Entries1)>>), Image("ET_EXEC", FALSE, <<Unsound(Entries1)>>),
   Image("ET_DYN", FALSE, <<Dyn(<<RunPathOf(<<Abs("opt"), Abs("loop"), Abs("own")>>)>> \o Entries1)>>)}
\* A run path at an offset outside the string table, between two that are sound.
NoString ==
  Image("ET_DYN", FALSE,
        <<Dyn(<<RunPathOf(<<Abs("opt")>>), RPath(<<[form |-> "no string"]>>), RunPathOf(<<Abs("own")>>)>> \o Entries1)>>)
Odd == {Image("no handle", FALSE, << >>), Image("bad", TRUE, << >>), Image("object", TRUE, <<Dyn(Entries1)>>)}

MCPathOf ==
  "prog" :> <<"bin", "prog">> @@ "tool" :> <<"bin", "tool">> @@ "readme" :> <<"bin", "readme">>
  @@ "a" :> <<"lib", "a">> @@ "b" :> <<"opt", "b">> @@ "d" :> <<"opt", "d">> @@ "c" :> <<"own", "c">>
  @@ "hidden" :> <<"sub", "hidden">> @@ "s" :> <<"skipped", "s">>
Sp(d) == [dir |-> d, inode |-> MCInode[d]]
Gone == [dir |-> "opt", inode |-> 0]
MCPackageRules == [f \in MCFile |-> IF f = "a" THEN <<Gone>> ELSE << >>]
MCPrefixRules ==
  {[prefix |-> <<"bin">>, paths |-> <<Sp("own"), Gone>>], [prefix |-> <<"bin", "prog">>, paths |-> <<Sp("lib")>>]}
MCScanPaths == <<Sp("bin"), Sp("lib")>>

Row(n, p) == [kind |-> "row", name |-> n, path |-> p]
LastLine == [kind |-> "last"]
Rows == <<Row("a", "a.so"), Row("c", "alias"), Row("gone", "orphan"), Row("a", "b.so")>>
Output(count, lines) == [count |-> count, lines |-> lines]
Good == Output(4, Append(Rows, LastLine))
Outputs == {Output(4, Rows), Output(5, Rows), Output(4, Rows \o <<LastLine, LastLine>>), Output(-1, << >>),
            Output(1, <<[kind |-> "unparsable"]>>), Output(1, <<Row("l", "loop")>>), Output(0, << >>)}

MCSystems ==
  {[image |-> Sound, ldconfig |-> o] : o \in Outputs \cup {Good}}
  \cup {[image |-> [Sound EXCEPT !["prog"] = c], ldconfig |-> Good] : c \in Damaged \cup {NoString}}
  \cup {[image |-> [Sound EXCEPT !["a"] = c, !["b"] = c], ldconfig |-> Good] : c \in Damaged \cup Odd}
  \cup {[image |-> [Sound EXCEPT !["b"] = Image("ET_DYN", TRUE, <<Dyn(<<RunPathOf(<<Abs("bad")>>)>>)>>)], ldconfig |-> Good]}
  \cup {[image |-> [Sound EXCEPT !["prog"].is32 = TRUE, !["a"].is32 = TRUE], ldconfig |-> Good]}
MountSystems == {[image |-> Sound, ldconfig |-> Good]}

\* Inode numbers identify directories in the first system, not with the mount.
ASSUME InodesIdentify == OneFileSystem <=> EntryInode = MCInode
=============================================================================
