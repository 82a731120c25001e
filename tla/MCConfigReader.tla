--------------------------- MODULE MCConfigReader ---------------------------
(***************************************************************************)
(* A system with the directories /, /a, /ab and /b, a link /l to /a, the   *)
(* files /a/f, /a/fg and /ab/f and a link /u to itself.  Three kinds of    *)
(* input: every text of up to MaxText characters over an alphabet in which *)
(* a key is one character; every file of up to two lines from a pool, and  *)
(* of three from those whose order matters; and command lines with         *)
(* environments.                                                           *)
(***************************************************************************)
EXTENDS ConfigReader, TLC

A == <<"/", "a">>
B == <<"/", "b">>
AB == <<"/", "a", "b">>
Below(d, name) == d \o <<"/">> \o name
MCDir(p, n) == [path |-> p, kind |-> "dir", inode |-> n]
MCFile(p, n) == [path |-> p, kind |-> "file", inode |-> n]
MCRealPath ==
  <<"/">> :> MCDir(<<"/">>, 1) @@ A :> MCDir(A, 2) @@ AB :> MCDir(AB, 3) @@ B :> MCDir(B, 4)
  @@ <<"/", "l">> :> MCDir(A, 2)
  @@ Below(A, <<"f">>) :> MCFile(Below(A, <<"f">>), 5)
  @@ Below(A, <<"f", "g">>) :> MCFile(Below(A, <<"f", "g">>), 6)
  @@ Below(AB, <<"f">>) :> MCFile(Below(AB, <<"f">>), 7)
  @@ <<"/", "u">> :> [path |-> <<"/", "u">>, kind |-> "unresolvable", inode |-> 8]

MaxText == 5
Alphabet == {"\n", " ", "=", "#", "scanMoreLibs"}
Texts == UNION {[1 .. n -> Alphabet] : n \in 0 .. MaxText}

L(k, v) == <<k, " ", "=", " ">> \o v \o <<" ", "\n">>
Two(v, w) == v \o <<" ", "\t">> \o w
AllBelow(d) == d \o <<"/", "*", "*">>
Ordered ==
  {<<"#", "=", "\n">>, <<" ", "=", "\n">>, L("scanMoreLibs", Two(A, Two(B, A))), L("scanMoreLibs", <<"/", "l">>),
   L("ignoreFiles", <<"a">>), L("addOptDepend", Two(<<"p">>, <<"q">>)), L("addLibPath", Two(AllBelow(A), B)),
   L("addLibPath", Two(<<"p">>, A))}
Pool == Ordered \cup
  {<<"\n">>, <<"\t", "\r">>, L("scanMoreBins", Two(B, <<"/", "x">>)),
   L("scanMoreLibs", Two(A, <<"a">>)), L("scanMoreLibs", <<"/", "u">>),
   L("ignoreFiles", <<"/", "*", "/", "f", "?">>), L("ignoreFiles", <<"/", "a", "*", "*">>),
   L("ignoreFiles", <<"/", "a", "*">>), L("ignoreFiles", <<"/", "*", "*", "*">>),
   L("addOptDepend", Two(<<"p">>, <<"r">>)),
   L("removeOptDepend", Two(<<"p">>, <<"q">>)), L("removeOptDepend", <<"p">>), L("addOptDepend", Two(A, <<"q">>)),
   L("addLibPath", Two(<<"p">>, <<"/", "x">>)),
   L("addLibPath", Two(AllBelow(<<"/", "l">>), A)), L("addLibPath", Two(AllBelow(<< >>), B)),
   L("addLibPath", Two(Below(A, <<"f">>), B)), L("addLibPath", Two(Below(A, <<"x">>), B)),
   L("addLibPath", Two(A, B)), L("addLibPath", Two(A \o <<"/", "*">>, B)), L("addLibPath", Two(<<"p">>, Below(A, <<"f">>))),
   L("addLibPath", Two(<<"p">>, <<"/", "u">>)), L("addLibPath", Two(A \o <<"/">>, <<"/", "u">>)), L("addLibPath", Two(<<"/", "u">>, B)),
   L("addLibPath", Two(AllBelow(<<"/", "u">>), A)), L("addLibPath", Two(<<"/", "u">>, <<"b">>)),
   L("addLibPath", A), L("other", << >>)}
PoolFiles ==
  UNION {{FlattenSeq(f) : f \in [1 .. n -> Pool]} : n \in 0 .. 2} \cup {FlattenSeq(f) : f \in [1 .. 3 -> Ordered]}

Run(args, env, sample, etc) == [args |-> args, libraryPath |-> env, sample |-> sample, etc |-> etc]
SomeFile == L("scanMoreLibs", Two(B, A))
Arguments == UNION {[1 .. n -> {"q", "v", "O", "N", "operand", "badOption"}] : n \in 0 .. 3}
Environments == {Absent} \cup UNION {[1 .. n -> {":", "/", "a", "b"}] : n \in 0 .. 4}
MCInputs ==
  {Run(<< >>, Absent, Absent, t) : t \in Texts \cup PoolFiles}
  \cup {Run(a, Absent, Absent, SomeFile) : a \in Arguments}
  \cup {Run(<<"W", "C">>, e, s, SomeFile) : e \in Environments, s \in {Absent, Unreadable, << >>}}

MCDefaultBins == <<B, <<"/", "x">>>>
MCDefaultLibs == <<A, <<"/", "l">>, <<"/", "u", "v">>>>
=============================================================================
