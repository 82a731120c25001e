------------------------------ MODULE MCPipeline ------------------------------
(***************************************************************************)
(* Three packages, four files (one of no package), two missing libraries,  *)
(* three optional dependencies with two archives, in databases that differ *)
(* in one respect each and under 8 configurations.                         *)
(***************************************************************************)
EXTENDS Pipeline, TLC

CONSTANTS d1, d2, d3, f1, f2, f3, f4, usr, lib1, lib2, libc, a1, a2

Desc(name) == << <<"%NAME%">>, <<name>>, << >>, <<"%VERSION%">>, <<"1">>, << >> >>
List(section, items) == << <<section>> >> \o items \o << << >> >>

\* app's files f1, f2 need lib1, lib2; tool's file f3 needs lib2; f4 is of no package.
App == [name |-> <<"app", "1">>,
        desc |-> Desc("app") \o List("%DEPENDS%", << <<"y">> >>)
                 \o List("%OPTDEPENDS%", << <<"x", ":">>, <<"tool">> >>),
        files |-> << << >> >> \o List("%FILES%", << <<usr, "/">>, <<f1>>, <<f2>> >>)]
Tool == [name |-> <<"tool", "1">>,
         desc |-> Desc("tool") \o List("%PROVIDES%", << <<"virtual">> >>) \o << << >> >>
                  \o List("%OPTDEPENDS%", << <<"x">>, <<"y", ":">>, <<"virtual">> >>),
         files |-> List("%FILES%", << <<usr, "/">>, <<f3>> >>)]
Other == [name |-> <<"other", "1">>,
          desc |-> Desc("other") \o List("%PROVIDES%", << <<"virtual">> >>)
                   \o List("%OPTDEPENDS%", << <<"z">> >>),
          files |-> << >>]
Good == (d1 :> App) @@ (d2 :> Tool) @@ (d3 :> Other)

\* Files that cannot be read.
Malformed ==
  {NoFile, << <<"z">> >>, << <<"%FILES%">> >>, << <<"%FILES%">>, <<usr, "/">> >>,
   << <<"%NAME%">>, <<"other">>, <<"z">>, << >> >>, << <<"%VERSION%">>, <<"1">> >>}

BadDatabases ==
  {[Good EXCEPT ![d3].files = text] : text \in Malformed} \cup
  {[Good EXCEPT ![d3] = [name |-> <<Empty, "1">>, files |-> << >>, desc |-> << <<"%VERSION%">>, <<"1">>, << >> >>]],
   [Good EXCEPT ![d3] = [name |-> <<"other", Empty>>, files |-> << >>, desc |-> << <<"%NAME%">>, <<"other">>, << >> >>]],
   [Good EXCEPT ![d3].name = <<"tool", "1">>],
   [Good EXCEPT ![d3].name = <<"tool", "1">>, ![d3].desc = Desc("tool")],
   [Good EXCEPT ![d3].files = List("%FILES%", << <<f1>> >>)]}

\* The last of several values counts, here or in the other file; one may be empty.
OddDatabases ==
  {[Good EXCEPT ![d3].desc = << <<"%NAME%">>, << >>, << >>, <<"%VERSION%">>, <<"2">>, << >> >> \o @],
   [Good EXCEPT ![d3].desc = @ \o << <<"%NAME%">>, << >>, << >> >>],
   [Good EXCEPT ![d3].files = Desc("tool")],
   [Good EXCEPT ![d3] = [name |-> <<"tool", "1">>, desc |-> Other.desc, files |-> Desc("tool")], ![d2].desc = << >>],
   [Good EXCEPT ![d3] = [name |-> <<"x", "1">>, desc |-> Other.desc \o List("%FILES%", << <<f4>> >>), files |-> Desc("x")]],
   [Good EXCEPT ![d3].desc = List("%NAME%", << <<"other">>, <<"%VERSION%">>, << >>, <<"1">> >>)],
   [Good EXCEPT ![d3].files = << <<"%FILES%", ":">>, <<f1>>, << >> >>],
   [Good EXCEPT ![d3].files = List("%FILES%", << <<f1, ":">> >>) \o List("%PROVIDES%", << <<"x", ":">> >>)]}

GoodDatabases ==
  {Good,
   [Good EXCEPT ![d3].files = List("%FILES%", << <<f4>> >>)],
   [Good EXCEPT ![d3].desc = @ \o List("%PROVIDES%", << <<"x">> >>)],
   [Good EXCEPT ![d1].desc = Desc("app"), ![d2].desc = Desc("tool")]}

Needed == (f1 :> {lib1, libc}) @@ (f2 :> {lib2}) @@ (f3 :> {lib2}) @@ (f4 :> {libc})
None == [d \in {"app", "tool", "other", "virtual", "x", "y", "z"} |-> {}]

\* What pacman may print: the dependency among others, another package that
\* provides it, a URL that is not in the cache, a message, nothing.
Printed(n, a) == [name |-> n, archive |-> a]
Outputs ==
  [None EXCEPT !["x"] = {<<Printed("z", Empty), Printed("x", a1), Printed("y", a2)>>, <<Printed("tool", a1), Printed("z", a2)>>, << >>},
               !["y"] = {<<Printed("x", a1), Printed("y", Empty)>>, <<Printed("y", a2), Unparsed>>,
                         <<Printed("x", a1), Unparsed, Printed("y", a2)>>}]

Input(db, o, n, a, extra, found) ==
  [packages |-> db, useOptionalDeps |-> o, noNetwork |-> n,
   addOptDepend |-> IF a THEN [None EXCEPT !["app"] = {"y", "z"}, !["tool"] = {"z"}, !["x"] = {"z"}] ELSE None,
   removeOptDepend |-> IF a THEN [None EXCEPT !["app"] = {"x", "z"}, !["other"] = {"z"}] ELSE None,
   needed |-> [Needed EXCEPT ![f4] = @ \cup extra], found |-> found, outputs |-> Outputs,
   contents |-> (a1 :> {lib1, libc}) @@ (a2 :> {lib1, lib2})]

MCInputs ==
  {Input(db, TRUE, TRUE, FALSE, {}, {libc}) : db \in BadDatabases \cup OddDatabases} \cup
  {Input(db, o, n, a, extra, found) :
     db \in GoodDatabases, o, n, a \in BOOLEAN, extra \in {{}, {lib2}},
     found \in {{libc}, {libc, lib1, lib2}, {libc, lib2}}}

MCDep == DOMAIN None
MCWord == Sections \cup MCDep \cup File \cup {"1", "2", usr, "longer"}
MCLonger == [line \in MCWord \X {":", "/"} |-> "longer"]
=============================================================================
