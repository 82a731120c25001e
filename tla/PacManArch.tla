------------------------------ MODULE PacManArch ------------------------------
(***************************************************************************)
(* The texts that PacMan_Arch reads: `desc` and `files` of an installed    *)
(* package, and the output of `pacman -Sw --print-format "%n %l"`.         *)
(*                                                                         *)
(* A line of a package's file is a tuple: << >> is an empty line,          *)
(* <<"x", ":">> has a colon and more behind x, and <<"x", "/">> a '/' at   *)
(* its end.  Longer has the text of such a line as a whole.                *)
(* A line of pacman's output is [name, archive].                           *)
(***************************************************************************)
EXTENDS Integers, Sequences

CONSTANTS
  Empty,    \* no text
  NoFile,   \* contents of what is not a regular file
  Word,     \* what a line may consist of
  Longer    \* [Word \X {":", "/"} -> Word]

Values == {"%NAME%", "%VERSION%"}   \* sections with one line
KnownSections == Values \cup {"%PROVIDES%", "%OPTDEPENDS%", "%FILES%"}
Sections == KnownSections \cup {"%DEPENDS%"}   \* and any other that begins with '%'

ASSUME WordAssumption ==
  /\ Sections \subseteq Word /\ Word \cap {Empty, ":", "/"} = {}
  /\ Longer \in [Word \X {":", "/"} -> Word]

Line == {<< >>} \cup {<<w>> : w \in Word} \cup Word \X {":", "/"}

NewPackage == [name |-> Empty, version |-> Empty, provides |-> {}, optDepends |-> {}, files |-> {}]

Text(line) ==
  CASE line = << >> -> Empty
    [] Len(line) = 1 -> line[1]
    [] Len(line) = 2 -> Longer[line]
\* A description behind ':' is cut off.
Dependency(line) == IF line[Len(line)] = ":" THEN line[1] ELSE Text(line)
IsDirectory(line) == line[Len(line)] = "/"

\* A known section is known by the whole line.
Heading(line) == IF Len(line) = 1 THEN line[1] ELSE Empty

\* A line of a list.
\* Mutant: directories count as files.
Item_Directories(p, section, line) ==
  CASE section = "%PROVIDES%" -> [p EXCEPT !.provides = @ \cup {Text(line)}]
    [] section = "%OPTDEPENDS%" -> [p EXCEPT !.optDepends = @ \cup {Dependency(line)}]
    [] section = "%FILES%" -> [p EXCEPT !.files = @ \cup {Text(line)}]
    [] section \notin KnownSections -> p

Item(p, section, line) ==
  CASE section = "%PROVIDES%" -> [p EXCEPT !.provides = @ \cup {Text(line)}]
    [] section = "%OPTDEPENDS%" -> [p EXCEPT !.optDepends = @ \cup {Dependency(line)}]
    [] section = "%FILES%" /\ ~IsDirectory(line) -> [p EXCEPT !.files = @ \cup {Text(line)}]
    [] section = "%FILES%" /\ IsDirectory(line) -> p
    [] section \notin KnownSections -> p

\* One turn of the loop over the lines of a file; s.expects is what the reader
\* goes on with.  What throws has no result.
ReadLine(s, line) ==
  CASE s.expects = "section" /\ line = << >> -> {s}
    [] s.expects = "section" /\ line # << >> /\ line[1] \in Sections ->
         {[s EXCEPT !.expects = IF Heading(line) \in Values THEN "value" ELSE "item", !.section = Heading(line)]}
    [] s.expects = "value" /\ s.section = "%NAME%" -> {[s EXCEPT !.expects = "blank", !.p.name = Text(line)]}
    [] s.expects = "value" /\ s.section = "%VERSION%" -> {[s EXCEPT !.expects = "blank", !.p.version = Text(line)]}
    [] s.expects \in {"blank", "item"} /\ line = << >> -> {[s EXCEPT !.expects = "section"]}
    [] s.expects = "item" /\ line # << >> -> {[s EXCEPT !.p = Item(@, s.section, line)]}
    [] OTHER -> {}

\* readFile(): what it makes of p.  A file may end only where a section may begin.
ReadFile(p, lines) ==
  LET after[i \in 0 .. Len(lines)] ==
        IF i = 0 THEN {[expects |-> "section", section |-> Empty, p |-> p]}
        ELSE UNION {ReadLine(s, lines[i]) : s \in after[i - 1]}
  IN  IF lines = NoFile THEN {}
      ELSE {s.p : s \in {t \in after[Len(lines)] : t.expects = "section"}}

\* parseInstalledPackage() of a directory [name, desc, files], where the name is
\* the pair before and behind the '-'.
ParseInstalledPackage(dir) ==
  {p \in UNION {ReadFile(q, dir.files) : q \in ReadFile(NewPackage, dir.desc)} :
     <<p.name, p.version>> = dir.name}

\* A line that rPacmanSWPLine does not match.
Unparsed == [name |-> Empty, archive |-> Empty]

\* FindArchiveTask::compute(): the line of that name, or the last one.  archive
\* is Empty in a line whose URL is not in pacman's cache.
ArchiveFor(dep, output) ==
  LET stops == {i \in DOMAIN output : output[i] = Unparsed \/ output[i].name = dep}
      i == IF stops = {} THEN Len(output) ELSE CHOOSE k \in stops : \A j \in stops : k <= j
  IN  IF output = << >> THEN Empty ELSE output[i].archive

-----------------------------------------------------------------------------
(* What such a file means: a section is a paragraph, and its first line    *)
(* says which; one of Values is a line more, empty or not.                 *)

Starts(lines, i) == lines[i] # << >> /\ (i = 1 \/ lines[i - 1] = << >>)
StartsValue(lines, i) == Starts(lines, i) /\ Heading(lines[i]) \in Values

\* Line j is in the paragraph that begins at line h.
InParagraph(lines, h, j) == Starts(lines, h) /\ \A k \in h .. j : lines[k] # << >>

\* The lines of paragraphs under that heading.
LinesOf(lines, section) ==
  {lines[j] : j \in {k \in DOMAIN lines :
     \E h \in 1 .. k - 1 : InParagraph(lines, h, k) /\ Heading(lines[h]) = section}}

\* The last value of a section; without any, the one from before.
ValueOf(lines, section, before) ==
  LET heads == {h \in DOMAIN lines : Starts(lines, h) /\ Heading(lines[h]) = section}
  IN  IF heads = {} THEN before
      ELSE Text(lines[1 + CHOOSE h \in heads : \A k \in heads : k <= h])

WellFormed(lines) ==
  /\ lines # NoFile
  /\ \A i \in DOMAIN lines : Starts(lines, i) => lines[i][1] \in Sections
  /\ \A i \in DOMAIN lines : StartsValue(lines, i) => i + 2 \in DOMAIN lines /\ lines[i + 2] = << >>
  /\ lines # << >> => lines[Len(lines)] = << >>
=============================================================================
