---------------------------- MODULE ConfigReader ----------------------------
(***************************************************************************)
(* The first half of main(): command line, default directories,            *)
(* LD_LIBRARY_PATH and the configuration file become the lists and rules   *)
(* that the pipeline reads, or the program exits with status 2.            *)
(***************************************************************************)
EXTENDS IniParser, Wildcards, FiniteSets, SequencesExt

CONSTANTS
  Inputs,       \* [args, libraryPath, sample, etc]
  Absent,       \* no such variable or file
  Unreadable,   \* a file that exists and cannot be read
  DefaultBins, DefaultLibs,
  RealPath      \* strings -> [path, kind, inode] of what exists there

Missing == [path |-> << >>, kind |-> "missing", inode |-> 0]
Kind == {"dir", "file", "missing", "unresolvable"}
At(path) == IF path \in DOMAIN RealPath THEN RealPath[path] ELSE Missing

ASSUME ConfigAssumption ==
  /\ \A p \in DOMAIN RealPath : At(p).kind \in Kind \ {"missing"} /\ At(p).inode > 0
  /\ \A p \in DOMAIN RealPath : At(p).path # << >> /\ Head(At(p).path) = "/"

\* What a program is given is text: without a NUL.
Char == STRING \ {NUL}
ASSUME TextAssumption ==
  /\ \A p \in DOMAIN RealPath : At(p).path \in Seq(Char)
  /\ Absent # Unreadable
  /\ \A in \in Inputs :
       /\ in.args \in Seq(STRING) /\ in.libraryPath \in {Absent} \cup Seq(Char)
       /\ {in.sample, in.etc} \subseteq {Absent, Unreadable} \cup Seq(Char)
  /\ DefaultBins \in Seq(Seq(Char)) /\ DefaultLibs \in Seq(Seq(Char))

VARIABLES
  input,
  pc, error,     \* error is [why, line]: line 0 where there is none
  next,          \* how many arguments or default directories were read
  part,          \* the iterator over parts: a range, and no
  opts, operands,
  lists,         \* scanBins, scanDefaultLibs, scanMoreLibs
  ignoreFiles, addOptDepends, removeOptDepends, packageRules, prefixRules

progressVars == <<input, pc, error, next, part>>
ruleVars == <<ignoreFiles, addOptDepends, removeOptDepends, packageRules, prefixRules>>
settingVars == <<opts, operands, lists, ruleVars>>
vars == <<progressVars, parserVars, settingVars>>

Quiet == -3
Default == -2

NoError == [why |-> "none", line |-> 0]

Init ==
  /\ input \in Inputs
  /\ pc = "args" /\ error = NoError /\ next = 0 /\ part = [begin |-> 1, end |-> 1, no |-> 0]
  /\ InitParser
  /\ opts = [verbosity |-> Default, wideOutput |-> TRUE, useOptionalDeps |-> TRUE,
             noNetwork |-> FALSE, colorize |-> TRUE]
  /\ operands = FALSE
  /\ lists = [k \in {"scanBins", "scanDefaultLibs", "scanMoreLibs"} |-> << >>]
  /\ ignoreFiles = << >> /\ addOptDepends = << >> /\ removeOptDepends = << >>
  /\ packageRules = << >> /\ prefixRules = << >>

Exit2(why, lineNo) ==
  /\ pc' = "exit2" /\ error' = [why |-> why, line |-> lineNo]
  /\ UNCHANGED <<input, next, part, parserVars, settingVars>>

(* The command line.                                                       *)

Option(o) ==
  CASE o = "q" -> [opts EXCEPT !.verbosity = Quiet]
    [] o = "v" -> [opts EXCEPT !.verbosity = Greatest({@, Default}) + 1]
    [] o = "O" -> [opts EXCEPT !.useOptionalDeps = FALSE]
    [] o = "N" -> [opts EXCEPT !.noNetwork = TRUE]
    [] o = "W" -> [opts EXCEPT !.wideOutput = FALSE]
    [] o = "C" -> [opts EXCEPT !.colorize = FALSE]

\* getopt() moves operands behind the options and goes on.
ReadArgument ==
  /\ pc = "args" /\ next < Len(input.args)
  /\ LET arg == input.args[next + 1]
     IN  IF arg = "badOption" THEN Exit2("usage", 0)
         ELSE /\ next' = next + 1
              /\ opts' = IF arg = "operand" THEN opts ELSE Option(arg)
              /\ operands' = (operands \/ arg = "operand")
              /\ UNCHANGED <<input, pc, error, part, parserVars, lists, ruleVars>>

EndOfArguments ==
  /\ pc = "args" /\ next = Len(input.args)
  /\ IF operands THEN Exit2("usage", 0)
     ELSE /\ pc' = "bins" /\ next' = 0
          /\ UNCHANGED <<input, error, part, parserVars, settingVars>>

-----------------------------------------------------------------------------
(* append(): a directory goes to the end of a list.                        *)

\* An empty or relative path, or realpath() fails otherwise than with ENOENT.
BadEntry(path) == path = << >> \/ Head(path) # "/" \/ At(path).kind = "unresolvable"

\* Mutant: duplicates are told by their path as given.
Appended_ByPath(list, path) ==
  IF At(path).kind # "dir" \/ \E i \in DOMAIN list : list[i].path1 = Tail(path)
  THEN list
  ELSE Append(list, [path1 |-> Tail(At(path).path), inode |-> At(path).inode])

Appended(list, path) ==
  IF At(path).kind # "dir" \/ \E i \in DOMAIN list : list[i].inode = At(path).inode
  THEN list
  ELSE Append(list, [path1 |-> Tail(At(path).path), inode |-> At(path).inode])

AppendTo(k, path) == lists' = [lists EXCEPT ![k] = Appended(@, path)]

AppendDefault(paths, k) ==
  /\ next < Len(paths)
  /\ IF BadEntry(paths[next + 1]) THEN Exit2("entry", 0)
     ELSE /\ next' = next + 1 /\ AppendTo(k, paths[next + 1])
          /\ UNCHANGED <<input, pc, error, part, parserVars, opts, operands, ruleVars>>

AppendDefaultBin == pc = "bins" /\ AppendDefault(DefaultBins, "scanBins")
AppendDefaultLib == pc = "libs" /\ AppendDefault(DefaultLibs, "scanDefaultLibs")

EndOfBins ==
  /\ pc = "bins" /\ next = Len(DefaultBins)
  /\ pc' = "libs" /\ next' = 0
  /\ UNCHANGED <<input, error, part, parserVars, settingVars>>

\* for (auto sv : SplitMutableString(...)): to the first part, and to the next.
GotoPart(b, s, from, no) ==
  LET p == Part(b, s, from)
  IN  /\ part' = [begin |-> p.begin, end |-> p.end, no |-> no]
      /\ buf' = Cut(b, s, p)

PartsOf(s, k) ==
  /\ ~IsEnd(s, part)
  /\ IF BadEntry(CString(buf, part.begin)) THEN Exit2("entry", 0)
     ELSE /\ AppendTo(k, CString(buf, part.begin))
          /\ GotoPart(buf, s, part.end + 1, part.no + 1)
          /\ UNCHANGED <<input, pc, error, next, line, key, value, at, opts, operands, ruleVars>>

EnvironmentParts(b) == [to |-> Len(b), delims |-> {":"}, merge |-> TRUE]

\* getenv(), of which s is a copy.
ReadEnvironment ==
  /\ pc = "libs" /\ next = Len(DefaultLibs)
  /\ IF input.libraryPath = Absent
     THEN pc' = "open" /\ UNCHANGED <<part, buf>>
     ELSE LET b == Append(input.libraryPath, NUL)
          IN  pc' = "environment" /\ GotoPart(b, EnvironmentParts(b), 1, 1)
  /\ UNCHANGED <<input, error, next, line, key, value, at, settingVars>>

EnvironmentPart == pc = "environment" /\ PartsOf(EnvironmentParts(buf), "scanMoreLibs")

EndOfEnvironment ==
  /\ pc = "environment" /\ IsEnd(EnvironmentParts(buf), part)
  /\ pc' = "open"
  /\ UNCHANGED <<input, error, next, part, parserVars, settingVars>>

-----------------------------------------------------------------------------
(* The configuration file: next to the binary, or else in /etc.            *)

OpenConfig ==
  /\ pc = "open"
  /\ LET file == IF input.sample # Absent THEN input.sample ELSE input.etc
     IN  CASE file = Unreadable -> Exit2("file", 0)
           [] file = Absent -> pc' = "configured" /\ UNCHANGED <<input, error, next, part, parserVars, settingVars>>
           [] OTHER -> /\ StartParsing(file) /\ pc' = "parse"
                       /\ UNCHANGED <<input, error, next, part, settingVars>>

ParserStep ==
  /\ pc = "parse" /\ (SkipLine \/ ParseLine)
  /\ UNCHANGED <<input, pc, error, next, part, settingVars>>

Syntax == pc = "parse" /\ BadLine /\ pc' = "exit2" /\ error' = [why |-> "syntax", line |-> line.no]
          /\ UNCHANGED <<input, next, part, settingVars>>

Configured ==
  /\ pc = "parse" /\ EndOfFile /\ pc' = "configured"
  /\ UNCHANGED <<input, error, next, part, settingVars>>

OnLine(keys) == pc = "parse" /\ at = "onLine" /\ SubSeq(buf, key.begin, key.end - 1) \in {<<k>> : k \in keys}
IsAdd == SubSeq(buf, key.begin, key.end - 1) = <<"addOptDepend">>
Value == SubSeq(buf, value.begin, value.end - 1)
Reject == Exit2("value", line.no)
Accept == NextLine /\ UNCHANGED <<input, pc, error, next, part, opts, operands, lists>>

ScanKeys == {"scanMoreBins", "scanMoreLibs"}
ScanList == IF SubSeq(buf, key.begin, key.end - 1) = <<"scanMoreBins">> THEN "scanBins" ELSE "scanMoreLibs"
\* Mutant: the value is split to the end of the buffer.
ValueParts_Unbounded == [to |-> Len(buf), delims |-> {" ", "\t"}, merge |-> TRUE]

ValueParts == [to |-> value.end, delims |-> {" ", "\t"}, merge |-> TRUE]

ScanMore ==
  /\ OnLine(ScanKeys)
  /\ pc' = "parts" /\ GotoPart(buf, ValueParts, value.begin, 1)
  /\ UNCHANGED <<input, error, next, line, key, value, at, settingVars>>

ScanPart == pc = "parts" /\ PartsOf(ValueParts, ScanList)

EndOfParts ==
  /\ pc = "parts" /\ IsEnd(ValueParts, part)
  /\ NextLine /\ pc' = "parse"
  /\ UNCHANGED <<input, error, next, part, settingVars>>

\* Compiling the escaped pattern cannot fail.
IgnoreFiles ==
  /\ OnLine({"ignoreFiles"})
  /\ IF ~IsPrefix(<<"/">>, Value) THEN Reject
     ELSE /\ ignoreFiles' = Append(ignoreFiles, [pattern |-> Tail(Value), line |-> line.no])
          /\ Accept /\ UNCHANGED <<addOptDepends, removeOptDepends, packageRules, prefixRules>>

\* regex_match() with ^\s*(\S+)\s+(\S+)\s*$ : the ways to match, one at most.
Pairs(v) ==
  {<<SubSeq(v, 1, cut[1]), SubSeq(v, cut[2], Len(v))>> :
     cut \in {p \in (1 .. Len(v)) \X (1 .. Len(v)) :
                /\ p[1] + 1 < p[2]
                /\ \A n \in 1 .. Len(v) : v[n] \in Spaces <=> n \in p[1] + 1 .. p[2] - 1}}

\* map[k].push_back(x).
Pushed(map, k, x) ==
  [i \in DOMAIN map \cup {k} |-> IF i # k THEN map[i] ELSE IF k \in DOMAIN map THEN Append(map[k], x) ELSE <<x>>]

OptDepend ==
  /\ OnLine({"addOptDepend", "removeOptDepend"})
  /\ IF "/" \in Range(Value) \/ Pairs(Value) = {} THEN Reject
     ELSE \E p \in Pairs(Value) :
            LET dep == [name |-> p[2], line |-> line.no]
            IN  /\ IF IsAdd
                   THEN addOptDepends' = Pushed(addOptDepends, p[1], dep) /\ UNCHANGED removeOptDepends
                   ELSE removeOptDepends' = Pushed(removeOptDepends, p[1], dep) /\ UNCHANGED addOptDepends
                /\ Accept /\ UNCHANGED <<ignoreFiles, packageRules, prefixRules>>

\* addLibPath = {package | /file | /directory/**} /directory
IsPackage(where) == "/" \notin Range(where)
IsDirRule(where) == IsSuffix(<<"/", "*", "*">>, where)
Stem(where) == IF IsDirRule(where) THEN SubSeq(where, 1, Len(where) - 3) ELSE where

\* The message has the line's number.
BadWhat(what) == Head(what) # "/" \/ At(what).kind = "file"
BadWhere(where) ==
  /\ ~IsPackage(where)
  /\ \/ Head(where) # "/"
     \/ IsSuffix(<<"/">>, where) \/ IsSuffix(<<"/", "*">>, where)
     \/ At(Stem(where)).kind \notin {"missing", "unresolvable", IF IsDirRule(where) THEN "dir" ELSE "file"}

\* realpath() fails otherwise than with ENOENT, and the message has no line: on
\* what, before where is looked at, or on where when all else is well.
Unresolvable(path) == At(path).kind = "unresolvable"
RealPathFails(where, what) ==
  /\ ~BadWhat(what)
  /\ Unresolvable(what) \/ (~IsPackage(where) /\ ~BadWhere(where) /\ Unresolvable(Stem(where)))

\* Mutant: a directory's rule is stored without the slash behind it.
PrefixOf_NoSlash(where) == Tail(At(Stem(where)).path)

\* The slash lets starts_with() tell the directory from its neighbours.
PrefixOf(where) == Tail(At(Stem(where)).path \o (IF IsDirRule(where) THEN <<"/">> ELSE << >>))

\* A directory that does not exist is kept, for optional dependencies.
RuleFor(what) ==
  [path |-> IF At(what).kind = "missing" THEN what ELSE At(what).path, inode |-> At(what).inode, line |-> line.no]

AddLibPath ==
  /\ OnLine({"addLibPath"})
  /\ IF Pairs(Value) = {} THEN Reject
     ELSE \E p \in Pairs(Value) :
       IF RealPathFails(p[1], p[2]) THEN Exit2("entry", 0)
       ELSE IF BadWhat(p[2]) \/ BadWhere(p[1]) THEN Reject
       ELSE /\ packageRules' = IF IsPackage(p[1]) THEN Pushed(packageRules, p[1], RuleFor(p[2])) ELSE packageRules
            /\ prefixRules' = IF ~IsPackage(p[1]) /\ At(Stem(p[1])).kind # "missing"
                              THEN Pushed(prefixRules, PrefixOf(p[1]), RuleFor(p[2])) ELSE prefixRules
            /\ Accept /\ UNCHANGED <<ignoreFiles, addOptDepends, removeOptDepends>>

Keys == ScanKeys \cup {"ignoreFiles", "addOptDepend", "removeOptDepend", "addLibPath"}

OtherKey ==
  /\ pc = "parse" /\ at = "onLine" /\ ~OnLine(Keys) /\ UnknownKey
  /\ pc' = "exit2" /\ error' = [why |-> "unknownKey", line |-> line.no]
  /\ UNCHANGED <<input, next, part, settingVars>>

Stopped == pc \in {"configured", "exit2"} /\ UNCHANGED vars

Handler == ScanMore \/ ScanPart \/ EndOfParts \/ IgnoreFiles \/ OptDepend \/ AddLibPath \/ OtherKey

Next ==
  \/ ReadArgument \/ EndOfArguments
  \/ AppendDefaultBin \/ EndOfBins \/ AppendDefaultLib
  \/ ReadEnvironment \/ EnvironmentPart \/ EndOfEnvironment
  \/ OpenConfig \/ ParserStep \/ Syntax \/ Configured \/ Handler
  \/ Stopped

Spec == Init /\ [][Next]_vars

-----------------------------------------------------------------------------
(* What the inputs say, read from the bytes as they were.                  *)

File == IF input.sample # Absent THEN input.sample ELSE input.etc
HasFile == File \notin {Absent, Unreadable}

\* A finite set of numbers in ascending order.
Sorted(S) == [k \in 1 .. Cardinality(S) |-> CHOOSE i \in S : Cardinality({j \in S : j <= i}) = k]

Pieces(s, seps) ==
  LET cut == Sorted({0, Len(s) + 1} \cup {i \in DOMAIN s : s[i] \in seps})
  IN  [k \in 1 .. Len(cut) - 1 |-> SubSeq(s, cut[k] + 1, cut[k + 1] - 1)]

\* Pieces that are not empty.
WordStarts(s, seps) == {i \in DOMAIN s : s[i] \notin seps /\ (i = 1 \/ s[i - 1] \in seps)}
WordAt(s, seps, i) == SubSeq(s, i, FirstOf(s, seps, i, Len(s) + 1) - 1)
Words(s, seps) == [k \in DOMAIN Sorted(WordStarts(s, seps)) |-> WordAt(s, seps, Sorted(WordStarts(s, seps))[k])]

Stripped(s) ==
  LET solid == {i \in DOMAIN s : s[i] \notin Spaces}
  IN  IF solid = {} THEN << >> ELSE SubSeq(s, Least(solid), Greatest(solid))

HasKey(s) == "=" \in Range(s) /\ Head(s) # "="
Setting(s) ==
  LET eq == Least({i \in DOMAIN s : s[i] = "="})
  IN  [key |-> Stripped(SubSeq(s, 1, eq - 1)), value |-> Stripped(SubSeq(s, eq + 1, Len(s)))]

\* Lines are known by their numbers.
LineText(n) == Stripped(Pieces(File, {"\n"})[n])
LineNos == {n \in 1 .. Len(Pieces(File, {"\n"})) : LineText(n) # << >> /\ Head(LineText(n)) # "#"}
SettingNos == {n \in LineNos : HasKey(LineText(n))}
KeyOf(n) == Setting(LineText(n)).key
ValueOf(n) == Setting(LineText(n)).value
With(k) == {n \in SettingNos : KeyOf(n) = <<k>>}
Blanks == {" ", "\t"}

\* Keys, values and the parts of values are split in place.  Whatever was cut
\* before, a reader of a char* sees the string that the file had there, to its
\* end and no further.
PartsIntact ==
  /\ at = "onLine" /\ pc \in {"parse", "parts"} =>
       /\ CString(buf, key.begin) = KeyOf(line.no)
       /\ pc = "parse" => CString(buf, value.begin) = ValueOf(line.no)
       /\ pc = "parts" /\ ~IsEnd(ValueParts, part) =>
            CString(buf, part.begin) = Words(ValueOf(line.no), Blanks)[part.no]
  /\ pc = "environment" /\ ~IsEnd(EnvironmentParts(buf), part) =>
       CString(buf, part.begin) = Words(input.libraryPath, {":"})[part.no]

\* Handling a line changes no byte of the lines that follow, writes nothing but
\* NULs, and nothing beyond the buffer.
LinesAheadUntouched ==
  pc \in {"parse", "parts"} =>
    /\ Len(buf) = Len(File) + 1
    /\ \A i \in DOMAIN File : buf[i] \in {File[i], NUL} /\ (i > line.end => buf[i] = File[i])

Refused(path) == path = << >> \/ Head(path) # "/" \/ Unresolvable(path)
Unresolved(where, what) == Unresolvable(what) \/ (~IsPackage(where) /\ Unresolvable(Stem(where)))
BadSetting(n) ==
  \/ \A k \in Keys : n \notin With(k)
  \/ (\E k \in ScanKeys : n \in With(k)) /\ \E w \in Range(Words(ValueOf(n), Blanks)) : Refused(w)
  \/ n \in With("ignoreFiles") /\ (ValueOf(n) = << >> \/ Head(ValueOf(n)) # "/")
  \/ /\ n \in With("addOptDepend") \cup With("removeOptDepend")
     /\ "/" \in Range(ValueOf(n)) \/ Len(Words(ValueOf(n), Spaces)) # 2
  \/ /\ n \in With("addLibPath")
     /\ LET w == Words(ValueOf(n), Spaces)
        IN  Len(w) # 2 \/ BadWhat(w[2]) \/ BadWhere(w[1]) \/ Unresolved(w[1], w[2])
BadLines == {n \in LineNos : n \notin SettingNos \/ BadSetting(n)}
Environment == IF input.libraryPath = Absent THEN << >> ELSE Words(input.libraryPath, {":"})
BadArguments == Range(input.args) \cap {"operand", "badOption"} # {}
BadStart ==
  \/ BadArguments
  \/ \E path \in Range(DefaultBins \o DefaultLibs \o Environment) : Refused(path)
  \/ File = Unreadable

\* The same without the relative directories in LD_LIBRARY_PATH.
MustStop ==
  \/ BadArguments
  \/ \E path \in Range(DefaultBins \o DefaultLibs) : Refused(path)
  \/ \E path \in Range(Environment) : Unresolvable(path) /\ Head(path) = "/"
  \/ File = Unreadable

\* Lines whose error is about a path, and whose message names that in place of
\* the line: append()'s, and those of realPath() (util.cpp:91).
NamesPath(n) ==
  \/ \E k \in ScanKeys : n \in With(k)
  \/ n \in With("addLibPath") /\ Unresolved(Words(ValueOf(n), Spaces)[1], Words(ValueOf(n), Spaces)[2])

\* A bad option, directory or configuration always ends the program before it
\* looks at any file: at the first line that is bad, and unless the error is about
\* a path, the message has the number of that line.
StopsAtFirstError ==
  /\ pc = "configured" => ~MustStop /\ (File # Absent => BadLines = {})
  /\ pc = "exit2" =>
       \/ error.line = 0 /\ BadStart
       \/ /\ line.no = Least(BadLines) /\ error.line \in {0, line.no}
          /\ error.line = 0 => error.why = "entry" /\ NamesPath(line.no)

\* notes/decisions.txt:23-24 says of a relative directory in LD_LIBRARY_PATH: "I
\* warn and ignore".  main.cpp:130-132 throws.
RelativeIgnored == pc = "exit2" => MustStop \/ (HasFile /\ BadLines # {})

\* The directories among paths, each once, where it is first named.
IsDir(path) == At(path).kind = "dir"
FirstDirs(paths) ==
  LET first == Sorted({i \in DOMAIN paths :
                         /\ IsDir(paths[i])
                         /\ \A j \in 1 .. i - 1 : IsDir(paths[j]) => At(paths[j]).inode # At(paths[i]).inode})
  IN  [n \in DOMAIN first |-> Tail(At(paths[first[n]]).path)]
WordsOf(nos) == FlattenSeq([i \in DOMAIN Sorted(nos) |-> Words(ValueOf(Sorted(nos)[i]), Blanks)])
Configuration(k) == IF HasFile THEN WordsOf(With(k)) ELSE << >>
Paths(k) == [i \in DOMAIN lists[k] |-> lists[k][i].path1]

\* Search lists have each directory once, in the order of priority: defaults
\* before scanMoreBins, LD_LIBRARY_PATH before scanMoreLibs.
ListsExact ==
  pc = "configured" =>
    /\ Paths("scanBins") = FirstDirs(DefaultBins \o Configuration("scanMoreBins"))
    /\ Paths("scanDefaultLibs") = FirstDirs(DefaultLibs)
    /\ Paths("scanMoreLibs") = FirstDirs(Environment \o Configuration("scanMoreLibs"))

\* The directories a file is in, without "/".
Above(f) == {SubSeq(f, 1, i - 1) : i \in {j \in 2 .. Len(f) : f[j] = "/"}}
Files == {At(p).path : p \in {q \in DOMAIN RealPath : At(q).kind = "file"}}
First(n) == Words(ValueOf(n), Spaces)[1]
WithFirst(k, word) == {n \in With(k) : First(n) = word}
LinesIn(map, k) == IF k \in DOMAIN map THEN [i \in DOMAIN map[k] |-> map[k][i].line] ELSE << >>
Applying(f) == UNION {Range(LinesIn(prefixRules, k)) : k \in {p \in DOMAIN prefixRules : IsPrefix(p, Tail(f))}}

\* A rule of a directory that exists applies to the files below it, at any depth,
\* and to no others, its neighbours /a and /ab included.  A rule of a file applies
\* at least to that.  Nothing else applies, and rules and dependencies of a package
\* are kept in the order of the file.  ("/**" is left out: see README.)
RulesExact ==
  pc = "configured" /\ HasFile =>
    /\ \A f \in Files, n \in With("addLibPath") :
         LET where == First(n)
             known == At(Stem(where))
         IN  ~IsPackage(where) =>
               /\ IsDirRule(where) /\ known.path # <<"/">> /\ Stem(where) # << >> =>
                    (n \in Applying(f) <=> known.kind = "dir" /\ known.path \in Above(f))
               /\ ~IsDirRule(where) /\ known.kind = "file" /\ known.path = f => n \in Applying(f)
    /\ \A f \in Files : Applying(f) \subseteq {n \in With("addLibPath") : ~IsPackage(First(n))}
    /\ \A n \in SettingNos :
         /\ n \in With("addLibPath") /\ IsPackage(First(n)) =>
              LinesIn(packageRules, First(n)) = Sorted(WithFirst("addLibPath", First(n)))
         /\ n \in With("addOptDepend") =>
              LinesIn(addOptDepends, First(n)) = Sorted(WithFirst("addOptDepend", First(n)))
         /\ n \in With("removeOptDepend") =>
              LinesIn(removeOptDepends, First(n)) = Sorted(WithFirst("removeOptDepend", First(n)))

\* conf.sample:52-53, "specific file", and main.cpp:301, "starts_with() + length()
\* equality": a rule of a file applies to no other.
FileRulesExact ==
  pc = "configured" /\ HasFile =>
    \A f \in Files : \A n \in Applying(f) : ~IsDirRule(First(n)) => At(First(n)).path = f

\* A file is ignored if and only if conf.sample's description of wildcards says
\* so of some ignoreFiles line.  (A ** does not match a name with a line break.)
IgnoresExact ==
  pc = "configured" /\ HasFile =>
    \A f \in {g \in Files : Range(g) \cap LineBreaks = {}} :
      (\E i \in DOMAIN ignoreFiles : RegexMatch(Compiled(ignoreFiles[i].pattern), Tail(f)))
      <=> \E n \in With("ignoreFiles") : Described(ValueOf(n), f)
=============================================================================
