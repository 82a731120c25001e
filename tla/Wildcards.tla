----------------------------- MODULE Wildcards ------------------------------
(***************************************************************************)
(* pathWildcardsToRegex() and the match of the regex with a path.  A       *)
(* pattern becomes a sequence of atoms: a literal character, or one of     *)
(* "[^/]", "[^/]*", ".*".  The escape of everything else keeps it literal. *)
(***************************************************************************)
EXTENDS Integers, Sequences

Literal(c) == [atom |-> "literal", char |-> c]
Atom(a) == [atom |-> a, char |-> a]

\* regex_escape(), then the three replacements, ** before *: leftmost first.
\* Mutant: * is replaced before **.
Compiled_StarFirst(pattern) ==
  [i \in DOMAIN pattern |->
     CASE pattern[i] = "*" -> Atom("[^/]*")
       [] pattern[i] = "?" -> Atom("[^/]")
       [] OTHER -> Literal(pattern[i])]

IsStar(pattern, i) == i \in DOMAIN pattern /\ pattern[i] = "*"
TwoStars(pattern, i) == IsStar(pattern, i) /\ IsStar(pattern, i + 1)
AtomAt(pattern, i) ==
  CASE TwoStars(pattern, i) -> Atom(".*")
    [] IsStar(pattern, i) /\ ~IsStar(pattern, i + 1) -> Atom("[^/]*")
    [] pattern[i] = "?" -> Atom("[^/]")
    [] OTHER -> Literal(pattern[i])

Compiled(pattern) ==
  LET from[i \in 1 .. Len(pattern) + 1] ==
        IF i > Len(pattern) THEN << >>
        ELSE <<AtomAt(pattern, i)>> \o from[IF TwoStars(pattern, i) THEN i + 2 ELSE i + 1]
  IN  from[1]

\* In ECMAScript's grammar a dot is any character that ends no line.
LineBreaks == {"\n", "\r"}
Takes(a, c) == CASE a.atom = "literal" -> c = a.char
                 [] a.atom = ".*" -> c \notin LineBreaks
                 [] OTHER -> c # "/"
Repeats(a) == a.atom \in {"[^/]*", ".*"}

\* regex_match(): the whole path.  Where the first i atoms can end in it.
RegexMatch(atoms, path) ==
  LET reached[i \in 0 .. Len(atoms)] ==
        IF i = 0 THEN {1}
        ELSE {e \in 1 .. Len(path) + 1 :
                \E b \in reached[i - 1] :
                  /\ b <= e /\ (Repeats(atoms[i]) \/ e = b + 1)
                  /\ \A j \in b .. e - 1 : Takes(atoms[i], path[j])}
  IN  Len(path) + 1 \in reached[Len(atoms)]

-----------------------------------------------------------------------------
\* What conf.sample says of patterns: a path can be cut in pieces, one for each
\* wildcard or character, such that each wildcard allows its piece.
Described(pattern, path) ==
  LET stars == {i \in DOMAIN pattern : pattern[i] = "*"}
      double == {i \in stars : i - 1 \in stars \/ i + 1 \in stars}
  IN  \E cut \in [1 .. Len(pattern) + 1 -> 1 .. Len(path) + 1] :
        /\ cut[1] = 1 /\ cut[Len(pattern) + 1] = Len(path) + 1
        /\ \A i \in DOMAIN pattern :
             /\ cut[i] <= cut[i + 1]
             /\ i \notin stars => cut[i + 1] = cut[i] + 1
             /\ \A j \in cut[i] .. cut[i + 1] - 1 :
                  /\ i \in stars \ double \/ pattern[i] = "?" => path[j] # "/"
                  /\ i \notin stars /\ pattern[i] # "?" => path[j] = pattern[i]
=============================================================================
