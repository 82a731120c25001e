---------------------------- MODULE PipelineProofs ----------------------------
(***************************************************************************)
(* main()'s run for any database, configuration and answers of pacman: the *)
(* reader of PacMan_Arch, the maps made from what it reads, the exit       *)
(* status, the optional dependencies asked for and the report.             *)
(***************************************************************************)
EXTENDS Pipeline, SequenceTheorems, FiniteSetTheorems, WellFoundedInduction, TLAPS

-----------------------------------------------------------------------------
(* Lines and paragraphs.                                                   *)

\* Every set of numbers that is not empty has a least element.
LEMMA LeastElement ==
  ASSUME NEW S \in SUBSET Nat, S # {}
  PROVE  \E i \in S : \A j \in S : i <= j
<1>1. PICK i \in S : \A j \in S : ~ (<<j, i>> \in OpToRel(<, Nat))
  BY NatLessThanWellFounded, WFMin, Zenon
<1>2. ASSUME NEW j \in S
      PROVE  i <= j
  <2>1. i \in Nat /\ j \in Nat
    OBVIOUS
  <2>2. <<j, i>> \in Nat \X Nat
    BY <2>1
  <2>3. ~ (j < i)
    BY <1>1, <2>2, Zenon DEF OpToRel
  <2>. QED
    BY <2>1, <2>3
<1>. QED
  BY <1>2

\* What a line is that is not empty.
LEMMA LineWords ==
  ASSUME NEW line \in Line
  PROVE  /\ Text(line) \in Word \cup {Empty} /\ Heading(line) \in Word \cup {Empty}
         /\ line # << >> => Text(line) \in Word /\ Dependency(line) \in Word
         /\ line # << >> /\ Heading(line) \in Sections => line[1] = Heading(line)
         /\ Heading(line) \in Word => line # << >>
<1>1. CASE line = << >>
  BY <1>1, WordAssumption DEF Text, Heading
<1>2. ASSUME NEW w \in Word, line = <<w>>
      PROVE  line # << >> /\ line[1] = w /\ Heading(line) = w /\ Text(line) = w /\ Dependency(line) = w
  <2>1. line # << >> /\ Len(line) = 1 /\ line[1] = w
    BY <1>2
  <2>2. Text(line) = w /\ Heading(line) = w
    BY <2>1 DEF Text, Heading
  <2>. QED
    BY <2>1, <2>2 DEF Dependency
<1>3. ASSUME NEW w \in Word, NEW e \in {":", "/"}, line = <<w, e>>
      PROVE  /\ line # << >> /\ line[1] = w /\ Heading(line) = Empty
             /\ Text(line) \in Word /\ Dependency(line) \in Word
  <2>1. line # << >> /\ Len(line) = 2 /\ line[1] = w
    BY <1>3
  <2>2. Longer[line] \in Word
    BY <1>3, WordAssumption
  <2>3. Text(line) = Longer[line] /\ Heading(line) = Empty
    BY <2>1 DEF Text, Heading
  <2>. QED
    BY <2>1, <2>2, <2>3 DEF Dependency
<1>4. \/ line = << >>
      \/ \E w \in Word : line = <<w>>
      \/ \E w \in Word, e \in {":", "/"} : line = <<w, e>>
  BY DEF Line
<1>. QED
  BY <1>1, <1>2, <1>3, <1>4, WordAssumption

\* A line is in one paragraph.
LEMMA OneParagraph ==
  ASSUME NEW lines, NEW j \in Nat, NEW g \in 1 .. j, NEW h \in 1 .. j,
         InParagraph(lines, g, j), InParagraph(lines, h, j)
  PROVE  g = h
<1>1. ASSUME NEW a \in 1 .. j, NEW b \in 1 .. j, a < b, InParagraph(lines, a, j), Starts(lines, b)
      PROVE  FALSE
  <2>1. b - 1 \in a .. j /\ b # 1
    BY <1>1
  <2>. QED
    BY <1>1, <2>1 DEF InParagraph, Starts
<1>2. Starts(lines, g) /\ Starts(lines, h)
  BY DEF InParagraph
<1>3. ~(g < h) /\ ~(h < g)
  BY <1>1, <1>2
<1>. QED
  BY <1>3

-----------------------------------------------------------------------------
(* What the reader knows after i lines.                                    *)

\* Nothing so far is out of place.
Good(lines, i) ==
  \A k \in 1 .. i :
    /\ Starts(lines, k) => lines[k][1] \in Sections
    /\ StartsValue(lines, k) /\ k + 2 <= i => lines[k + 2] = << >>

\* Headings of values that were read; lines of a section, by their numbers.
HeadsTo(lines, section, i) == {h \in 1 .. i - 1 : Starts(lines, h) /\ Heading(lines[h]) = section}
ListedTo(lines, section, i) ==
  {j \in 1 .. i : \E h \in 1 .. j - 1 : InParagraph(lines, h, j) /\ Heading(lines[h]) = section}

IsValueTo(v, lines, section, before, i) ==
  \/ HeadsTo(lines, section, i) = {} /\ v = before
  \/ \E h \in HeadsTo(lines, section, i) :
       v = Text(lines[h + 1]) /\ \A k \in HeadsTo(lines, section, i) : k <= h

Texts(lines, indices) == {Text(lines[j]) : j \in indices}
Depended(lines, indices) == {Dependency(lines[j]) : j \in indices}
NoDirectories(lines, indices) == {j \in indices : ~IsDirectory(lines[j])}

PackageText == [name : Word \cup {Empty}, version : Word \cup {Empty},
                provides : SUBSET Word, optDepends : SUBSET Word, files : SUBSET Word]
Reader == [expects : {"section", "value", "blank", "item"}, section : Word \cup {Empty}, p : PackageText]

\* What the reader goes on with.
InPlace(lines, i, s) ==
  /\ s.expects = "section" => (i = 0 \/ lines[i] = << >>) /\ (i > 1 => ~StartsValue(lines, i - 1))
  /\ s.expects = "value" => i > 0 /\ StartsValue(lines, i) /\ s.section = Heading(lines[i])
  /\ s.expects = "blank" => i > 1 /\ StartsValue(lines, i - 1)
  /\ s.expects = "item" =>
       \E h \in 1 .. i : InParagraph(lines, h, i) /\ s.section = Heading(lines[h]) /\ ~StartsValue(lines, h)

\* What it has read.
HasRead(lines, p, i, s) ==
  /\ IsValueTo(s.p.name, lines, "%NAME%", p.name, i)
  /\ IsValueTo(s.p.version, lines, "%VERSION%", p.version, i)
  /\ s.p.provides = p.provides \cup Texts(lines, ListedTo(lines, "%PROVIDES%", i))
  /\ s.p.optDepends = p.optDepends \cup Depended(lines, ListedTo(lines, "%OPTDEPENDS%", i))
  /\ s.p.files = p.files \cup Texts(lines, NoDirectories(lines, ListedTo(lines, "%FILES%", i)))

\* Only after the heading of a value does the reader want one.
LEMMA NoValueHead ==
  ASSUME NEW lines, NEW i \in Nat \ {0}, NEW s \in Reader, InPlace(lines, i, s), s.expects # "value"
  PROVE  ~StartsValue(lines, i)
<1>1. CASE s.expects = "section"
  BY <1>1 DEF InPlace, StartsValue, Starts
<1>2. CASE s.expects = "blank"
  <2>1. i > 1 /\ StartsValue(lines, i - 1)
    BY <1>2 DEF InPlace
  <2>2. i # 1 /\ lines[i - 1] # << >>
    BY <2>1 DEF StartsValue, Starts
  <2>. QED
    BY <2>2 DEF StartsValue, Starts
<1>3. CASE s.expects = "item"
  <2>1. PICK h \in 1 .. i : InParagraph(lines, h, i) /\ ~StartsValue(lines, h)
    BY <1>3 DEF InPlace
  <2>. SUFFICES ASSUME StartsValue(lines, i) PROVE FALSE
    OBVIOUS
  <2>2. h # i
    BY <2>1
  <2>3. i - 1 \in h .. i /\ i # 1
    BY <2>2
  <2>. QED
    BY <2>1, <2>3 DEF InParagraph, StartsValue, Starts
<1>. QED
  BY <1>1, <1>2, <1>3 DEF Reader

\* One more line: which values and lines of sections are new.
LEMMA HeadsStep ==
  ASSUME NEW lines, NEW section, NEW i \in Nat
  PROVE  HeadsTo(lines, section, i + 1) =
           HeadsTo(lines, section, i) \cup {h \in {i} : i > 0 /\ Starts(lines, i) /\ Heading(lines[i]) = section}
BY DEF HeadsTo

LEMMA ListedStep ==
  ASSUME NEW lines, NEW section, NEW i \in Nat
  PROVE  ListedTo(lines, section, i + 1) =
           ListedTo(lines, section, i) \cup
             {j \in {i + 1} : \E h \in 1 .. i : InParagraph(lines, h, i + 1) /\ Heading(lines[h]) = section}
<1>1. 1 .. i + 1 = 1 .. i \cup {i + 1} /\ (i + 1) - 1 = i
  OBVIOUS
<1>. QED
  BY <1>1, Zenon DEF ListedTo

LEMMA ValueKept ==
  ASSUME NEW lines, NEW section, NEW before, NEW v, NEW i \in Nat,
         IsValueTo(v, lines, section, before, i),
         i = 0 \/ ~(Starts(lines, i) /\ Heading(lines[i]) = section)
  PROVE  IsValueTo(v, lines, section, before, i + 1)
<1>1. HeadsTo(lines, section, i + 1) = HeadsTo(lines, section, i)
  BY HeadsStep
<1>. QED
  BY <1>1 DEF IsValueTo

LEMMA ValueRead ==
  ASSUME NEW lines, NEW section, NEW before, NEW i \in Nat \ {0},
         Starts(lines, i), Heading(lines[i]) = section
  PROVE  IsValueTo(Text(lines[i + 1]), lines, section, before, i + 1)
<1>1. i \in HeadsTo(lines, section, i + 1) /\ \A k \in HeadsTo(lines, section, i + 1) : k <= i
  BY DEF HeadsTo
<1>. QED
  BY <1>1 DEF IsValueTo

\* A line that begins a paragraph, is empty, or is a value is of no list.
LEMMA ListKept ==
  ASSUME NEW lines, NEW section, NEW i \in Nat,
         \A h \in 1 .. i : InParagraph(lines, h, i + 1) => Heading(lines[h]) # section
  PROVE  ListedTo(lines, section, i + 1) = ListedTo(lines, section, i)
<1>. DEFINE new == {j \in {i + 1} : \E h \in 1 .. i : InParagraph(lines, h, i + 1) /\ Heading(lines[h]) = section}
<1>1. new = {}
  OBVIOUS
<1>2. ListedTo(lines, section, i + 1) = ListedTo(lines, section, i) \cup new
  BY ListedStep
<1>. QED
  BY <1>1, <1>2

LEMMA ListGrows ==
  ASSUME NEW lines, NEW section, NEW i \in Nat, NEW g \in 1 .. i,
         InParagraph(lines, g, i + 1), Heading(lines[g]) = section
  PROVE  ListedTo(lines, section, i + 1) = ListedTo(lines, section, i) \cup {i + 1}
<1>1. 1 .. i + 1 = 1 .. i \cup {i + 1} /\ (i + 1) - 1 = i
  OBVIOUS
<1>2. i + 1 \in ListedTo(lines, section, i + 1)
  BY <1>1 DEF ListedTo
<1>3. \A j \in 1 .. i : j \in ListedTo(lines, section, i + 1) <=> j \in ListedTo(lines, section, i)
  BY <1>1 DEF ListedTo
<1>4. ListedTo(lines, section, i + 1) \subseteq 1 .. i + 1 /\ ListedTo(lines, section, i) \subseteq 1 .. i
  BY DEF ListedTo
<1>. QED
  BY <1>1, <1>2, <1>3, <1>4

Lists == {"%PROVIDES%", "%OPTDEPENDS%", "%FILES%"}

LEMMA ReadKept ==
  ASSUME NEW lines, NEW p, NEW i \in Nat, NEW s, HasRead(lines, p, i, s),
         i = 0 \/ ~StartsValue(lines, i),
         \A h \in 1 .. i : InParagraph(lines, h, i + 1) => Heading(lines[h]) \notin Lists
  PROVE  HasRead(lines, p, i + 1, s)
<1>1. \A section \in Values : i = 0 \/ ~(Starts(lines, i) /\ Heading(lines[i]) = section)
  BY DEF StartsValue
<1>2. /\ IsValueTo(s.p.name, lines, "%NAME%", p.name, i + 1)
      /\ IsValueTo(s.p.version, lines, "%VERSION%", p.version, i + 1)
  BY <1>1, ValueKept DEF HasRead, Values
<1>3. \A section \in Lists : ListedTo(lines, section, i + 1) = ListedTo(lines, section, i)
  BY ListKept
<1>. QED
  BY <1>2, <1>3 DEF HasRead, Lists

LEMMA GoodStep ==
  ASSUME NEW lines, NEW i \in Nat
  PROVE  Good(lines, i + 1) <=>
           /\ Good(lines, i)
           /\ Starts(lines, i + 1) => lines[i + 1][1] \in Sections
           /\ i > 1 /\ StartsValue(lines, i - 1) => lines[i + 1] = << >>
<1>. DEFINE Named(k) == Starts(lines, k) => lines[k][1] \in Sections
            Ended(k, m) == StartsValue(lines, k) /\ k + 2 <= m => lines[k + 2] = << >>
<1>1. \A m \in Nat : Good(lines, m) <=> (\A k \in 1 .. m : Named(k)) /\ (\A k \in 1 .. m : Ended(k, m))
  BY DEF Good
<1>2. (\A k \in 1 .. i + 1 : Named(k)) <=> (\A k \in 1 .. i : Named(k)) /\ Named(i + 1)
  <2>. HIDE DEF Named
  <2>1. 1 .. i + 1 = 1 .. i \cup {i + 1}
    OBVIOUS
  <2>. QED
    BY <2>1, Zenon
<1>3. (\A k \in 1 .. i + 1 : Ended(k, i + 1)) <=>
        (\A k \in 1 .. i : Ended(k, i)) /\ (i > 1 /\ StartsValue(lines, i - 1) => lines[i + 1] = << >>)
  <2>1. ASSUME \A k \in 1 .. i + 1 : Ended(k, i + 1)
        PROVE  (\A k \in 1 .. i : Ended(k, i)) /\ (i > 1 /\ StartsValue(lines, i - 1) => lines[i + 1] = << >>)
    <3>1. \A k \in 1 .. i : Ended(k, i)
      BY <2>1
    <3>2. ASSUME i > 1, StartsValue(lines, i - 1) PROVE lines[i + 1] = << >>
      <4>1. i - 1 \in 1 .. i + 1 /\ (i - 1) + 2 = i + 1
        BY <3>2
      <4>. QED
        BY <2>1, <3>2, <4>1
    <3>. QED
      BY <3>1, <3>2
  <2>2. ASSUME \A k \in 1 .. i : Ended(k, i), i > 1 /\ StartsValue(lines, i - 1) => lines[i + 1] = << >>,
               NEW k \in 1 .. i + 1, StartsValue(lines, k), k + 2 <= i + 1
        PROVE  lines[k + 2] = << >>
    <3>1. CASE k + 2 <= i
      BY <2>2, <3>1
    <3>2. CASE k + 2 = i + 1
      <4>1. k = i - 1 /\ i > 1
        BY <3>2
      <4>. QED
        BY <2>2, <3>2, <4>1
    <3>. QED
      BY <2>2, <3>1, <3>2
  <2>. QED
    BY <2>1, <2>2
<1>. HIDE DEF Named, Ended
<1>4. Good(lines, i) <=> (\A k \in 1 .. i : Named(k)) /\ (\A k \in 1 .. i : Ended(k, i))
  BY <1>1
<1>5. Good(lines, i + 1) <=> (\A k \in 1 .. i + 1 : Named(k)) /\ (\A k \in 1 .. i + 1 : Ended(k, i + 1))
  BY <1>1
<1>. QED
  BY <1>2, <1>3, <1>4, <1>5 DEF Named

\* The reader at the beginning of a section.
LEMMA ReadAtSection ==
  ASSUME NEW lines, NEW p, NEW i \in Nat, lines[i + 1] \in Line, Good(lines, i),
         NEW s \in Reader, s.expects = "section", InPlace(lines, i, s), HasRead(lines, p, i, s)
  PROVE  IF Good(lines, i + 1)
         THEN \E t \in Reader : ReadLine(s, lines[i + 1]) = {t} /\ InPlace(lines, i + 1, t) /\ HasRead(lines, p, i + 1, t)
         ELSE ReadLine(s, lines[i + 1]) = {}
<1>. DEFINE line == lines[i + 1]
<1>1. (i = 0 \/ lines[i] = << >>) /\ (i > 1 => ~StartsValue(lines, i - 1))
  BY DEF InPlace
<1>2. i = 0 \/ ~StartsValue(lines, i)
  BY <1>1 DEF StartsValue, Starts
<1>3. \A h \in 1 .. i : ~InParagraph(lines, h, i + 1)
  <2>1. \A h \in 1 .. i : i \in h .. i + 1
    OBVIOUS
  <2>. QED
    BY <1>1, <2>1 DEF InParagraph
<1>4. HasRead(lines, p, i + 1, s)
  BY <1>2, <1>3, ReadKept
<1>5. CASE line = << >>
  <2>1. Good(lines, i + 1)
    BY <1>5, GoodStep DEF Starts
  <2>2. ReadLine(s, line) = {s}
    BY <1>5 DEF ReadLine
  <2>3. (i + 1) - 1 = i /\ (i + 1 > 1 => i # 0)
    OBVIOUS
  <2>4. InPlace(lines, i + 1, s)
    BY <1>2, <1>5, <2>3 DEF InPlace
  <2>. QED
    BY <1>4, <2>1, <2>2, <2>4
<1>6. CASE line # << >>
  <2>1. Starts(lines, i + 1)
    <3>1. i + 1 = 1 \/ lines[(i + 1) - 1] = << >>
      BY <1>1
    <3>. QED
      BY <1>6, <3>1 DEF Starts
  <2>2. CASE line[1] \notin Sections
    <3>1. ~Good(lines, i + 1)
      BY <2>1, <2>2, GoodStep
    <3>2. ReadLine(s, line) = {}
      BY <1>6, <2>2 DEF ReadLine
    <3>. QED
      BY <3>1, <3>2
  <2>3. CASE line[1] \in Sections
    <3>1. Good(lines, i + 1)
      BY <1>1, <2>1, <2>3, GoodStep
    <3>. DEFINE t == [s EXCEPT !.expects = IF Heading(line) \in Values THEN "value" ELSE "item", !.section = Heading(line)]
    <3>2. ReadLine(s, line) = {t}
      BY <1>6, <2>3 DEF ReadLine
    <3>3. /\ t \in Reader /\ t.section = Heading(line) /\ t.p = s.p
          /\ t.expects = IF Heading(line) \in Values THEN "value" ELSE "item"
      BY LineWords DEF Reader
    <3>. HIDE DEF t
    <3>4. Heading(line) \in Values => StartsValue(lines, i + 1)
      BY <2>1 DEF StartsValue
    <3>5. Heading(line) \notin Values => ~StartsValue(lines, i + 1)
      BY DEF StartsValue
    <3>6. InParagraph(lines, i + 1, i + 1) /\ i + 1 \in 1 .. i + 1 /\ i + 1 > 0
      BY <1>6, <2>1 DEF InParagraph
    <3>7. InPlace(lines, i + 1, t)
      <4>1. CASE Heading(line) \in Values
        BY <3>3, <3>4, <3>6, <4>1 DEF InPlace
      <4>2. CASE Heading(line) \notin Values
        BY <3>3, <3>5, <3>6, <4>2 DEF InPlace
      <4>. QED
        BY <4>1, <4>2
    <3>8. HasRead(lines, p, i + 1, t)
      BY <1>4, <3>3 DEF HasRead
    <3>. QED
      BY <3>1, <3>2, <3>3, <3>7, <3>8
  <2>. QED
    BY <2>2, <2>3
<1>. QED
  BY <1>5, <1>6

\* The reader behind the heading of a value.
LEMMA ReadAtValue ==
  ASSUME NEW lines, NEW p, NEW i \in Nat, lines[i + 1] \in Line, Good(lines, i),
         NEW s \in Reader, s.expects = "value", InPlace(lines, i, s), HasRead(lines, p, i, s)
  PROVE  /\ Good(lines, i + 1)
         /\ \E t \in Reader : ReadLine(s, lines[i + 1]) = {t} /\ InPlace(lines, i + 1, t) /\ HasRead(lines, p, i + 1, t)
<1>. DEFINE line == lines[i + 1]
<1>1. i > 0 /\ StartsValue(lines, i) /\ s.section = Heading(lines[i])
  BY DEF InPlace
<1>2. Starts(lines, i) /\ Heading(lines[i]) \in Values /\ lines[i] # << >>
  BY <1>1 DEF StartsValue, Starts
<1>3. Good(lines, i + 1)
  <2>1. ~Starts(lines, i + 1)
    <3>1. (i + 1) - 1 = i /\ i + 1 # 1
      BY <1>1
    <3>. QED
      BY <1>2, <3>1 DEF Starts
  <2>2. i > 1 => ~StartsValue(lines, i - 1)
    BY <1>2 DEF StartsValue, Starts
  <2>. QED
    BY <2>1, <2>2, GoodStep
<1>4. \A section \in Lists : ListedTo(lines, section, i + 1) = ListedTo(lines, section, i)
  <2>1. ASSUME NEW h \in 1 .. i, InParagraph(lines, h, i + 1)
        PROVE  Heading(lines[h]) \in Values
    <3>1. InParagraph(lines, h, i)
      BY <2>1 DEF InParagraph
    <3>2. InParagraph(lines, i, i) /\ i \in 1 .. i
      BY <1>1, <1>2 DEF InParagraph
    <3>3. h = i
      BY <3>1, <3>2, OneParagraph
    <3>. QED
      BY <1>2, <3>3
  <2>2. Lists \cap Values = {}
    BY DEF Lists, Values
  <2>. QED
    BY <2>1, <2>2, ListKept
<1>5. Text(line) \in Word \cup {Empty}
  BY LineWords
<1>8. i \in Nat \ {0}
  BY <1>1
<1>6. CASE Heading(lines[i]) = "%NAME%"
  <2>. DEFINE t == [s EXCEPT !.expects = "blank", !.p.name = Text(line)]
  <2>1. ReadLine(s, line) = {t}
    BY <1>1, <1>6 DEF ReadLine
  <2>2. /\ t \in Reader /\ t.expects = "blank" /\ t.p.name = Text(line) /\ t.p.version = s.p.version
        /\ t.p.provides = s.p.provides /\ t.p.optDepends = s.p.optDepends /\ t.p.files = s.p.files
    BY <1>5 DEF Reader, PackageText
  <2>. HIDE DEF t
  <2>3. IsValueTo(t.p.name, lines, "%NAME%", p.name, i + 1)
    <3>1. IsValueTo(Text(line), lines, "%NAME%", p.name, i + 1)
      BY <1>2, <1>8, <1>6, ValueRead, Zenon
    <3>. QED
      BY <2>2, <3>1
  <2>4. IsValueTo(t.p.version, lines, "%VERSION%", p.version, i + 1)
    BY <1>6, <2>2, ValueKept DEF HasRead
  <2>5. HasRead(lines, p, i + 1, t)
    BY <1>4, <2>2, <2>3, <2>4 DEF HasRead, Lists
  <2>6. InPlace(lines, i + 1, t)
    <3>1. (i + 1) - 1 = i /\ i + 1 > 1
      BY <1>1
    <3>. QED
      BY <1>1, <2>2, <3>1 DEF InPlace
  <2>. QED
    BY <1>3, <2>1, <2>2, <2>5, <2>6
<1>7. CASE Heading(lines[i]) = "%VERSION%"
  <2>. DEFINE t == [s EXCEPT !.expects = "blank", !.p.version = Text(line)]
  <2>1. ReadLine(s, line) = {t}
    BY <1>1, <1>7 DEF ReadLine
  <2>2. /\ t \in Reader /\ t.expects = "blank" /\ t.p.version = Text(line) /\ t.p.name = s.p.name
        /\ t.p.provides = s.p.provides /\ t.p.optDepends = s.p.optDepends /\ t.p.files = s.p.files
    BY <1>5 DEF Reader, PackageText
  <2>. HIDE DEF t
  <2>3. IsValueTo(t.p.version, lines, "%VERSION%", p.version, i + 1)
    <3>1. IsValueTo(Text(line), lines, "%VERSION%", p.version, i + 1)
      BY <1>2, <1>8, <1>7, ValueRead, Zenon
    <3>. QED
      BY <2>2, <3>1
  <2>4. IsValueTo(t.p.name, lines, "%NAME%", p.name, i + 1)
    BY <1>7, <2>2, ValueKept DEF HasRead
  <2>5. HasRead(lines, p, i + 1, t)
    BY <1>4, <2>2, <2>3, <2>4 DEF HasRead, Lists
  <2>6. InPlace(lines, i + 1, t)
    <3>1. (i + 1) - 1 = i /\ i + 1 > 1
      BY <1>1
    <3>. QED
      BY <1>1, <2>2, <3>1 DEF InPlace
  <2>. QED
    BY <1>3, <2>1, <2>2, <2>5, <2>6
<1>. QED
  BY <1>2, <1>6, <1>7 DEF Values

\* The reader behind a value.
LEMMA ReadAtEmptyLine ==
  ASSUME NEW lines, NEW p, NEW i \in Nat, lines[i + 1] \in Line, Good(lines, i),
         NEW s \in Reader, s.expects = "blank", InPlace(lines, i, s), HasRead(lines, p, i, s)
  PROVE  IF Good(lines, i + 1)
         THEN \E t \in Reader : ReadLine(s, lines[i + 1]) = {t} /\ InPlace(lines, i + 1, t) /\ HasRead(lines, p, i + 1, t)
         ELSE ReadLine(s, lines[i + 1]) = {}
<1>. DEFINE line == lines[i + 1]
<1>1. i > 1 /\ StartsValue(lines, i - 1)
  BY DEF InPlace
<1>2. CASE line # << >>
  <2>1. ~Good(lines, i + 1)
    BY <1>1, <1>2, GoodStep
  <2>2. ReadLine(s, line) = {}
    BY <1>2 DEF ReadLine
  <2>. QED
    BY <2>1, <2>2
<1>3. CASE line = << >>
  <2>1. Good(lines, i + 1)
    BY <1>3, GoodStep DEF Starts
  <2>. DEFINE t == [s EXCEPT !.expects = "section"]
  <2>2. ReadLine(s, line) = {t}
    BY <1>3 DEF ReadLine
  <2>3. t \in Reader /\ t.expects = "section" /\ t.p = s.p
    BY DEF Reader
  <2>. HIDE DEF t
  <2>4. ~StartsValue(lines, i)
    BY <1>1, NoValueHead
  <2>5. \A h \in 1 .. i : ~InParagraph(lines, h, i + 1)
    <3>1. \A h \in 1 .. i : i + 1 \in h .. i + 1
      OBVIOUS
    <3>. QED
      BY <1>3, <3>1 DEF InParagraph
  <2>6. HasRead(lines, p, i + 1, s)
    BY <2>4, <2>5, ReadKept
  <2>7. HasRead(lines, p, i + 1, t)
    BY <2>3, <2>6 DEF HasRead
  <2>8. InPlace(lines, i + 1, t)
    <3>1. (i + 1) - 1 = i
      OBVIOUS
    <3>. QED
      BY <1>3, <2>3, <2>4, <3>1 DEF InPlace
  <2>. QED
    BY <2>1, <2>2, <2>3, <2>7, <2>8
<1>. QED
  BY <1>2, <1>3

\* The reader among the lines of a list, or of a section it does not know.
LEMMA TextsWith ==
  ASSUME NEW lines, NEW S, NEW j
  PROVE  Texts(lines, S \cup {j}) = Texts(lines, S) \cup {Text(lines[j])}
BY DEF Texts

LEMMA DependedWith ==
  ASSUME NEW lines, NEW S, NEW j
  PROVE  Depended(lines, S \cup {j}) = Depended(lines, S) \cup {Dependency(lines[j])}
BY DEF Depended

LEMMA ReadItem ==
  ASSUME NEW lines, NEW p, NEW i \in Nat, lines[i + 1] \in Line, lines[i + 1] # << >>,
         NEW s \in Reader, s.expects = "item", InPlace(lines, i, s), HasRead(lines, p, i, s)
  PROVE  \E t \in Reader : ReadLine(s, lines[i + 1]) = {t} /\ InPlace(lines, i + 1, t) /\ HasRead(lines, p, i + 1, t)
<1>. DEFINE line == lines[i + 1]
            section == s.section
            t == [s EXCEPT !.p = Item(@, section, line)]
<1>1. PICK h \in 1 .. i : InParagraph(lines, h, i) /\ section = Heading(lines[h]) /\ ~StartsValue(lines, h)
  BY DEF InPlace
<1>2. section \notin Values /\ i # 0 /\ h \in 1 .. i + 1
  BY <1>1 DEF StartsValue, InParagraph
<1>3. InParagraph(lines, h, i + 1)
  <2>1. \A k \in h .. i + 1 : k \in h .. i \/ k = i + 1
    OBVIOUS
  <2>. QED
    BY <1>1, <2>1, Zenon DEF InParagraph
<1>4. ReadLine(s, line) = {t}
  BY DEF ReadLine
<1>5. s.p \in PackageText /\ Text(line) \in Word /\ Dependency(line) \in Word
  BY LineWords DEF Reader
<1>6. /\ Item(s.p, section, line) \in PackageText
      /\ Item(s.p, section, line).name = s.p.name /\ Item(s.p, section, line).version = s.p.version
      /\ Item(s.p, section, line).provides = IF section = "%PROVIDES%" THEN s.p.provides \cup {Text(line)} ELSE s.p.provides
      /\ Item(s.p, section, line).optDepends = IF section = "%OPTDEPENDS%" THEN s.p.optDepends \cup {Dependency(line)} ELSE s.p.optDepends
      /\ Item(s.p, section, line).files =
           IF section = "%FILES%" /\ ~IsDirectory(line) THEN s.p.files \cup {Text(line)} ELSE s.p.files
  <2>1. CASE section = "%PROVIDES%"
    <3>1. Item(s.p, section, line) = [s.p EXCEPT !.provides = @ \cup {Text(line)}]
      BY <2>1 DEF Item, KnownSections, Values
    <3>. QED
      BY <1>5, <2>1, <3>1 DEF PackageText
  <2>2. CASE section = "%OPTDEPENDS%"
    <3>1. Item(s.p, section, line) = [s.p EXCEPT !.optDepends = @ \cup {Dependency(line)}]
      BY <2>2 DEF Item, KnownSections, Values
    <3>. QED
      BY <1>5, <2>2, <3>1 DEF PackageText
  <2>3. CASE section = "%FILES%" /\ ~IsDirectory(line)
    <3>1. Item(s.p, section, line) = [s.p EXCEPT !.files = @ \cup {Text(line)}]
      BY <2>3 DEF Item, KnownSections, Values
    <3>. QED
      BY <1>5, <2>3, <3>1 DEF PackageText
  <2>4. CASE section = "%FILES%" /\ IsDirectory(line)
    <3>1. Item(s.p, section, line) = s.p
      BY <2>4 DEF Item, KnownSections, Values
    <3>. QED
      BY <1>5, <2>4, <3>1
  <2>5. CASE section \notin KnownSections
    <3>1. Item(s.p, section, line) = s.p
      BY <2>5 DEF Item, KnownSections
    <3>. QED
      BY <1>5, <2>5, <3>1 DEF KnownSections
  <2>. QED
    BY <1>2, <2>1, <2>2, <2>3, <2>4, <2>5 DEF KnownSections
<1>7. /\ t \in Reader /\ t.expects = "item" /\ t.section = section
      /\ t.p = Item(s.p, section, line)
  BY <1>6 DEF Reader
<1>8. InPlace(lines, i + 1, t)
  BY <1>1, <1>2, <1>3, <1>7 DEF InPlace
<1>9. ASSUME NEW list
      PROVE  /\ section = list => ListedTo(lines, list, i + 1) = ListedTo(lines, list, i) \cup {i + 1}
             /\ section # list => ListedTo(lines, list, i + 1) = ListedTo(lines, list, i)
  <2>1. \A g \in 1 .. i : InParagraph(lines, g, i + 1) => g = h
    <3>1. \A g \in 1 .. i : g \in 1 .. i + 1
      OBVIOUS
    <3>. QED
      BY <1>2, <1>3, <3>1, OneParagraph
  <2>2. CASE section = list
    <3>. QED
      BY <1>1, <1>3, <2>2, ListGrows
  <2>3. CASE section # list
    <3>1. \A g \in 1 .. i : InParagraph(lines, g, i + 1) => Heading(lines[g]) # list
      BY <1>1, <2>1, <2>3
    <3>. QED
      BY <2>3, <3>1, ListKept
  <2>. QED
    BY <2>2, <2>3
<1>10. /\ IsValueTo(t.p.name, lines, "%NAME%", p.name, i + 1)
       /\ IsValueTo(t.p.version, lines, "%VERSION%", p.version, i + 1)
  <2>1. ~StartsValue(lines, i)
    BY <1>2, NoValueHead
  <2>2. \A list \in Values : ~(Starts(lines, i) /\ Heading(lines[i]) = list)
    BY <2>1 DEF StartsValue
  <2>3. /\ IsValueTo(s.p.name, lines, "%NAME%", p.name, i + 1)
        /\ IsValueTo(s.p.version, lines, "%VERSION%", p.version, i + 1)
    <3>1. "%NAME%" \in Values /\ "%VERSION%" \in Values
      BY DEF Values
    <3>2. /\ IsValueTo(s.p.name, lines, "%NAME%", p.name, i)
          /\ IsValueTo(s.p.version, lines, "%VERSION%", p.version, i)
      BY DEF HasRead
    <3>. QED
      BY <2>2, <3>1, <3>2, ValueKept
  <2>. QED
    BY <1>6, <1>7, <2>3
<1>. HIDE DEF t
<1>11. t.p.provides = p.provides \cup Texts(lines, ListedTo(lines, "%PROVIDES%", i + 1))
  <2>1. s.p.provides = p.provides \cup Texts(lines, ListedTo(lines, "%PROVIDES%", i))
    BY DEF HasRead
  <2>2. CASE section = "%PROVIDES%"
    <3>1. t.p.provides = s.p.provides \cup {Text(line)}
      BY <1>6, <1>7, <2>2
    <3>2. ListedTo(lines, "%PROVIDES%", i + 1) = ListedTo(lines, "%PROVIDES%", i) \cup {i + 1}
      BY <1>9, <2>2
    <3>3. Texts(lines, ListedTo(lines, "%PROVIDES%", i) \cup {i + 1}) =
            Texts(lines, ListedTo(lines, "%PROVIDES%", i)) \cup {Text(line)}
      BY TextsWith, Zenon
    <3>. QED
      BY <2>1, <3>1, <3>2, <3>3
  <2>3. CASE section # "%PROVIDES%"
    <3>1. t.p.provides = s.p.provides
      BY <1>6, <1>7, <2>3
    <3>2. ListedTo(lines, "%PROVIDES%", i + 1) = ListedTo(lines, "%PROVIDES%", i)
      BY <1>9, <2>3
    <3>. QED
      BY <2>1, <3>1, <3>2
  <2>. QED
    BY <2>2, <2>3
<1>12. t.p.optDepends = p.optDepends \cup Depended(lines, ListedTo(lines, "%OPTDEPENDS%", i + 1))
  <2>1. s.p.optDepends = p.optDepends \cup Depended(lines, ListedTo(lines, "%OPTDEPENDS%", i))
    BY DEF HasRead
  <2>2. CASE section = "%OPTDEPENDS%"
    <3>1. t.p.optDepends = s.p.optDepends \cup {Dependency(line)}
      BY <1>6, <1>7, <2>2
    <3>2. ListedTo(lines, "%OPTDEPENDS%", i + 1) = ListedTo(lines, "%OPTDEPENDS%", i) \cup {i + 1}
      BY <1>9, <2>2
    <3>3. Depended(lines, ListedTo(lines, "%OPTDEPENDS%", i) \cup {i + 1}) =
            Depended(lines, ListedTo(lines, "%OPTDEPENDS%", i)) \cup {Dependency(line)}
      BY DependedWith, Zenon
    <3>. QED
      BY <2>1, <3>1, <3>2, <3>3
  <2>3. CASE section # "%OPTDEPENDS%"
    <3>1. t.p.optDepends = s.p.optDepends
      BY <1>6, <1>7, <2>3
    <3>2. ListedTo(lines, "%OPTDEPENDS%", i + 1) = ListedTo(lines, "%OPTDEPENDS%", i)
      BY <1>9, <2>3
    <3>. QED
      BY <2>1, <3>1, <3>2
  <2>. QED
    BY <2>2, <2>3
<1>13. t.p.files = p.files \cup Texts(lines, NoDirectories(lines, ListedTo(lines, "%FILES%", i + 1)))
  <2>1. s.p.files = p.files \cup Texts(lines, NoDirectories(lines, ListedTo(lines, "%FILES%", i)))
    BY DEF HasRead
  <2>. DEFINE old == ListedTo(lines, "%FILES%", i)
  <2>2. CASE section = "%FILES%"
    <3>1. ListedTo(lines, "%FILES%", i + 1) = old \cup {i + 1}
      BY <1>9, <2>2
    <3>2. CASE IsDirectory(line)
      <4>1. NoDirectories(lines, old \cup {i + 1}) = NoDirectories(lines, old)
        BY <3>2 DEF NoDirectories
      <4>2. t.p.files = s.p.files
        BY <1>6, <1>7, <2>2, <3>2
      <4>. QED
        BY <2>1, <3>1, <4>1, <4>2
    <3>3. CASE ~IsDirectory(line)
      <4>1. NoDirectories(lines, old \cup {i + 1}) = NoDirectories(lines, old) \cup {i + 1}
        BY <3>3 DEF NoDirectories
      <4>2. Texts(lines, NoDirectories(lines, old) \cup {i + 1}) = Texts(lines, NoDirectories(lines, old)) \cup {Text(line)}
        BY TextsWith, Zenon
      <4>3. t.p.files = s.p.files \cup {Text(line)}
        BY <1>6, <1>7, <2>2, <3>3
      <4>. HIDE DEF old
      <4>. QED
        BY <2>1, <3>1, <4>1, <4>2, <4>3 DEF old
    <3>. QED
      BY <3>2, <3>3
  <2>3. CASE section # "%FILES%"
    BY <1>6, <1>7, <1>9, <2>1, <2>3
  <2>. QED
    BY <2>2, <2>3
<1>14. HasRead(lines, p, i + 1, t)
  BY <1>10, <1>11, <1>12, <1>13 DEF HasRead
<1>. QED
  BY <1>4, <1>7, <1>8, <1>14 DEF t

LEMMA ReadAtItem ==
  ASSUME NEW lines, NEW p, NEW i \in Nat, lines[i + 1] \in Line, Good(lines, i),
         NEW s \in Reader, s.expects = "item", InPlace(lines, i, s), HasRead(lines, p, i, s)
  PROVE  /\ Good(lines, i + 1)
         /\ \E t \in Reader : ReadLine(s, lines[i + 1]) = {t} /\ InPlace(lines, i + 1, t) /\ HasRead(lines, p, i + 1, t)
<1>. DEFINE line == lines[i + 1]
<1>1. PICK h \in 1 .. i : InParagraph(lines, h, i) /\ ~StartsValue(lines, h)
  BY DEF InPlace
<1>2. i # 0 /\ lines[i] # << >>
  <2>1. i \in h .. i
    OBVIOUS
  <2>. QED
    BY <1>1, <2>1 DEF InParagraph
<1>3. ~StartsValue(lines, i)
  BY <1>2, NoValueHead
<1>4. Good(lines, i + 1)
  <2>1. ~Starts(lines, i + 1)
    <3>1. (i + 1) - 1 = i /\ i + 1 # 1
      BY <1>2
    <3>. QED
      BY <1>2, <3>1 DEF Starts
  <2>2. i > 1 => ~StartsValue(lines, i - 1)
    <3>. SUFFICES ASSUME i > 1, StartsValue(lines, i - 1) PROVE FALSE
      OBVIOUS
    <3>1. i - 1 \in 1 .. i /\ \A k \in (i - 1) .. i : k = i - 1 \/ k = i
      OBVIOUS
    <3>2. InParagraph(lines, i - 1, i)
      BY <1>2, <3>1 DEF InParagraph, StartsValue, Starts
    <3>3. h = i - 1
      BY <1>1, <3>1, <3>2, OneParagraph
    <3>. QED
      BY <1>1, <3>3
  <2>. QED
    BY <2>1, <2>2, GoodStep
<1>5. CASE line = << >>
  <2>. DEFINE t == [s EXCEPT !.expects = "section"]
  <2>1. ReadLine(s, line) = {t}
    BY <1>5 DEF ReadLine
  <2>2. t \in Reader /\ t.expects = "section" /\ t.p = s.p
    BY DEF Reader
  <2>. HIDE DEF t
  <2>3. \A g \in 1 .. i : ~InParagraph(lines, g, i + 1)
    <3>1. \A g \in 1 .. i : i + 1 \in g .. i + 1
      OBVIOUS
    <3>. QED
      BY <1>5, <3>1 DEF InParagraph
  <2>4. HasRead(lines, p, i + 1, s)
    BY <1>3, <2>3, ReadKept
  <2>5. HasRead(lines, p, i + 1, t)
    BY <2>2, <2>4 DEF HasRead
  <2>6. InPlace(lines, i + 1, t)
    <3>1. (i + 1) - 1 = i
      OBVIOUS
    <3>. QED
      BY <1>3, <1>5, <2>2, <3>1 DEF InPlace
  <2>. QED
    BY <1>4, <2>1, <2>2, <2>5, <2>6
<1>6. CASE line # << >>
  BY <1>4, <1>6, ReadItem
<1>. QED
  BY <1>5, <1>6

\* The reader's recursive function exists: at a least number of lines where it
\* did not, the one for a line less could be extended.
AtStart(p) == [expects |-> "section", section |-> Empty, p |-> p]
NextStates(lines, states, i) == UNION {ReadLine(s, lines[i]) : s \in states}

LEMMA ReadFileBy ==
  ASSUME NEW p, NEW lines \in Seq(Line)
  PROVE  \E g : /\ g = [i \in 0 .. Len(lines) |-> IF i = 0 THEN {AtStart(p)} ELSE NextStates(lines, g[i - 1], i)]
                /\ lines # NoFile => ReadFile(p, lines) = {s.p : s \in {t \in g[Len(lines)] : t.expects = "section"}}
<1>. DEFINE Made(g, n) == g = [i \in 0 .. n |-> IF i = 0 THEN {AtStart(p)} ELSE NextStates(lines, g[i - 1], i)]
            Bad == {n \in 0 .. Len(lines) : ~ \E g : Made(g, n)}
<1>0. Len(lines) \in Nat
  OBVIOUS
<1>1. Bad = {}
  <2>. SUFFICES ASSUME Bad # {} PROVE FALSE
    OBVIOUS
  <2>1. PICK n \in Bad : \A j \in Bad : n <= j
    <3>1. Bad \in SUBSET Nat
      BY <1>0
    <3>. HIDE DEF Bad
    <3>. QED
      BY <3>1, LeastElement
  <2>2. n \in 0 .. Len(lines) /\ ~ \E g : Made(g, n)
    OBVIOUS
  <2>3. CASE n = 0
    <3>. DEFINE h == [i \in 0 .. 0 |-> {AtStart(p)}]
    <3>1. Made(h, 0)
      <4>1. [i \in 0 .. 0 |-> IF i = 0 THEN {AtStart(p)} ELSE NextStates(lines, h[i - 1], i)] = h
        OBVIOUS
      <4>. QED
        BY <4>1
    <3>. QED
      BY <2>2, <2>3, <3>1
  <2>4. CASE n # 0
    <3>1. n - 1 \in 0 .. Len(lines) /\ ~(n <= n - 1)
      BY <1>0, <2>2, <2>4
    <3>2. n - 1 \notin Bad
      BY <2>1, <3>1, Zenon
    <3>3. PICK g : Made(g, n - 1)
      BY <3>1, <3>2
    <3>. DEFINE h == [i \in 0 .. n |-> IF i = n THEN NextStates(lines, g[n - 1], n) ELSE g[i]]
    <3>4. ASSUME NEW i \in 0 .. n
          PROVE  h[i] = IF i = 0 THEN {AtStart(p)} ELSE NextStates(lines, h[i - 1], i)
      <4>1. CASE i = n
        <5>1. n \in 0 .. n /\ n - 1 \in 0 .. n /\ n - 1 # n
          BY <1>0, <2>2, <2>4
        <5>2. h[n] = NextStates(lines, g[n - 1], n) /\ h[n - 1] = g[n - 1]
          BY <5>1
        <5>. QED
          BY <2>4, <4>1, <5>2
      <4>2. CASE i # n
        <5>1. i \in 0 .. (n - 1) /\ h[i] = g[i]
          BY <1>0, <2>2, <4>2
        <5>2. i # 0 => i - 1 \in 0 .. n /\ i - 1 # n /\ h[i - 1] = g[i - 1]
          BY <1>0, <2>2, <5>1
        <5>3. g[i] = IF i = 0 THEN {AtStart(p)} ELSE NextStates(lines, g[i - 1], i)
          BY <3>3, <5>1
        <5>. QED
          BY <5>1, <5>2, <5>3
      <4>. QED
        BY <4>1, <4>2
    <3>5. h = [i \in 0 .. n |-> h[i]]
      OBVIOUS
    <3>. HIDE DEF h
    <3>6. Made(h, n)
      BY <3>4, <3>5
    <3>. QED
      BY <2>2, <3>6
  <2>. QED
    BY <2>3, <2>4
<1>2. PICK g : Made(g, Len(lines))
  <2>1. Len(lines) \in 0 .. Len(lines)
    BY <1>0
  <2>2. Len(lines) \notin Bad
    BY <1>1, Zenon
  <2>. QED
    BY <2>1, <2>2
<1>. DEFINE after[i \in 0 .. Len(lines)] ==
              IF i = 0 THEN {[expects |-> "section", section |-> Empty, p |-> p]}
              ELSE UNION {ReadLine(s, lines[i]) : s \in after[i - 1]}
<1>3. g = [i \in 0 .. Len(lines) |->
              IF i = 0 THEN {[expects |-> "section", section |-> Empty, p |-> p]}
              ELSE UNION {ReadLine(s, lines[i]) : s \in g[i - 1]}]
  BY <1>2, Zenon DEF AtStart, NextStates
<1>4. after = [i \in 0 .. Len(lines) |->
              IF i = 0 THEN {[expects |-> "section", section |-> Empty, p |-> p]}
              ELSE UNION {ReadLine(s, lines[i]) : s \in after[i - 1]}]
  BY <1>3
<1>5. lines # NoFile => ReadFile(p, lines) = {s.p : s \in {t \in after[Len(lines)] : t.expects = "section"}}
  BY DEF ReadFile
<1>. HIDE DEF after
<1>6. Made(after, Len(lines))
  BY <1>4, Zenon DEF AtStart, NextStates
<1>. QED
  BY <1>5, <1>6

\* After i lines there is one state, and it fits them, as long as nothing was
\* out of place; then there is none.
LEMMA ReadInOrder ==
  ASSUME NEW p \in PackageText, NEW lines \in Seq(Line), NEW g,
         g = [i \in 0 .. Len(lines) |-> IF i = 0 THEN {AtStart(p)} ELSE NextStates(lines, g[i - 1], i)],
         NEW i \in 0 .. Len(lines)
  PROVE  IF Good(lines, i)
         THEN \E s \in Reader : g[i] = {s} /\ InPlace(lines, i, s) /\ HasRead(lines, p, i, s)
         ELSE g[i] = {}
<1>. DEFINE Fits(k) == IF Good(lines, k)
                       THEN \E s \in Reader : g[k] = {s} /\ InPlace(lines, k, s) /\ HasRead(lines, p, k, s)
                       ELSE g[k] = {}
            Bad == {k \in 0 .. Len(lines) : ~Fits(k)}
<1>0. Len(lines) \in Nat /\ \A k \in 1 .. Len(lines) : lines[k] \in Line
  OBVIOUS
<1>1. Fits(0)
  <2>1. 0 \in 0 .. Len(lines)
    BY <1>0
  <2>2. g[0] = {AtStart(p)}
    BY <2>1
  <2>3. Good(lines, 0)
    BY DEF Good
  <2>4. AtStart(p) \in Reader /\ AtStart(p).expects = "section" /\ AtStart(p).p = p
    BY DEF AtStart, Reader
  <2>5. \A section : HeadsTo(lines, section, 0) = {} /\ ListedTo(lines, section, 0) = {}
    BY DEF HeadsTo, ListedTo
  <2>6. Texts(lines, {}) = {} /\ Depended(lines, {}) = {} /\ NoDirectories(lines, {}) = {}
    BY DEF Texts, Depended, NoDirectories
  <2>7. HasRead(lines, p, 0, AtStart(p))
    BY <2>4, <2>5, <2>6 DEF HasRead, IsValueTo
  <2>8. InPlace(lines, 0, AtStart(p))
    BY <2>4 DEF InPlace
  <2>. QED
    BY <2>2, <2>3, <2>4, <2>7, <2>8
<1>2. ASSUME NEW k \in 0 .. Len(lines), k # Len(lines), Fits(k)
      PROVE  Fits(k + 1)
  <2>1. k + 1 \in 0 .. Len(lines) /\ k + 1 \in 1 .. Len(lines) /\ k + 1 # 0 /\ (k + 1) - 1 = k /\ k \in Nat
    BY <1>0, <1>2
  <2>2. g[k + 1] = NextStates(lines, g[k], k + 1)
    BY <2>1
  <2>3. lines[k + 1] \in Line
    BY <1>0, <2>1
  <2>4. CASE ~Good(lines, k)
    <3>1. ~Good(lines, k + 1)
      BY <2>1, <2>4, GoodStep
    <3>2. NextStates(lines, {}, k + 1) = {}
      BY DEF NextStates
    <3>. QED
      BY <1>2, <2>2, <2>4, <3>1, <3>2
  <2>5. CASE Good(lines, k)
    <3>1. PICK s \in Reader : g[k] = {s} /\ InPlace(lines, k, s) /\ HasRead(lines, p, k, s)
      BY <1>2, <2>5
    <3>2. NextStates(lines, {s}, k + 1) = ReadLine(s, lines[k + 1])
      BY DEF NextStates
    <3>3. IF Good(lines, k + 1)
          THEN \E t \in Reader : ReadLine(s, lines[k + 1]) = {t} /\ InPlace(lines, k + 1, t) /\ HasRead(lines, p, k + 1, t)
          ELSE ReadLine(s, lines[k + 1]) = {}
      <4>1. CASE s.expects = "section"
        BY <2>1, <2>3, <2>5, <3>1, <4>1, ReadAtSection
      <4>2. CASE s.expects = "value"
        BY <2>1, <2>3, <2>5, <3>1, <4>2, ReadAtValue
      <4>3. CASE s.expects = "blank"
        BY <2>1, <2>3, <2>5, <3>1, <4>3, ReadAtEmptyLine
      <4>4. CASE s.expects = "item"
        BY <2>1, <2>3, <2>5, <3>1, <4>4, ReadAtItem
      <4>. QED
        BY <4>1, <4>2, <4>3, <4>4 DEF Reader
    <3>4. g[k + 1] = ReadLine(s, lines[k + 1])
      BY <2>2, <3>1, <3>2
    <3>. QED
      BY <3>3, <3>4
  <2>. QED
    BY <2>4, <2>5
<1>3. Bad = {}
  <2>. SUFFICES ASSUME Bad # {} PROVE FALSE
    OBVIOUS
  <2>. HIDE DEF Fits
  <2>1. Bad \in SUBSET Nat /\ \A k \in Bad : k \in 0 .. Len(lines) /\ ~Fits(k)
    BY <1>0
  <2>2. \A k \in 0 .. Len(lines) : k \notin Bad => Fits(k)
    OBVIOUS
  <2>. HIDE DEF Bad
  <2>3. PICK n \in Bad : \A j \in Bad : n <= j
    BY <2>1, LeastElement
  <2>4. n # 0
    BY <1>1, <2>1
  <2>5. n - 1 \in 0 .. Len(lines) /\ n - 1 # Len(lines) /\ ~(n <= n - 1) /\ (n - 1) + 1 = n
    BY <1>0, <2>1, <2>4
  <2>6. n - 1 \notin Bad
    BY <2>3, <2>5, Zenon
  <2>7. Fits((n - 1) + 1)
    BY <1>2, <2>2, <2>5, <2>6
  <2>. QED
    BY <2>1, <2>5, <2>7
<1>4. Fits(i)
  BY <1>3
<1>. QED
  BY <1>4

\* At the end: nothing was out of place and a section may begin exactly if the
\* file is well-formed.
LEMMA GoodAtEnd ==
  ASSUME NEW lines \in Seq(Line), lines # NoFile,
         NEW s \in Reader, InPlace(lines, Len(lines), s), Good(lines, Len(lines))
  PROVE  WellFormed(lines) <=> s.expects = "section"
<1>. DEFINE n == Len(lines)
<1>0. n \in Nat /\ DOMAIN lines = 1 .. n /\ (lines = << >> <=> n = 0)
  OBVIOUS
<1>. HIDE DEF n
<1>1. ASSUME s.expects = "section" PROVE WellFormed(lines)
  <2>1. (n = 0 \/ lines[n] = << >>) /\ (n > 1 => ~StartsValue(lines, n - 1))
    BY <1>1 DEF InPlace, n
  <2>2. \A i \in 1 .. n : Starts(lines, i) => lines[i][1] \in Sections
    BY DEF Good, n
  <2>3. ASSUME NEW i \in 1 .. n, StartsValue(lines, i) PROVE i + 2 \in 1 .. n /\ lines[i + 2] = << >>
    <3>1. i # n
      <4>1. lines[i] # << >>
        BY <2>3 DEF StartsValue, Starts
      <4>. QED
        BY <1>0, <2>1, <4>1
    <3>2. i # n - 1
      BY <1>0, <2>1, <2>3
    <3>3. i + 2 <= n
      BY <1>0, <3>1, <3>2
    <3>4. lines[i + 2] = << >>
      BY <2>3, <3>3 DEF Good, n
    <3>. QED
      BY <1>0, <3>3, <3>4
  <2>4. lines # << >> => lines[n] = << >>
    BY <1>0, <2>1
  <2>. QED
    BY <1>0, <2>2, <2>3, <2>4 DEF WellFormed, n
<1>2. ASSUME WellFormed(lines) PROVE s.expects = "section"
  <2>1. /\ \A i \in 1 .. n : StartsValue(lines, i) => i + 2 \in 1 .. n
        /\ n # 0 => lines[n] = << >>
    BY <1>0, <1>2 DEF WellFormed, n
  <2>2. CASE s.expects = "value"
    <3>1. n > 0 /\ StartsValue(lines, n)
      BY <2>2 DEF InPlace, n
    <3>. QED
      BY <1>0, <2>1, <3>1
  <2>3. CASE s.expects = "blank"
    <3>1. n > 1 /\ StartsValue(lines, n - 1)
      BY <2>3 DEF InPlace, n
    <3>. QED
      BY <1>0, <2>1, <3>1
  <2>4. CASE s.expects = "item"
    <3>1. PICK h \in 1 .. n : InParagraph(lines, h, n)
      BY <2>4 DEF InPlace, n
    <3>2. n \in h .. n /\ n # 0
      BY <1>0
    <3>. QED
      BY <2>1, <3>1, <3>2 DEF InParagraph
  <2>. QED
    BY <2>2, <2>3, <2>4 DEF Reader
<1>. QED
  BY <1>1, <1>2

\* The definitions of what a file means, and how far the reader got.
LEMMA ValueAtEnd ==
  ASSUME NEW lines \in Seq(Line), lines # << >> => lines[Len(lines)] = << >>,
         NEW section, NEW before, NEW v, IsValueTo(v, lines, section, before, Len(lines))
  PROVE  v = ValueOf(lines, section, before)
<1>. DEFINE n == Len(lines)
            heads == {h \in DOMAIN lines : Starts(lines, h) /\ Heading(lines[h]) = section}
<1>0. n \in Nat /\ DOMAIN lines = 1 .. n /\ (n # 0 => lines # << >>)
  OBVIOUS
<1>1. HeadsTo(lines, section, n) = heads
  <2>1. \A h \in heads : h # n
    BY <1>0 DEF Starts
  <2>2. \A h \in heads : h \in 1 .. n - 1
    BY <1>0, <2>1
  <2>3. \A h \in 1 .. n - 1 : h \in DOMAIN lines
    BY <1>0
  <2>. QED
    BY <2>2, <2>3 DEF HeadsTo
<1>. HIDE DEF n
<1>2. CASE heads = {}
  BY <1>1, <1>2 DEF IsValueTo, ValueOf, n
<1>3. CASE heads # {}
  <2>1. PICK h \in heads : v = Text(lines[h + 1]) /\ \A k \in heads : k <= h
    BY <1>1, <1>3 DEF IsValueTo, n
  <2>. DEFINE last == CHOOSE m \in heads : \A k \in heads : k <= m
  <2>2. last \in heads /\ \A k \in heads : k <= last
    BY <2>1
  <2>3. heads \subseteq Nat
    BY <1>0
  <2>. HIDE DEF heads, last
  <2>4. last = h
    BY <2>1, <2>2, <2>3
  <2>5. ValueOf(lines, section, before) = Text(lines[1 + last])
    BY <1>3 DEF ValueOf, heads, last
  <2>6. 1 + h = h + 1
    BY <2>1, <2>3
  <2>. QED
    BY <2>1, <2>4, <2>5, <2>6
<1>. QED
  BY <1>2, <1>3

LEMMA ListedAtEnd ==
  ASSUME NEW lines \in Seq(Line), NEW section
  PROVE  /\ Texts(lines, ListedTo(lines, section, Len(lines))) = {Text(l) : l \in LinesOf(lines, section)}
         /\ Depended(lines, ListedTo(lines, section, Len(lines))) = {Dependency(l) : l \in LinesOf(lines, section)}
         /\ Texts(lines, NoDirectories(lines, ListedTo(lines, section, Len(lines)))) =
              {Text(l) : l \in {k \in LinesOf(lines, section) : ~IsDirectory(k)}}
<1>1. ListedTo(lines, section, Len(lines)) =
        {k \in DOMAIN lines : \E h \in 1 .. k - 1 : InParagraph(lines, h, k) /\ Heading(lines[h]) = section}
  BY DEF ListedTo
<1>2. LinesOf(lines, section) = {lines[j] : j \in ListedTo(lines, section, Len(lines))}
  BY <1>1 DEF LinesOf
<1>. QED
  BY <1>2 DEF Texts, Depended, NoDirectories

\* What readFile() makes of a well-formed text, for any text; any other throws.
WordsIn(lines, section) == {Text(l) : l \in LinesOf(lines, section)}
DependenciesIn(lines) == {Dependency(l) : l \in LinesOf(lines, "%OPTDEPENDS%")}
FilesIn(lines) == {Text(l) : l \in {k \in LinesOf(lines, "%FILES%") : ~IsDirectory(k)}}
PackageRead(lines, p) ==
  [name |-> ValueOf(lines, "%NAME%", p.name), version |-> ValueOf(lines, "%VERSION%", p.version),
   provides |-> p.provides \cup WordsIn(lines, "%PROVIDES%"),
   optDepends |-> p.optDepends \cup DependenciesIn(lines),
   files |-> p.files \cup FilesIn(lines)]

\* The reader refuses a text exactly if it is damaged, and of any other returns
\* what the paragraphs say: parseInstalledPackage() for texts of any length.
THEOREM ReaderIsExact ==
  ASSUME NEW p \in PackageText, NEW lines \in Seq(Line) \cup {NoFile}
  PROVE  /\ ReadFile(p, lines) = IF WellFormed(lines) THEN {PackageRead(lines, p)} ELSE {}
         /\ WellFormed(lines) => PackageRead(lines, p) \in PackageText
<1>1. CASE lines = NoFile
  BY <1>1 DEF ReadFile, WellFormed
<1>2. CASE lines # NoFile
  <2>1. lines \in Seq(Line)
    BY <1>2
  <2>2. PICK g : /\ g = [i \in 0 .. Len(lines) |-> IF i = 0 THEN {AtStart(p)} ELSE NextStates(lines, g[i - 1], i)]
                 /\ ReadFile(p, lines) = {s.p : s \in {t \in g[Len(lines)] : t.expects = "section"}}
    BY <1>2, <2>1, ReadFileBy
  <2>3. Len(lines) \in 0 .. Len(lines)
    BY <2>1
  <2>4. IF Good(lines, Len(lines))
        THEN \E s \in Reader : g[Len(lines)] = {s} /\ InPlace(lines, Len(lines), s) /\ HasRead(lines, p, Len(lines), s)
        ELSE g[Len(lines)] = {}
    BY <2>1, <2>2, <2>3, ReadInOrder
  <2>5. CASE ~Good(lines, Len(lines))
    <3>1. ReadFile(p, lines) = {}
      BY <2>2, <2>4, <2>5
    <3>2. ~WellFormed(lines)
      <4>. SUFFICES ASSUME WellFormed(lines) PROVE FALSE
        OBVIOUS
      <4>. QED
        BY <2>1, <2>5 DEF WellFormed, Good
    <3>. QED
      BY <3>1, <3>2
  <2>6. CASE Good(lines, Len(lines))
    <3>1. PICK s \in Reader : g[Len(lines)] = {s} /\ InPlace(lines, Len(lines), s) /\ HasRead(lines, p, Len(lines), s)
      BY <2>4, <2>6
    <3>2. WellFormed(lines) <=> s.expects = "section"
      BY <1>2, <2>1, <2>6, <3>1, GoodAtEnd
    <3>3. CASE s.expects # "section"
      BY <2>2, <3>1, <3>2, <3>3
    <3>4. CASE s.expects = "section"
      <4>1. ReadFile(p, lines) = {s.p}
        BY <2>2, <3>1, <3>4
      <4>2. lines # << >> => lines[Len(lines)] = << >>
        BY <3>2, <3>4 DEF WellFormed
      <4>3. s.p.name = ValueOf(lines, "%NAME%", p.name) /\ s.p.version = ValueOf(lines, "%VERSION%", p.version)
        BY <2>1, <3>1, <4>2, ValueAtEnd DEF HasRead
      <4>4. /\ s.p.provides = p.provides \cup WordsIn(lines, "%PROVIDES%")
            /\ s.p.optDepends = p.optDepends \cup DependenciesIn(lines)
            /\ s.p.files = p.files \cup FilesIn(lines)
        BY <2>1, <3>1, ListedAtEnd DEF HasRead, WordsIn, DependenciesIn, FilesIn
      <4>5. s.p \in PackageText
        BY DEF Reader
      <4>6. s.p = [name |-> s.p.name, version |-> s.p.version, provides |-> s.p.provides,
                   optDepends |-> s.p.optDepends, files |-> s.p.files]
        BY <4>5 DEF PackageText
      <4>7. s.p = PackageRead(lines, p)
        BY <4>3, <4>4, <4>6 DEF PackageRead
      <4>. QED
        BY <3>2, <3>4, <4>1, <4>5, <4>7
    <3>. QED
      BY <3>3, <3>4
  <2>. QED
    BY <2>5, <2>6
<1>. QED
  BY <1>1, <1>2

-----------------------------------------------------------------------------
(* The inductive invariant.                                                *)

Name(d) == in.packages[d].name[1]

\* What parseInstalledPackage() accepts, and what merge() accepts on its own.
Sound(d) ==
  /\ WellFormed(in.packages[d].desc) /\ WellFormed(in.packages[d].files)
  /\ in.packages[d].name = <<Value(d, "%NAME%"), Value(d, "%VERSION%")>>
Named(d) == in.packages[d].name[1] # Empty /\ in.packages[d].name[2] # Empty

\* The maps are those of the packages in D, and no two of these collide.
Indexed(D) ==
  /\ \A d \in D : Sound(d) /\ Named(d)
  /\ DOMAIN packagesByName = {Name(d) : d \in D} /\ \A d \in D : packagesByName[Name(d)] = d
  /\ DOMAIN packagesByFilePath1 = UNION {FilesOf(d) : d \in D}
  /\ \A d \in D : \A f \in FilesOf(d) : packagesByFilePath1[f] = d
  /\ DOMAIN packagesByProvides = {Name(d) : d \in D} \cup UNION {Words(d, "%PROVIDES%") : d \in D}

Merged == IF pc = "parse" THEN {d \in Dir : task[d] = "done"} ELSE Dir

\* An exception of a task says that the database makes no sense.
ParseInv ==
  /\ pc = "parse" => task \in [Dir -> {"todo", "computed", "done"}]
  /\ thrown => ~Coherent /\ pc \in {"parse", "exited"} /\ (pc = "exited" => status = 2)
  /\ status # 2 => Indexed(Merged)

\* Optional dependencies as configured.
OptDepends(d) == (Dependencies(d) \cup in.addOptDepend[Name(d)]) \ in.removeOptDepend[Name(d)]

ConfigInv ==
  pc \notin {"parse", "configure"} /\ status # 2 => optDepends = [d \in Dir |-> OptDepends(d)]

\* main()'s control, and how far the search for libraries got.
ControlInv ==
  /\ in \in Inputs
  /\ pc \in {"parse", "configure", "collect", "resolve", "optdeps", "download", "find", "process", "report", "exited"}
  /\ status \in {0, 1, 2} /\ (pc # "exited" => status = 0)
  /\ pc \in {"parse", "configure", "collect"} => pass = 1
  /\ pass \in {1, 2}

BeforeSearch == pc \in {"parse", "configure", "collect", "optdeps"} \/ (pc = "resolve" /\ pass = 1)
InSearch == pc \in {"optdeps", "download", "find", "process"} \/ (pc = "resolve" /\ pass = 2)


ResolveInv ==
  /\ BeforeSearch => archiveName = << >>
  /\ pc = "resolve" /\ pass = 1 => files = in.needed /\ libs = in.found
  /\ InSearch => /\ files = [f \in Broken |-> in.needed[f] \ in.found] /\ Broken # {}
                 /\ unresolved = UNION {in.needed[f] \ in.found : f \in File}
                 /\ in.useOptionalDeps
  /\ pc \in {"optdeps", "download", "find"} => libs = in.found
  /\ pc = "process" => /\ DOMAIN task = WithArchive
                       /\ libs = in.found \cup (LibsOf({dep \in DOMAIN task : task[dep] = "done"}) \cap unresolved)
  /\ pc = "resolve" /\ pass = 2 => libs = in.found \cup (LibsOf(WithArchive) \cap unresolved)
  /\ pc = "report" \/ status = 1 => DOMAIN files = StillBroken /\ StillBroken # {}
  /\ pc = "exited" /\ status = 0 => StillBroken = {}

\* What is asked for, and how often.
Sought == (UNION {OptDepends(d) : d \in UNION {OwnersOf(f) : f \in Broken}}) \ Provided

AskInv ==
  /\ asked \in [Dep -> Nat]
  /\ BeforeSearch \/ ~in.useOptionalDeps \/ in.noNetwork => \A dep \in Dep : asked[dep] = 0
  /\ pc \in {"download", "find", "process"} => DOMAIN archiveName = Sought
  /\ pc = "download" => /\ left \subseteq DOMAIN archiveName
                        /\ \A dep \in Dep : asked[dep] = IF dep \in DOMAIN archiveName \ left /\ ~in.noNetwork THEN 1 ELSE 0
  /\ pc \in {"find", "process"} /\ ~in.noNetwork =>
       \A dep \in Dep : asked[dep] = IF dep \in DOMAIN archiveName THEN 1 ELSE 0

IInv == ControlInv /\ ParseInv /\ ConfigInv /\ ResolveInv /\ AskInv /\ ReportsAll

-----------------------------------------------------------------------------
(* The database.                                                           *)

\* parseInstalledPackage() makes of a directory what its two files say, or throws.
LEMMA PackageParsed ==
  ASSUME in \in Inputs, NEW d \in Dir
  PROVE  /\ Sound(d) => \E p : /\ Parsed(d) = {p}
                               /\ p.name = Name(d) /\ p.version = in.packages[d].name[2]
                               /\ p.provides = Words(d, "%PROVIDES%") /\ p.optDepends = Dependencies(d)
                               /\ p.files = FilesOf(d)
         /\ ~Sound(d) => Parsed(d) = {}
<1>. DEFINE dir == in.packages[d]
            q == PackageRead(dir.desc, NewPackage)
            p == PackageRead(dir.files, q)
<1>1. /\ dir.name \in (Word \cup {Empty}) \X (Word \cup {Empty})
      /\ dir.desc \in Seq(Line) \cup {NoFile} /\ dir.files \in Seq(Line) \cup {NoFile}
  BY InputsAssumption
<1>2. NewPackage \in PackageText
  BY DEF NewPackage, PackageText
<1>3. Parsed(d) = {r \in UNION {ReadFile(s, dir.files) : s \in ReadFile(NewPackage, dir.desc)} : <<r.name, r.version>> = dir.name}
  BY DEF Parsed, ParseInstalledPackage
<1>4. ReadFile(NewPackage, dir.desc) = IF WellFormed(dir.desc) THEN {q} ELSE {}
  BY <1>1, <1>2, ReaderIsExact
<1>5. CASE ~WellFormed(dir.desc)
  BY <1>3, <1>4, <1>5 DEF Sound
<1>6. CASE WellFormed(dir.desc)
  <2>1. q \in PackageText
    BY <1>1, <1>2, <1>6, ReaderIsExact
  <2>. HIDE DEF q
  <2>2. ReadFile(q, dir.files) = IF WellFormed(dir.files) THEN {p} ELSE {}
    BY <1>1, <2>1, ReaderIsExact
  <2>3. Parsed(d) = {r \in ReadFile(q, dir.files) : <<r.name, r.version>> = dir.name}
    BY <1>3, <1>4, <1>6
  <2>4. CASE ~WellFormed(dir.files)
    BY <2>2, <2>3, <2>4 DEF Sound
  <2>5. CASE WellFormed(dir.files)
    <3>1. /\ p.name = ValueOf(dir.files, "%NAME%", q.name) /\ p.version = ValueOf(dir.files, "%VERSION%", q.version)
          /\ p.provides = q.provides \cup WordsIn(dir.files, "%PROVIDES%")
          /\ p.optDepends = q.optDepends \cup DependenciesIn(dir.files)
          /\ p.files = q.files \cup FilesIn(dir.files)
      BY DEF PackageRead
    <3>2. /\ q.name = ValueOf(dir.desc, "%NAME%", Empty) /\ q.version = ValueOf(dir.desc, "%VERSION%", Empty)
          /\ q.provides = WordsIn(dir.desc, "%PROVIDES%")
          /\ q.optDepends = DependenciesIn(dir.desc)
          /\ q.files = FilesIn(dir.desc)
      BY DEF PackageRead, NewPackage, q
    <3>. HIDE DEF p
    <3>3. p.name = Value(d, "%NAME%") /\ p.version = Value(d, "%VERSION%")
      BY <3>1, <3>2 DEF Value
    <3>4. p.provides = Words(d, "%PROVIDES%") /\ p.optDepends = Dependencies(d)
      <4>1. \A section : Words(d, section) = WordsIn(dir.desc, section) \cup WordsIn(dir.files, section)
        BY DEF Words, Lines, WordsIn
      <4>2. Dependencies(d) = DependenciesIn(dir.desc) \cup DependenciesIn(dir.files)
        BY DEF Dependencies, Lines, DependenciesIn
      <4>. QED
        BY <3>1, <3>2, <4>1, <4>2
    <3>5. p.files = FilesOf(d)
      <4>1. FilesOf(d) = FilesIn(dir.desc) \cup FilesIn(dir.files)
        BY DEF FilesOf, FilesIn, Lines
      <4>. QED
        BY <3>1, <3>2, <4>1
    <3>6. Parsed(d) = {r \in {p} : <<r.name, r.version>> = dir.name}
      BY <2>2, <2>3, <2>5
    <3>7. Sound(d) <=> <<p.name, p.version>> = dir.name
      BY <1>6, <2>5, <3>3 DEF Sound
    <3>8. CASE ~Sound(d)
      BY <3>6, <3>7, <3>8
    <3>9. CASE Sound(d)
      <4>1. Parsed(d) = {p}
        BY <3>6, <3>7, <3>9
      <4>2. p.name = Name(d) /\ p.version = dir.name[2]
        BY <3>7, <3>9 DEF Name
      <4>. QED
        BY <3>4, <3>5, <3>9, <4>1, <4>2
    <3>. QED
      BY <3>8, <3>9
  <2>. QED
    BY <2>4, <2>5
<1>. QED
  BY <1>5, <1>6

\* Coherent, by its parts.
LEMMA CoherentParts ==
  ASSUME in \in Inputs
  PROVE  Coherent <=> /\ \A d \in Dir : Sound(d) /\ Named(d)
                      /\ \A d, e \in Dir : d # e => Name(d) # Name(e) /\ FilesOf(d) \cap FilesOf(e) = {}
<1>1. ASSUME NEW d \in Dir
      PROVE  Empty \notin Range(in.packages[d].name) <=> Named(d)
  <2>1. PICK a \in Word \cup {Empty}, b \in Word \cup {Empty} : in.packages[d].name = <<a, b>>
    BY InputsAssumption
  <2>2. Range(<<a, b>>) = {a, b}
    <3>1. DOMAIN <<a, b>> = {1, 2}
      OBVIOUS
    <3>. QED
      BY <3>1 DEF Range
  <2>. QED
    BY <2>1, <2>2 DEF Named
<1>. QED
  BY <1>1 DEF Coherent, Sound, Name

\* A database of which all packages could be merged is coherent.
LEMMA IndexedCoherent ==
  ASSUME in \in Inputs, Indexed(Dir)
  PROVE  Coherent
<1>1. ASSUME NEW d \in Dir, NEW e \in Dir, d # e
      PROVE  Name(d) # Name(e) /\ FilesOf(d) \cap FilesOf(e) = {}
  BY <1>1 DEF Indexed
<1>. QED
  BY <1>1, CoherentParts DEF Indexed

\* The owner that is looked up is the owner.
LEMMA OwnerIs ==
  ASSUME Indexed(Dir), NEW f
  PROVE  /\ f \in DOMAIN packagesByFilePath1 => packagesByFilePath1[f] \in Dir /\ OwnersOf(f) = {packagesByFilePath1[f]}
         /\ f \notin DOMAIN packagesByFilePath1 => OwnersOf(f) = {}
<1>1. f \in DOMAIN packagesByFilePath1 <=> \E d \in Dir : f \in FilesOf(d)
  BY DEF Indexed
<1>2. \A d \in Dir : f \in FilesOf(d) => packagesByFilePath1[f] = d
  BY DEF Indexed
<1>. QED
  BY <1>1, <1>2 DEF OwnersOf

\* What follows from the input alone stays.
LEMMA InputStays ==
  ASSUME in' = in
  PROVE  /\ Coherent' <=> Coherent
         /\ \A d : (Sound(d)' <=> Sound(d)) /\ (Named(d)' <=> Named(d)) /\ Name(d)' = Name(d)
         /\ \A d : FilesOf(d)' = FilesOf(d) /\ OptDepends(d)' = OptDepends(d)
         /\ \A d, section : Words(d, section)' = Words(d, section)
         /\ \A f : OwnersOf(f)' = OwnersOf(f)
         /\ Broken' = Broken /\ Provided' = Provided
BY DEF Coherent, Sound, Named, Name, FilesOf, OptDepends, Words, Lines, Value, OwnersOf, Broken, Provided, Dependencies

LEMMA IndexedStays ==
  ASSUME UNCHANGED <<in, packagesByName, packagesByProvides, packagesByFilePath1>>, NEW D
  PROVE  Indexed(D)' <=> Indexed(D)
<1>1. /\ \A d : (Sound(d)' <=> Sound(d)) /\ (Named(d)' <=> Named(d)) /\ Name(d)' = Name(d) /\ FilesOf(d)' = FilesOf(d)
      /\ \A d : Words(d, "%PROVIDES%")' = Words(d, "%PROVIDES%")
  BY InputStays
<1>2. /\ {Name(d)' : d \in D} = {Name(d) : d \in D} /\ {FilesOf(d)' : d \in D} = {FilesOf(d) : d \in D}
      /\ {Words(d, "%PROVIDES%")' : d \in D} = {Words(d, "%PROVIDES%") : d \in D}
  BY <1>1
<1>. QED
  BY <1>1, <1>2, Zenon DEF Indexed

\* One more package that collides with none of D.
LEMMA IndexedGrows ==
  ASSUME NEW D \in SUBSET Dir, NEW d \in Dir, d \notin D, Indexed(D), Sound(d), Named(d), in' = in,
         Name(d) \notin DOMAIN packagesByName, FilesOf(d) \cap DOMAIN packagesByFilePath1 = {},
         packagesByName' = Inserted(packagesByName, {Name(d)}, d),
         packagesByProvides' = Inserted(packagesByProvides, {Name(d)} \cup Words(d, "%PROVIDES%"), d),
         packagesByFilePath1' = Inserted(packagesByFilePath1, FilesOf(d), d)
  PROVE  Indexed(D \cup {d})'
<1>1. \A map, keys, value :
        /\ DOMAIN Inserted(map, keys, value) = DOMAIN map \cup keys
        /\ \A k \in DOMAIN map : Inserted(map, keys, value)[k] = map[k]
        /\ \A k \in keys : k \notin DOMAIN map => Inserted(map, keys, value)[k] = value
  BY DEF Inserted
<1>2. \A e \in D \cup {d} : Sound(e)' /\ Named(e)'
  BY InputStays DEF Indexed
<1>3. /\ DOMAIN packagesByName' = {Name(e)' : e \in D \cup {d}}
      /\ \A e \in D \cup {d} : packagesByName'[Name(e)'] = e
  <2>1. DOMAIN packagesByName' = DOMAIN packagesByName \cup {Name(d)}
    BY <1>1
  <2>2. DOMAIN packagesByName = {Name(e) : e \in D} /\ \A e \in D : packagesByName[Name(e)] = e
    BY DEF Indexed
  <2>3. \A e \in D : packagesByName'[Name(e)] = e
    BY <1>1, <2>2
  <2>4. packagesByName'[Name(d)] = d
    BY <1>1
  <2>5. \A e : Name(e)' = Name(e)
    BY InputStays
  <2>6. {Name(e)' : e \in D \cup {d}} = {Name(e) : e \in D} \cup {Name(d)}
    BY <2>5
  <2>. QED
    BY <2>1, <2>2, <2>3, <2>4, <2>5, <2>6
<1>4. /\ DOMAIN packagesByFilePath1' = UNION {FilesOf(e)' : e \in D \cup {d}}
      /\ \A e \in D \cup {d} : \A f \in FilesOf(e)' : packagesByFilePath1'[f] = e
  <2>1. DOMAIN packagesByFilePath1' = DOMAIN packagesByFilePath1 \cup FilesOf(d)
    BY <1>1
  <2>2. /\ DOMAIN packagesByFilePath1 = UNION {FilesOf(e) : e \in D}
        /\ \A e \in D : \A f \in FilesOf(e) : packagesByFilePath1[f] = e
    BY DEF Indexed
  <2>3. \A e \in D : \A f \in FilesOf(e) : packagesByFilePath1'[f] = e
    BY <1>1, <2>2
  <2>4. \A f \in FilesOf(d) : packagesByFilePath1'[f] = d
    BY <1>1
  <2>. QED
    BY <2>1, <2>2, <2>3, <2>4, InputStays
<1>5. DOMAIN packagesByProvides' =
        {Name(e)' : e \in D \cup {d}} \cup UNION {Words(e, "%PROVIDES%")' : e \in D \cup {d}}
  <2>. DEFINE keys == {Name(d)} \cup Words(d, "%PROVIDES%")
  <2>0. packagesByProvides' = Inserted(packagesByProvides, keys, d)
    OBVIOUS
  <2>1. DOMAIN packagesByProvides' = DOMAIN packagesByProvides \cup keys
    <3>. HIDE DEF keys
    <3>. QED
      BY <2>0 DEF Inserted
  <2>2. DOMAIN packagesByProvides = {Name(e) : e \in D} \cup UNION {Words(e, "%PROVIDES%") : e \in D}
    BY DEF Indexed
  <2>. QED
    BY <2>1, <2>2, InputStays
<1>. QED
  BY <1>2, <1>3, <1>4, <1>5 DEF Indexed

-----------------------------------------------------------------------------
(* The steps.                                                              *)

\* Outside its batches PacMan's maps stay as they are.
LEMMA ParseStays ==
  ASSUME IInv, pc \notin {"parse", "exited"}, pc' # "parse",
         UNCHANGED <<in, thrown, packagesByName, packagesByProvides, packagesByFilePath1>>
  PROVE  ParseInv'
<1>2. ~thrown
  BY DEF IInv, ParseInv
<1>3. Indexed(Dir)
  BY DEF IInv, ParseInv, ControlInv, Merged
<1>4. Indexed(Dir)'
  BY <1>3, IndexedStays
<1>. QED
  BY <1>2, <1>4 DEF ParseInv, Merged

LEMMA ConfigStays ==
  ASSUME IInv, pc \notin {"parse", "configure", "exited"}, UNCHANGED <<in, optDepends>>
  PROVE  ConfigInv'
<1>1. optDepends = [d \in Dir |-> OptDepends(d)]
  BY DEF IInv, ConfigInv, ControlInv
<1>2. \A d : OptDepends(d)' = OptDepends(d)
  BY InputStays
<1>3. [d \in Dir |-> OptDepends(d)'] = [d \in Dir |-> OptDepends(d)]
  BY <1>2
<1>. QED
  BY <1>1, <1>3, Zenon DEF ConfigInv

\* What remains to be seen to in a batch of ParseInstalledPackageTask.
LEMMA ParsingStays ==
  ASSUME IInv, pc = "parse", UNCHANGED <<in, pc, pass, resolveVars, depVars, exitVars>>
  PROVE  ControlInv' /\ ConfigInv' /\ ResolveInv' /\ AskInv' /\ ReportsAll'
<1>0. UNCHANGED <<in, pc, pass, files, libs, unresolved, archiveName, left, asked, report, status>>
  BY DEF resolveVars, depVars, exitVars
<1>1. status = 0
  BY DEF IInv, ControlInv
<1>2. ControlInv'
  BY <1>0 DEF IInv, ControlInv
<1>3. ConfigInv'
  BY <1>0 DEF ConfigInv
<1>4. ResolveInv'
  BY <1>0, <1>1 DEF IInv, ResolveInv, BeforeSearch, InSearch
<1>5. AskInv'
  BY <1>0 DEF IInv, AskInv, BeforeSearch
<1>6. ReportsAll'
  BY <1>0, <1>1 DEF ReportsAll
<1>. QED
  BY <1>2, <1>3, <1>4, <1>5, <1>6

LEMMA FailStep ==
  ASSUME IInv, pc # "exited", Fail
  PROVE  IInv'
<1>0. UNCHANGED <<in, pass, thrown, asked, archiveName>> /\ pc' = "exited" /\ status' = 2
  BY DEF Fail, depVars
<1>1. ControlInv'
  BY <1>0 DEF IInv, ControlInv
<1>2. ParseInv'
  BY <1>0, InputStays DEF IInv, ParseInv
<1>3. ConfigInv'
  BY <1>0 DEF ConfigInv
<1>4. ResolveInv'
  BY <1>0 DEF ResolveInv, BeforeSearch, InSearch
<1>5. AskInv'
  BY <1>0 DEF IInv, AskInv, BeforeSearch
<1>6. ReportsAll'
  BY <1>0 DEF ReportsAll
<1>. QED
  BY <1>1, <1>2, <1>3, <1>4, <1>5, <1>6 DEF IInv

LEMMA InitInv ==
  ASSUME Init
  PROVE  IInv
<1>1. ControlInv
  BY DEF Init, ControlInv
<1>2. ParseInv
  <2>1. Merged = {}
    BY DEF Init, Merged
  <2>2. Indexed({})
    BY DEF Init, Indexed
  <2>. QED
    BY <2>1, <2>2 DEF Init, ParseInv
<1>3. ConfigInv
  BY DEF Init, ConfigInv
<1>4. ResolveInv
  BY DEF Init, ResolveInv, BeforeSearch, InSearch
<1>5. AskInv
  BY DEF Init, AskInv
<1>6. ReportsAll
  BY DEF Init, ReportsAll
<1>. QED
  BY <1>1, <1>2, <1>3, <1>4, <1>5, <1>6 DEF IInv

LEMMA ComputePackageStep ==
  ASSUME IInv, NEW d \in Dir, ComputePackage(d)
  PROVE  IInv'
<1>0. /\ pc = "parse" /\ task[d] = "todo" /\ ~thrown /\ status = 0 /\ in \in Inputs
      /\ UNCHANGED <<in, pc, pass, resolveVars, depVars, exitVars>>
  BY DEF ComputePackage, Doing, IInv, ControlInv
<1>1. task \in [Dir -> {"todo", "computed", "done"}] /\ Indexed(Merged)
  BY <1>0 DEF IInv, ParseInv
<1>2. UNCHANGED <<packagesByName, packagesByProvides, packagesByFilePath1>>
  BY DEF ComputePackage, Throw, packageVars
<1>3. pc' = "parse" /\ status' = 0
  BY <1>0 DEF exitVars
<1>4. task' \in [Dir -> {"todo", "computed", "done"}] /\ Merged' = Merged
  <2>1. task' = task \/ task' = [task EXCEPT ![d] = "computed"]
    BY DEF ComputePackage, Throw, Becomes
  <2>. QED
    BY <1>0, <1>1, <1>3, <2>1 DEF Merged
<1>5. Indexed(Merged)'
  BY <1>0, <1>1, <1>2, <1>4, IndexedStays
<1>6. thrown' => ~Coherent'
  <2>1. thrown' => Parsed(d) = {}
    BY <1>0 DEF ComputePackage
  <2>2. Parsed(d) = {} => ~Sound(d)
    BY <1>0, PackageParsed
  <2>3. ~Sound(d) => ~Coherent
    BY <1>0, CoherentParts
  <2>. QED
    BY <1>0, <2>1, <2>2, <2>3, InputStays
<1>7. ParseInv'
  BY <1>3, <1>4, <1>5, <1>6 DEF ParseInv
<1>. QED
  BY <1>0, <1>7, ParsingStays DEF IInv

LEMMA MergePackageStep ==
  ASSUME IInv, NEW d \in Dir, MergePackage(d)
  PROVE  IInv'
<1>0. /\ pc = "parse" /\ task[d] = "computed" /\ ~thrown /\ status = 0 /\ in \in Inputs
      /\ UNCHANGED <<in, pc, pass, resolveVars, depVars, exitVars>>
  BY DEF MergePackage, Doing, IInv, ControlInv
<1>1. task \in [Dir -> {"todo", "computed", "done"}] /\ Indexed(Merged) /\ Merged = {e \in Dir : task[e] = "done"}
  BY <1>0 DEF IInv, ParseInv, Merged
<1>2. pc' = "parse" /\ status' = 0
  BY <1>0 DEF exitVars
<1>3. PICK p \in Parsed(d) :
         IF p.name = Empty \/ p.version = Empty \/ p.name \in DOMAIN packagesByName \/ p.files \cap DOMAIN packagesByFilePath1 # {}
         THEN Throw
         ELSE /\ Becomes(d, "done")
              /\ packagesByName' = Inserted(packagesByName, {p.name}, d)
              /\ packagesByProvides' = Inserted(packagesByProvides, {p.name} \cup p.provides, d)
              /\ packagesByFilePath1' = Inserted(packagesByFilePath1, p.files, d)
              /\ UNCHANGED <<thrown, optDepends>>
  BY DEF MergePackage
<1>4. Sound(d)
  BY <1>0, <1>3, PackageParsed
<1>5. /\ p.name = Name(d) /\ p.version = in.packages[d].name[2]
      /\ p.provides = Words(d, "%PROVIDES%") /\ p.files = FilesOf(d)
  BY <1>0, <1>3, <1>4, PackageParsed
<1>6. d \notin Merged
  BY <1>0, <1>1
<1>7. CASE p.name = Empty \/ p.version = Empty \/ p.name \in DOMAIN packagesByName \/ p.files \cap DOMAIN packagesByFilePath1 # {}
  <2>1. UNCHANGED <<task, packagesByName, packagesByProvides, packagesByFilePath1>>
    BY <1>3, <1>7 DEF Throw, packageVars
  <2>2. Merged' = Merged
    BY <1>0, <1>2, <2>1 DEF Merged
  <2>3. ~Coherent
    <3>1. CASE p.name = Empty \/ p.version = Empty
      BY <1>0, <1>5, <3>1, CoherentParts DEF Named, Name
    <3>2. CASE p.name \in DOMAIN packagesByName
      <4>1. PICK e \in Merged : Name(e) = Name(d)
        BY <1>1, <1>5, <3>2 DEF Indexed
      <4>. QED
        BY <1>0, <1>1, <1>6, <4>1, CoherentParts
    <3>3. CASE p.files \cap DOMAIN packagesByFilePath1 # {}
      <4>1. PICK e \in Merged : FilesOf(e) \cap FilesOf(d) # {}
        BY <1>1, <1>5, <3>3 DEF Indexed
      <4>. QED
        BY <1>0, <1>1, <1>6, <4>1, CoherentParts
    <3>. QED
      BY <1>7, <3>1, <3>2, <3>3
  <2>4. ~Coherent'
    BY <1>0, <2>3, InputStays
  <2>5. Indexed(Merged)'
    BY <1>0, <1>1, <2>1, <2>2, IndexedStays
  <2>6. ParseInv'
    BY <1>1, <1>2, <2>1, <2>4, <2>5 DEF ParseInv
  <2>. QED
    BY <1>0, <2>6, ParsingStays DEF IInv
<1>8. CASE ~(p.name = Empty \/ p.version = Empty \/ p.name \in DOMAIN packagesByName \/ p.files \cap DOMAIN packagesByFilePath1 # {})
  <2>1. /\ task' = [task EXCEPT ![d] = "done"] /\ ~thrown'
        /\ packagesByName' = Inserted(packagesByName, {Name(d)}, d)
        /\ packagesByProvides' = Inserted(packagesByProvides, {Name(d)} \cup Words(d, "%PROVIDES%"), d)
        /\ packagesByFilePath1' = Inserted(packagesByFilePath1, FilesOf(d), d)
    BY <1>0, <1>3, <1>5, <1>8 DEF Becomes
  <2>2. Named(d) /\ Name(d) \notin DOMAIN packagesByName /\ FilesOf(d) \cap DOMAIN packagesByFilePath1 = {}
    BY <1>5, <1>8 DEF Named, Name
  <2>3. task' \in [Dir -> {"todo", "computed", "done"}] /\ Merged' = Merged \cup {d}
    BY <1>1, <1>2, <2>1 DEF Merged
  <2>4. Indexed(Merged)'
    <3>1. PICK D \in SUBSET Dir : D = Merged
      BY <1>1
    <3>2. d \notin D /\ Indexed(D)
      BY <1>1, <1>6, <3>1
    <3>3. Indexed(D \cup {d})'
      BY <1>0, <1>4, <2>1, <2>2, <3>2, IndexedGrows
    <3>4. Merged' = D \cup {d}
      BY <2>3, <3>1
    <3>. QED
      BY <3>3, <3>4
  <2>5. ParseInv'
    BY <1>2, <2>1, <2>3, <2>4 DEF ParseInv
  <2>. QED
    BY <1>0, <2>5, ParsingStays DEF IInv
<1>. QED
  BY <1>7, <1>8

LEMMA AwaitPackagesStep ==
  ASSUME IInv, AwaitPackages
  PROVE  IInv'
<1>1. CASE thrown /\ Fail
  BY <1>1, FailStep DEF AwaitPackages
<1>2. CASE ~(thrown /\ Fail)
  <2>0. /\ pc = "parse" /\ pc' = "configure" /\ ~thrown /\ Drained
        /\ UNCHANGED <<in, pass, thrown, packageVars, resolveVars, depVars, exitVars>>
    BY <1>2 DEF AwaitPackages
  <2>1. /\ UNCHANGED <<packagesByName, packagesByProvides, packagesByFilePath1, optDepends, files, libs, unresolved>>
        /\ UNCHANGED <<archiveName, left, asked, report, status>>
    BY <2>0 DEF packageVars, resolveVars, depVars, exitVars
  <2>2. status = 0
    BY <2>0 DEF IInv, ControlInv
  <2>3. Indexed(Dir)
    <3>1. task \in [Dir -> {"todo", "computed", "done"}] /\ Indexed(Merged)
      BY <2>0, <2>2 DEF IInv, ParseInv
    <3>2. Merged = Dir
      BY <2>0, <3>1 DEF Merged, Drained
    <3>. QED
      BY <3>1, <3>2
  <2>4. Indexed(Dir)'
    BY <2>0, <2>1, <2>3, IndexedStays
  <2>5. ControlInv'
    BY <2>0, <2>1 DEF IInv, ControlInv
  <2>6. ParseInv'
    BY <2>0, <2>4 DEF ParseInv, Merged
  <2>7. ConfigInv'
    BY <2>0 DEF ConfigInv
  <2>8. ResolveInv'
    BY <2>0, <2>1, <2>2 DEF IInv, ResolveInv, BeforeSearch, InSearch
  <2>9. AskInv'
    BY <2>0, <2>1 DEF IInv, AskInv, BeforeSearch
  <2>10. ReportsAll'
    BY <2>1, <2>2 DEF ReportsAll
  <2>. QED
    BY <2>5, <2>6, <2>7, <2>8, <2>9, <2>10 DEF IInv
<1>. QED
  BY <1>1, <1>2

LEMMA ConfigureStep ==
  ASSUME IInv, Configure
  PROVE  IInv'
<1>0. /\ pc = "configure" /\ pc' = "collect" /\ UNCHANGED <<in, pass, thrown>>
      /\ UNCHANGED <<packagesByName, packagesByProvides, packagesByFilePath1, files, libs, unresolved>>
      /\ UNCHANGED <<archiveName, left, asked, report, status>>
  BY DEF Configure, resolveVars, depVars, exitVars
<1>1. status = 0 /\ in \in Inputs
  BY <1>0 DEF IInv, ControlInv
<1>2. Indexed(Dir)
  BY <1>0, <1>1 DEF IInv, ParseInv, Merged
<1>3. ControlInv'
  BY <1>0 DEF IInv, ControlInv
<1>4. ParseInv'
  BY <1>0, ParseStays
<1>5. ConfigInv'
  <2>1. Range(packagesByName) = Dir
    <3>1. \A k \in DOMAIN packagesByName : packagesByName[k] \in Dir
      BY <1>2 DEF Indexed
    <3>2. \A d \in Dir : Name(d) \in DOMAIN packagesByName /\ packagesByName[Name(d)] = d
      BY <1>2 DEF Indexed
    <3>. QED
      BY <3>1, <3>2 DEF Range
  <2>2. ASSUME NEW d \in Dir
        PROVE  UNION {Adjusted(p) : p \in Parsed(d)} = OptDepends(d)
    <3>1. Sound(d)
      BY <1>2 DEF Indexed
    <3>2. PICK p : Parsed(d) = {p} /\ p.name = Name(d) /\ p.optDepends = Dependencies(d)
      BY <1>1, <3>1, PackageParsed
    <3>3. Adjusted(p) = OptDepends(d)
      BY <3>2 DEF Adjusted, OptDepends
    <3>. QED
      BY <3>2, <3>3
  <2>3. optDepends' = [d \in Range(packagesByName) |-> UNION {Adjusted(p) : p \in Parsed(d)}]
    BY DEF Configure
  <2>4. optDepends' = [d \in Dir |-> OptDepends(d)]
    BY <2>1, <2>2, <2>3
  <2>5. \A d : OptDepends(d)' = OptDepends(d)
    BY <1>0, InputStays
  <2>6. [d \in Dir |-> OptDepends(d)'] = [d \in Dir |-> OptDepends(d)]
    BY <2>5
  <2>. QED
    BY <2>4, <2>6, Zenon DEF ConfigInv
<1>6. ResolveInv'
  BY <1>0, <1>1 DEF IInv, ResolveInv, BeforeSearch, InSearch
<1>7. AskInv'
  BY <1>0 DEF IInv, AskInv, BeforeSearch
<1>8. ReportsAll'
  BY <1>0, <1>1 DEF ReportsAll
<1>. QED
  BY <1>3, <1>4, <1>5, <1>6, <1>7, <1>8 DEF IInv

LEMMA CollectStep ==
  ASSUME IInv, Collect
  PROVE  IInv'
<1>1. CASE Fail
  BY <1>1, FailStep DEF Collect
<1>2. CASE ~Fail
  <2>0. /\ pc = "collect" /\ pc' = "resolve" /\ UNCHANGED <<in, pass, thrown, optDepends>>
        /\ UNCHANGED <<packagesByName, packagesByProvides, packagesByFilePath1>>
        /\ UNCHANGED <<archiveName, left, asked, report, status>>
        /\ files' = in.needed /\ libs' = in.found
    BY <1>2 DEF Collect, packageVars, depVars, exitVars
  <2>1. status = 0 /\ pass = 1
    BY <2>0 DEF IInv, ControlInv
  <2>2. ControlInv'
    BY <2>0 DEF IInv, ControlInv
  <2>3. ParseInv'
    BY <2>0, ParseStays
  <2>4. ConfigInv'
    BY <2>0, ConfigStays
  <2>5. ResolveInv'
    BY <2>0, <2>1 DEF IInv, ResolveInv, BeforeSearch, InSearch
  <2>6. AskInv'
    BY <2>0, <2>1 DEF IInv, AskInv, BeforeSearch
  <2>7. ReportsAll'
    BY <2>0, <2>1 DEF ReportsAll
  <2>. QED
    BY <2>2, <2>3, <2>4, <2>5, <2>6, <2>7 DEF IInv
<1>. QED
  BY <1>1, <1>2

\* Before anything was looked for, what is missing is missing on the system.
LEMMA NothingFound ==
  ASSUME WithArchive = {}
  PROVE  Available = in.found /\ StillBroken = Broken
BY DEF Available, LibsOf, StillBroken, Broken

\* What the resolver makes of the files, in either pass.
LEMMA Resolved ==
  ASSUME IInv, pc = "resolve"
  PROVE  /\ Problematic = StillBroken /\ StillBroken \subseteq Broken
         /\ pass = 1 => /\ [f \in Problematic |-> Missing(f)] = [f \in Broken |-> in.needed[f] \ in.found]
                        /\ UNION {Missing(f) : f \in DOMAIN files} = UNION {in.needed[f] \ in.found : f \in File}
                        /\ StillBroken = Broken
<1>0. in.needed \in [File -> SUBSET Lib]
  BY InputsAssumption DEF IInv, ControlInv
<1>1. CASE pass = 1
  <2>1. files = in.needed /\ libs = in.found /\ archiveName = << >>
    BY <1>1 DEF IInv, ResolveInv, BeforeSearch
  <2>2. WithArchive = {}
    BY <2>1 DEF WithArchive
  <2>3. DOMAIN files = File /\ \A f \in File : Missing(f) = in.needed[f] \ in.found
    BY <1>0, <2>1 DEF Missing
  <2>4. Problematic = Broken
    BY <2>3 DEF Problematic, Broken
  <2>5. [f \in Problematic |-> Missing(f)] = [f \in Broken |-> in.needed[f] \ in.found]
    <3>1. \A f \in Broken : Missing(f) = in.needed[f] \ in.found
      BY <2>3 DEF Broken
    <3>. QED
      BY <2>4, <3>1
  <2>6. UNION {Missing(f) : f \in DOMAIN files} = UNION {in.needed[f] \ in.found : f \in File}
    BY <2>3
  <2>. QED
    BY <2>2, <2>4, <2>5, <2>6, NothingFound
<1>2. CASE pass # 1
  <2>1. /\ files = [f \in Broken |-> in.needed[f] \ in.found]
        /\ unresolved = UNION {in.needed[f] \ in.found : f \in File}
        /\ libs = in.found \cup (LibsOf(WithArchive) \cap unresolved)
    BY <1>2 DEF IInv, ResolveInv, ControlInv, InSearch
  <2>2. DOMAIN files = Broken /\ Broken \subseteq File
    BY <2>1 DEF Broken
  <2>3. ASSUME NEW f \in Broken
        PROVE  Missing(f) = in.needed[f] \ Available
    <3>1. Missing(f) = (in.needed[f] \ in.found) \ libs
      BY <2>1 DEF Missing
    <3>2. in.needed[f] \ in.found \subseteq unresolved
      BY <2>1, <2>2
    <3>. QED
      BY <2>1, <3>1, <3>2 DEF Available
  <2>4. StillBroken \subseteq Broken
    BY DEF StillBroken, Broken, Available
  <2>5. Problematic = StillBroken
    BY <2>2, <2>3, <2>4 DEF Problematic, StillBroken
  <2>. QED
    BY <1>2, <2>4, <2>5
<1>. QED
  BY <1>1, <1>2

LEMMA ResolveStep ==
  ASSUME IInv, Resolve
  PROVE  IInv'
<1>0. /\ pc = "resolve" /\ pc' = AfterResolve /\ UNCHANGED <<in, pass, thrown, optDepends, libs>>
      /\ UNCHANGED <<packagesByName, packagesByProvides, packagesByFilePath1>>
      /\ UNCHANGED <<archiveName, left, asked, report, status>>
      /\ files' = [f \in Problematic |-> Missing(f)]
      /\ unresolved' = UNION {Missing(f) : f \in DOMAIN files}
  BY DEF Resolve, packageVars, depVars, exitVars
<1>1. status = 0 /\ pass \in {1, 2}
  BY <1>0 DEF IInv, ControlInv
<1>2. \/ pc' = "exited" /\ Problematic = {}
      \/ pc' = "optdeps" /\ Problematic # {} /\ pass = 1 /\ in.useOptionalDeps
      \/ pc' = "report" /\ Problematic # {}
  BY <1>0, Zenon DEF AfterResolve
<1>3. ControlInv'
  BY <1>0, <1>2 DEF IInv, ControlInv
<1>4. ParseInv'
  BY <1>0, <1>2, ParseStays
<1>5. ConfigInv'
  BY <1>0, ConfigStays
<1>6. ResolveInv'
  <2>1. Broken' = Broken /\ StillBroken' = StillBroken
    BY <1>0 DEF Broken, StillBroken, Available, LibsOf, WithArchive
  <2>2. Problematic = StillBroken /\ DOMAIN files' = StillBroken
    BY <1>0, Resolved
  <2>3. CASE pc' = "optdeps"
    <3>1. /\ files' = [f \in Broken |-> in.needed[f] \ in.found] /\ Broken # {} /\ in.useOptionalDeps
          /\ unresolved' = UNION {in.needed[f] \ in.found : f \in File}
      BY <1>0, <1>2, <2>2, <2>3, Resolved
    <3>2. archiveName = << >> /\ libs = in.found
      BY <1>0, <1>2, <2>3 DEF IInv, ResolveInv, BeforeSearch
    <3>3. files' = [f \in Broken' |-> in'.needed[f] \ in'.found]
      BY <1>0, <2>1, <3>1
    <3>. QED
      BY <1>0, <1>1, <2>1, <2>3, <3>1, <3>2, <3>3 DEF ResolveInv, InSearch
  <2>4. CASE pc' # "optdeps"
    BY <1>0, <1>1, <1>2, <2>1, <2>2, <2>4 DEF ResolveInv, InSearch, BeforeSearch
  <2>. QED
    BY <2>3, <2>4
<1>7. AskInv'
  BY <1>0, <1>2 DEF IInv, AskInv, BeforeSearch
<1>8. ReportsAll'
  BY <1>0, <1>1 DEF ReportsAll
<1>. QED
  BY <1>3, <1>4, <1>5, <1>6, <1>7, <1>8 DEF IInv

\* What CalculateOptionalDependencies takes from PacMan's maps.
LEMMA WantedIsSought ==
  ASSUME IInv, pc = "optdeps"
  PROVE  Wanted \ DOMAIN packagesByProvides = Sought
<1>1. Indexed(Dir) /\ optDepends = [d \in Dir |-> OptDepends(d)]
  BY DEF IInv, ParseInv, ConfigInv, ControlInv, Merged
<1>2. DOMAIN files = Broken
  BY DEF IInv, ResolveInv, InSearch
<1>3. DOMAIN packagesByProvides = Provided
  BY <1>1 DEF Indexed, Provided, Name
<1>. DEFINE RHS == UNION {OptDepends(d) : d \in UNION {OwnersOf(f) : f \in Broken}}
<1>4. Wanted = RHS
  <2>1. ASSUME NEW dep
        PROVE  dep \in Wanted <=> \E f \in Broken : \E d \in OwnersOf(f) : dep \in OptDepends(d)
    <3>1. dep \in Wanted <=> \E f \in Broken \cap DOMAIN packagesByFilePath1 : dep \in optDepends[packagesByFilePath1[f]]
      BY <1>2 DEF Wanted
    <3>2. ASSUME NEW f \in Broken
          PROVE  f \in DOMAIN packagesByFilePath1 /\ dep \in optDepends[packagesByFilePath1[f]]
                   <=> \E d \in OwnersOf(f) : dep \in OptDepends(d)
      <4>1. CASE f \in DOMAIN packagesByFilePath1
        <5>1. packagesByFilePath1[f] \in Dir /\ OwnersOf(f) = {packagesByFilePath1[f]}
          BY <1>1, <4>1, OwnerIs
        <5>2. optDepends[packagesByFilePath1[f]] = OptDepends(packagesByFilePath1[f])
          BY <1>1, <5>1
        <5>. QED
          BY <4>1, <5>1, <5>2
      <4>2. CASE f \notin DOMAIN packagesByFilePath1
        BY <1>1, <4>2, OwnerIs
      <4>. QED
        BY <4>1, <4>2
    <3>. QED
      BY <3>1, <3>2
  <2>2. \A dep : dep \in RHS <=> \E f \in Broken : \E d \in OwnersOf(f) : dep \in OptDepends(d)
    OBVIOUS
  <2>. HIDE DEF RHS
  <2>. QED
    BY <2>1, <2>2
<1>5. Sought = RHS \ Provided
  BY DEF Sought
<1>. HIDE DEF RHS
<1>. QED
  BY <1>3, <1>4, <1>5

LEMMA CalculateOptionalDependenciesStep ==
  ASSUME IInv, CalculateOptionalDependencies
  PROVE  IInv'
<1>0. /\ pc = "optdeps" /\ UNCHANGED <<in, pass, thrown, optDepends, files, libs, unresolved>>
      /\ UNCHANGED <<packagesByName, packagesByProvides, packagesByFilePath1, asked, report, status>>
      /\ archiveName' = [dep \in Sought |-> Empty] /\ left' = Sought
      /\ pc' = IF Sought = {} THEN "report" ELSE "download"
  BY WantedIsSought DEF CalculateOptionalDependencies, packageVars, resolveVars, exitVars
<1>1. status = 0
  BY <1>0 DEF IInv, ControlInv
<1>2. ControlInv'
  BY <1>0 DEF IInv, ControlInv
<1>3. ParseInv'
  BY <1>0, ParseStays
<1>4. ConfigInv'
  BY <1>0, ConfigStays
<1>5. Broken' = Broken /\ Sought' = Sought
  <2>1. /\ \A f : OwnersOf(f)' = OwnersOf(f) /\ \A d : OptDepends(d)' = OptDepends(d)
        /\ Broken' = Broken /\ Provided' = Provided
    BY <1>0, InputStays
  <2>. QED
    BY <2>1 DEF Sought
<1>6. ResolveInv'
  <2>1. /\ files = [f \in Broken |-> in.needed[f] \ in.found] /\ Broken # {}
        /\ unresolved = UNION {in.needed[f] \ in.found : f \in File}
        /\ in.useOptionalDeps /\ libs = in.found
    BY <1>0 DEF IInv, ResolveInv, InSearch
  <2>2. WithArchive' = {}
    BY <1>0 DEF WithArchive
  <2>3. StillBroken' = Broken'
    BY <2>2 DEF Available, LibsOf, StillBroken, Broken
  <2>4. files' = [f \in Broken' |-> in'.needed[f] \ in'.found]
    BY <1>0, <1>5, <2>1
  <2>5. DOMAIN files' = StillBroken' /\ StillBroken' # {}
    BY <1>5, <2>1, <2>3, <2>4
  <2>. QED
    BY <1>0, <1>1, <1>5, <2>1, <2>4, <2>5 DEF ResolveInv, InSearch, BeforeSearch
<1>7. AskInv'
  BY <1>0, <1>5 DEF IInv, AskInv, BeforeSearch
<1>8. ReportsAll'
  BY <1>0, <1>1 DEF ReportsAll
<1>. QED
  BY <1>2, <1>3, <1>4, <1>6, <1>7, <1>8 DEF IInv

\* What remains to be seen to while optional dependencies are looked for.
LEMMA SearchStays ==
  ASSUME IInv, pc \in {"download", "find", "process"}, pc' \in {"download", "find", "process", "resolve"},
         UNCHANGED <<in, thrown, packageVars, files, unresolved, exitVars>>,
         pass' \in {1, 2}
  PROVE  /\ ControlInv' /\ ParseInv' /\ ConfigInv' /\ ReportsAll' /\ Sought' = Sought /\ Broken' = Broken
         /\ status = 0 /\ status' = 0 /\ in.useOptionalDeps
         /\ files' = [f \in Broken' |-> in'.needed[f] \ in'.found] /\ Broken' # {}
         /\ unresolved' = UNION {in'.needed[f] \ in'.found : f \in File}
<1>0. UNCHANGED <<optDepends, packagesByName, packagesByProvides, packagesByFilePath1, report, status>>
  BY DEF packageVars, exitVars
<1>1. status = 0
  BY DEF IInv, ControlInv
<1>2. ControlInv'
  BY <1>0 DEF IInv, ControlInv
<1>3. ParseInv'
  BY <1>0, ParseStays
<1>4. ConfigInv'
  BY <1>0, ConfigStays
<1>5. ReportsAll'
  BY <1>0, <1>1 DEF ReportsAll
<1>6. Broken' = Broken /\ Sought' = Sought
  <2>1. /\ \A f : OwnersOf(f)' = OwnersOf(f) /\ \A d : OptDepends(d)' = OptDepends(d)
        /\ Broken' = Broken /\ Provided' = Provided
    BY InputStays
  <2>. QED
    BY <2>1 DEF Sought
<1>7. /\ files = [f \in Broken |-> in.needed[f] \ in.found] /\ Broken # {} /\ in.useOptionalDeps
      /\ unresolved = UNION {in.needed[f] \ in.found : f \in File}
  BY DEF IInv, ResolveInv, InSearch
<1>8. /\ files' = [f \in Broken' |-> in'.needed[f] \ in'.found]
      /\ unresolved' = UNION {in'.needed[f] \ in'.found : f \in File}
  BY <1>6, <1>7
<1>. QED
  BY <1>0, <1>1, <1>2, <1>3, <1>4, <1>5, <1>6, <1>7, <1>8

LEMMA DownloadStep ==
  ASSUME IInv, Download
  PROVE  IInv'
<1>1. CASE Fail
  BY <1>1, FailStep DEF Download
<1>2. CASE ~Fail
  <2>0. /\ pc = "download" /\ ~in.noNetwork
        /\ UNCHANGED <<in, pc, pass, thrown, packageVars, resolveVars, archiveName, exitVars>>
    BY <1>2 DEF Download
  <2>1. PICK chunk \in SUBSET left :
          /\ asked' = [d \in Dep |-> IF d \in chunk /\ asked[d] < MaxAsked THEN asked[d] + 1 ELSE asked[d]]
          /\ left' = left \ chunk
    BY <1>2 DEF Download, Rest
  <2>2. UNCHANGED <<files, libs, unresolved>> /\ pass' \in {1, 2}
    BY <2>0 DEF resolveVars, IInv, ControlInv
  <2>3. /\ ControlInv' /\ ParseInv' /\ ConfigInv' /\ ReportsAll' /\ Sought' = Sought
        /\ status' = 0 /\ in.useOptionalDeps
        /\ files' = [f \in Broken' |-> in'.needed[f] \ in'.found] /\ Broken' # {}
        /\ unresolved' = UNION {in'.needed[f] \ in'.found : f \in File}
    BY <2>0, <2>2, SearchStays
  <2>4. ResolveInv'
    <3>1. libs = in.found
      BY <2>0 DEF IInv, ResolveInv
    <3>. QED
      BY <2>0, <2>2, <2>3, <3>1 DEF ResolveInv, BeforeSearch
  <2>5. AskInv'
    <3>1. /\ asked \in [Dep -> Nat] /\ DOMAIN archiveName = Sought /\ left \subseteq DOMAIN archiveName
          /\ \A dep \in Dep : asked[dep] = IF dep \in DOMAIN archiveName \ left THEN 1 ELSE 0
      BY <2>0 DEF IInv, AskInv
    <3>2. asked' \in [Dep -> Nat]
      BY <2>1, <3>1
    <3>3. left' \subseteq DOMAIN archiveName
      BY <2>1, <3>1
    <3>4. ASSUME NEW dep \in Dep
          PROVE  asked'[dep] = IF dep \in DOMAIN archiveName \ left' THEN 1 ELSE 0
      BY <2>1, <3>1 DEF MaxAsked
    <3>. QED
      BY <2>0, <2>3, <3>1, <3>2, <3>3, <3>4 DEF AskInv, BeforeSearch
  <2>. QED
    BY <2>3, <2>4, <2>5 DEF IInv
<1>. QED
  BY <1>1, <1>2

LEMMA EndOfDownloadStep ==
  ASSUME IInv, EndOfDownload
  PROVE  IInv'
<1>0. /\ pc = "download" /\ pc' = "find" /\ (left = {} \/ in.noNetwork)
      /\ UNCHANGED <<in, pass, thrown, packageVars, resolveVars, depVars, exitVars>>
  BY DEF EndOfDownload
<1>1. UNCHANGED <<files, libs, unresolved, archiveName, left, asked>> /\ pass' \in {1, 2}
  BY <1>0 DEF resolveVars, depVars, IInv, ControlInv
<1>2. /\ ControlInv' /\ ParseInv' /\ ConfigInv' /\ ReportsAll' /\ Sought' = Sought
      /\ status' = 0 /\ in.useOptionalDeps
      /\ files' = [f \in Broken' |-> in'.needed[f] \ in'.found] /\ Broken' # {}
      /\ unresolved' = UNION {in'.needed[f] \ in'.found : f \in File}
  BY <1>0, <1>1, SearchStays
<1>3. ResolveInv'
  <2>1. libs = in.found
    BY <1>0 DEF IInv, ResolveInv
  <2>. QED
    BY <1>0, <1>1, <1>2, <2>1 DEF ResolveInv, BeforeSearch
<1>4. AskInv'
  BY <1>0, <1>1, <1>2 DEF IInv, AskInv, BeforeSearch
<1>. QED
  BY <1>2, <1>3, <1>4 DEF IInv

LEMMA FindArchiveStep ==
  ASSUME IInv, NEW dep, FindArchive(dep)
  PROVE  IInv'
<1>0. /\ pc = "find" /\ UNCHANGED <<in, pc, pass, thrown, packageVars, resolveVars, left, asked, exitVars>>
  BY DEF FindArchive, Doing
<1>1. UNCHANGED <<files, libs, unresolved>> /\ pass' \in {1, 2} /\ DOMAIN archiveName' = DOMAIN archiveName
  BY <1>0 DEF resolveVars, IInv, ControlInv, FindArchive
<1>2. /\ ControlInv' /\ ParseInv' /\ ConfigInv' /\ ReportsAll' /\ Sought' = Sought
      /\ status' = 0 /\ in.useOptionalDeps
      /\ files' = [f \in Broken' |-> in'.needed[f] \ in'.found] /\ Broken' # {}
      /\ unresolved' = UNION {in'.needed[f] \ in'.found : f \in File}
  BY <1>0, <1>1, SearchStays
<1>3. ResolveInv'
  <2>1. libs = in.found
    BY <1>0 DEF IInv, ResolveInv
  <2>. QED
    BY <1>0, <1>1, <1>2, <2>1 DEF ResolveInv, BeforeSearch
<1>4. AskInv'
  BY <1>0, <1>1, <1>2 DEF IInv, AskInv, BeforeSearch
<1>. QED
  BY <1>2, <1>3, <1>4 DEF IInv

LEMMA AwaitArchiveNamesStep ==
  ASSUME IInv, AwaitArchiveNames
  PROVE  IInv'
<1>0. /\ pc = "find" /\ pc' = "process" /\ task' = [dep \in WithArchive |-> "todo"]
      /\ UNCHANGED <<in, pass, thrown, packageVars, resolveVars, depVars, exitVars>>
  BY DEF AwaitArchiveNames
<1>1. UNCHANGED <<files, libs, unresolved, archiveName, left, asked>> /\ pass' \in {1, 2}
  BY <1>0 DEF resolveVars, depVars, IInv, ControlInv
<1>2. /\ ControlInv' /\ ParseInv' /\ ConfigInv' /\ ReportsAll' /\ Sought' = Sought
      /\ status' = 0 /\ in.useOptionalDeps
      /\ files' = [f \in Broken' |-> in'.needed[f] \ in'.found] /\ Broken' # {}
      /\ unresolved' = UNION {in'.needed[f] \ in'.found : f \in File}
  BY <1>0, <1>1, SearchStays
<1>3. ResolveInv'
  <2>1. libs = in.found
    BY <1>0 DEF IInv, ResolveInv
  <2>2. DOMAIN task' = WithArchive'
    BY <1>0, <1>1 DEF WithArchive
  <2>3. {dep \in DOMAIN task' : task'[dep] = "done"} = {}
    BY <1>0
  <2>4. libs' = in'.found \cup (LibsOf({dep \in DOMAIN task : task[dep] = "done"})' \cap unresolved')
    BY <1>0, <1>1, <2>1, <2>3 DEF LibsOf
  <2>. QED
    BY <1>0, <1>2, <2>2, <2>4 DEF ResolveInv, BeforeSearch
<1>4. AskInv'
  BY <1>0, <1>1, <1>2 DEF IInv, AskInv, BeforeSearch
<1>. QED
  BY <1>2, <1>3, <1>4 DEF IInv

LEMMA ParseArchiveStep ==
  ASSUME IInv, NEW dep, ParseArchive(dep)
  PROVE  IInv'
<1>0. /\ pc = "process" /\ dep \in DOMAIN task /\ task' = [task EXCEPT ![dep] = "done"]
      /\ libs' = libs \cup (in.contents[archiveName[dep]] \cap unresolved)
      /\ UNCHANGED <<in, pc, pass, thrown, packageVars, files, unresolved, depVars, exitVars>>
  BY DEF ParseArchive, Doing, Becomes
<1>1. UNCHANGED <<archiveName, left, asked>> /\ pass' \in {1, 2}
  BY <1>0 DEF depVars, IInv, ControlInv
<1>2. /\ ControlInv' /\ ParseInv' /\ ConfigInv' /\ ReportsAll' /\ Sought' = Sought
      /\ status' = 0 /\ in.useOptionalDeps
      /\ files' = [f \in Broken' |-> in'.needed[f] \ in'.found] /\ Broken' # {}
      /\ unresolved' = UNION {in'.needed[f] \ in'.found : f \in File}
  BY <1>0, <1>1, SearchStays
<1>3. ResolveInv'
  <2>. DEFINE done == {d \in DOMAIN task : task[d] = "done"}
  <2>1. /\ DOMAIN task = WithArchive
        /\ libs = in.found \cup (LibsOf(done) \cap unresolved)
    BY <1>0 DEF IInv, ResolveInv
  <2>2. DOMAIN task' = WithArchive'
    BY <1>0, <1>1, <2>1 DEF WithArchive
  <2>3. done' = done \cup {dep}
    BY <1>0
  <2>4. LibsOf(done)' = LibsOf(done) \cup in.contents[archiveName[dep]]
    <3>. HIDE DEF done
    <3>. QED
      BY <1>0, <1>1, <2>3 DEF LibsOf
  <2>5. libs' = in'.found \cup (LibsOf(done)' \cap unresolved')
    <3>. HIDE DEF done
    <3>. QED
      BY <1>0, <2>1, <2>4
  <2>. QED
    BY <1>0, <1>2, <2>2, <2>5 DEF ResolveInv, BeforeSearch
<1>4. AskInv'
  BY <1>0, <1>1, <1>2 DEF IInv, AskInv, BeforeSearch
<1>. QED
  BY <1>2, <1>3, <1>4 DEF IInv

LEMMA AwaitArchivesStep ==
  ASSUME IInv, AwaitArchives
  PROVE  IInv'
<1>0. /\ pc = "process" /\ pc' = "resolve" /\ pass' = 2 /\ Drained
      /\ UNCHANGED <<in, thrown, packageVars, resolveVars, depVars, exitVars>>
  BY DEF AwaitArchives
<1>1. UNCHANGED <<files, libs, unresolved, archiveName, left, asked>> /\ pass' \in {1, 2}
  BY <1>0 DEF resolveVars, depVars
<1>2. /\ ControlInv' /\ ParseInv' /\ ConfigInv' /\ ReportsAll' /\ Sought' = Sought
      /\ status' = 0 /\ in.useOptionalDeps
      /\ files' = [f \in Broken' |-> in'.needed[f] \ in'.found] /\ Broken' # {}
      /\ unresolved' = UNION {in'.needed[f] \ in'.found : f \in File}
  BY <1>0, <1>1, SearchStays
<1>3. ResolveInv'
  <2>1. /\ DOMAIN task = WithArchive
        /\ libs = in.found \cup (LibsOf({d \in DOMAIN task : task[d] = "done"}) \cap unresolved)
    BY <1>0 DEF IInv, ResolveInv
  <2>2. {d \in DOMAIN task : task[d] = "done"} = WithArchive
    BY <1>0, <2>1 DEF Drained
  <2>3. LibsOf(WithArchive)' = LibsOf(WithArchive)
    BY <1>0, <1>1 DEF LibsOf, WithArchive
  <2>4. libs' = in'.found \cup (LibsOf(WithArchive)' \cap unresolved')
    BY <1>0, <1>1, <2>1, <2>2, <2>3
  <2>. QED
    BY <1>0, <1>2, <2>4 DEF ResolveInv, BeforeSearch
<1>4. AskInv'
  BY <1>0, <1>1, <1>2 DEF IInv, AskInv, BeforeSearch
<1>. QED
  BY <1>2, <1>3, <1>4 DEF IInv

LEMMA DumpErrorsStep ==
  ASSUME IInv, DumpErrors
  PROVE  IInv'
<1>0. /\ pc = "report" /\ pc' = "exited" /\ status' = 1 /\ UNCHANGED <<in, pass, thrown, optDepends, files>>
      /\ UNCHANGED <<packagesByName, packagesByProvides, packagesByFilePath1, archiveName, asked>>
  BY DEF DumpErrors, packageVars, resolveVars, depVars
<1>1. /\ status = 0 /\ Indexed(Dir) /\ DOMAIN files = StillBroken /\ StillBroken # {}
  BY <1>0 DEF IInv, ControlInv, ParseInv, Merged, ResolveInv
<1>2. ControlInv'
  BY <1>0 DEF IInv, ControlInv
<1>3. ParseInv'
  BY <1>0, ParseStays
<1>4. ConfigInv'
  BY <1>0, ConfigStays
<1>5. ResolveInv'
  <2>1. StillBroken' = StillBroken
    BY <1>0 DEF StillBroken, Available, LibsOf, WithArchive
  <2>. QED
    BY <1>0, <1>1, <2>1 DEF ResolveInv, BeforeSearch, InSearch
<1>6. AskInv'
  BY <1>0 DEF IInv, AskInv, BeforeSearch
<1>7. ReportsAll'
  <2>. DEFINE groups == [o \in {Owner(f) : f \in Reported} |-> {f \in Reported : Owner(f) = o}]
              unassigned == Cardinality({f \in Reported : Owner(f) = Empty})
  <2>1. report' = [groups |-> groups, packages |-> Cardinality(DOMAIN groups),
                   assigned |-> Cardinality(DOMAIN files) - unassigned, unassigned |-> unassigned]
    BY DEF DumpErrors
  <2>2. UNION Range(groups) = DOMAIN files
    <3>1. \A f \in DOMAIN files : Owner(f) \in DOMAIN groups /\ f \in groups[Owner(f)]
      BY DEF Reported
    <3>2. \A o \in DOMAIN groups : groups[o] \subseteq DOMAIN files
      BY DEF Reported
    <3>. HIDE DEF groups
    <3>. QED
      BY <3>1, <3>2 DEF Range
  <2>3. \A o \in DOMAIN groups : \A f \in groups[o] : Owner(f) = o
    OBVIOUS
  <2>4. \A f : OwnersOf(f) = {Owner(f)} \ {Empty}
    <3>1. TAKE f
    <3>2. Empty \notin Dir
      BY EmptyAssumption
    <3>3. CASE f \in DOMAIN packagesByFilePath1
      <4>1. packagesByFilePath1[f] \in Dir /\ OwnersOf(f) = {packagesByFilePath1[f]}
        BY <1>1, <3>3, OwnerIs
      <4>. QED
        BY <3>2, <3>3, <4>1 DEF Owner
    <3>4. CASE f \notin DOMAIN packagesByFilePath1
      BY <1>1, <3>4, OwnerIs DEF Owner
    <3>. QED
      BY <3>3, <3>4
  <2>5. /\ {f \in Reported : Owner(f) = Empty} = {f \in StillBroken : OwnersOf(f) = {}}
        /\ StillBroken \ {f \in StillBroken : OwnersOf(f) = {}} = {f \in StillBroken : OwnersOf(f) # {}}
    <3>1. \A f : Owner(f) = Empty <=> OwnersOf(f) = {}
      BY <2>4
    <3>. QED
      BY <1>1, <3>1 DEF Reported
  <2>6. /\ IsFiniteSet(StillBroken) /\ IsFiniteSet({f \in StillBroken : OwnersOf(f) = {}})
        /\ unassigned = Cardinality({f \in StillBroken : OwnersOf(f) = {}}) /\ unassigned \in Nat
    <3>1. IsFiniteSet(StillBroken)
      BY EmptyAssumption, FS_Subset DEF StillBroken
    <3>2. IsFiniteSet({f \in StillBroken : OwnersOf(f) = {}})
      BY <3>1, FS_Subset
    <3>. QED
      BY <2>5, <3>1, <3>2, FS_CardinalityType
  <2>7. Cardinality(DOMAIN files) - unassigned = Cardinality({f \in StillBroken : OwnersOf(f) # {}})
    <3>. DEFINE none == {f \in StillBroken : OwnersOf(f) = {}}
    <3>1. StillBroken \cap none = none
      OBVIOUS
    <3>2. Cardinality(StillBroken \ none) = Cardinality(StillBroken) - Cardinality(StillBroken \cap none)
      BY <2>6, FS_Difference
    <3>. QED
      BY <1>1, <2>5, <2>6, <3>1, <3>2
  <2>8. unassigned = 0 => DOMAIN groups = UNION {OwnersOf(f) : f \in StillBroken}
    <3>. SUFFICES ASSUME unassigned = 0
                  PROVE  DOMAIN groups = UNION {OwnersOf(f) : f \in StillBroken}
      OBVIOUS
    <3>1. {f \in StillBroken : OwnersOf(f) = {}} = {}
      BY <2>6, FS_EmptySet
    <3>2. \A f \in StillBroken : OwnersOf(f) = {Owner(f)}
      BY <2>4, <3>1
    <3>3. DOMAIN groups = {Owner(f) : f \in StillBroken}
      BY <1>1 DEF Reported
    <3>. HIDE DEF groups, unassigned
    <3>. QED
      BY <3>2, <3>3
  <2>. HIDE DEF groups, unassigned
  <2>9. /\ report'.groups = groups /\ report'.packages = Cardinality(DOMAIN groups)
        /\ report'.assigned = Cardinality(DOMAIN files) - unassigned /\ report'.unassigned = unassigned
    BY <2>1
  <2>10. StillBroken' = StillBroken /\ \A f : OwnersOf(f)' = OwnersOf(f)
    <3>1. StillBroken' = StillBroken
      BY <1>0 DEF StillBroken, Available, LibsOf, WithArchive
    <3>. QED
      BY <1>0, <3>1, InputStays
  <2>11. /\ {f \in StillBroken : OwnersOf(f) = {}}' = {f \in StillBroken : OwnersOf(f) = {}}
         /\ {f \in StillBroken : OwnersOf(f) # {}}' = {f \in StillBroken : OwnersOf(f) # {}}
         /\ (UNION {OwnersOf(f) : f \in StillBroken})' = UNION {OwnersOf(f) : f \in StillBroken}
    BY <2>10
  <2>12. \A o \in DOMAIN report'.groups : \A f \in report'.groups[o] : OwnersOf(f)' = {o} \ {Empty}
    BY <2>3, <2>4, <2>9, <2>10
  <2>13. UNION Range(report'.groups) = StillBroken'
    BY <1>1, <2>2, <2>9, <2>10
  <2>14. /\ report'.assigned = Cardinality({f \in StillBroken : OwnersOf(f) # {}}')
         /\ report'.unassigned = Cardinality({f \in StillBroken : OwnersOf(f) = {}}')
         /\ report'.unassigned = 0 => report'.packages = Cardinality((UNION {OwnersOf(f) : f \in StillBroken})')
    BY <2>6, <2>7, <2>8, <2>9, <2>11
  <2>. QED
    BY <2>12, <2>13, <2>14 DEF ReportsAll
<1>. QED
  BY <1>2, <1>3, <1>4, <1>5, <1>6, <1>7 DEF IInv

LEMMA Stutter ==
  ASSUME IInv, UNCHANGED vars
  PROVE  IInv'
<1>0. UNCHANGED <<in, pc, pass, thrown, task, packagesByName, packagesByProvides, packagesByFilePath1, optDepends,
                  files, libs, unresolved, archiveName, left, asked, report, status>>
  BY DEF vars, packageVars, resolveVars, depVars, exitVars
<1>1. ControlInv'
  BY <1>0 DEF IInv, ControlInv
<1>2. ParseInv'
  <2>1. Merged' = Merged
    BY <1>0 DEF Merged
  <2>2. Indexed(Merged)' <=> Indexed(Merged)
    BY <1>0, <2>1, IndexedStays
  <2>3. Coherent' <=> Coherent
    BY <1>0, InputStays
  <2>. QED
    BY <1>0, <2>2, <2>3 DEF IInv, ParseInv
<1>3. ConfigInv'
  <2>1. [d \in Dir |-> OptDepends(d)'] = [d \in Dir |-> OptDepends(d)]
    BY <1>0, InputStays
  <2>. QED
    BY <1>0, <2>1, Zenon DEF IInv, ConfigInv
<1>4. ResolveInv'
  BY <1>0 DEF IInv, ResolveInv, BeforeSearch, InSearch, LibsOf, Available, StillBroken, Broken, WithArchive
<1>5. AskInv'
  <2>1. Sought' = Sought
    BY <1>0 DEF Sought, OptDepends, OwnersOf, Broken, Provided, Words, Dependencies, Name, FilesOf, Lines
  <2>. QED
    BY <1>0, <2>1 DEF IInv, AskInv, BeforeSearch
<1>6. ReportsAll'
  BY <1>0 DEF IInv, ReportsAll, OwnersOf, FilesOf, Lines, StillBroken, Available, LibsOf, WithArchive
<1>. QED
  BY <1>1, <1>2, <1>3, <1>4, <1>5, <1>6 DEF IInv

-----------------------------------------------------------------------------
(* The theorems.                                                           *)

\* Every state of every run keeps to IInv.
THEOREM Invariance == Spec => []IInv
<1>1. Init => IInv
  BY InitInv
<1>2. IInv /\ [Next]_vars => IInv'
  <2>. SUFFICES ASSUME IInv, [Next]_vars PROVE IInv'
    OBVIOUS
  <2>1. ASSUME NEW d \in Dir, ComputePackage(d) PROVE IInv'
    BY <2>1, ComputePackageStep
  <2>2. ASSUME NEW d \in Dir, MergePackage(d) PROVE IInv'
    BY <2>2, MergePackageStep
  <2>3. ASSUME NEW dep \in Dep, FindArchive(dep) PROVE IInv'
    BY <2>3, FindArchiveStep
  <2>4. ASSUME NEW dep \in Dep, ParseArchive(dep) PROVE IInv'
    BY <2>4, ParseArchiveStep
  <2>5. CASE Main
    BY <2>5, AwaitPackagesStep, ConfigureStep, CollectStep, ResolveStep, CalculateOptionalDependenciesStep,
       DownloadStep, EndOfDownloadStep, AwaitArchiveNamesStep, AwaitArchivesStep, DumpErrorsStep DEF Main
  <2>6. CASE UNCHANGED vars
    BY <2>6, Stutter
  <2>. QED
    BY <2>1, <2>2, <2>3, <2>4, <2>5, <2>6 DEF Next, Tasks, Exited
<1>. QED
  BY <1>1, <1>2, PTL DEF Spec

\* Whatever the packages, the configuration, the schedule of tasks and what
\* pacman answers: the exit status is the right one.
THEOREM StatusAlwaysRight == Spec => []StatusIsRight
<1>1. IInv => StatusIsRight
  <2>. SUFFICES ASSUME IInv PROVE StatusIsRight
    OBVIOUS
  <2>1. pc \in {"configure", "exited"} /\ status # 2 => Coherent
    <3>. SUFFICES ASSUME pc \in {"configure", "exited"}, status # 2 PROVE Coherent
      OBVIOUS
    <3>. QED
      BY IndexedCoherent DEF IInv, ParseInv, ControlInv, Merged
  <2>2. thrown => ~Coherent
    BY DEF IInv, ParseInv
  <2>3. pc = "exited" /\ status # 2 =>
          (status = 0 <=> \A f \in File : in.needed[f] \subseteq Available)
    BY DEF IInv, ControlInv, ResolveInv, StillBroken
  <2>. QED
    BY <2>1, <2>2, <2>3 DEF StatusIsRight, Available, LibsOf
<1>. QED
  BY <1>1, Invariance, PTL

\* The dependencies that are looked for are the right ones, and each is
\* downloaded once.
THEOREM AsksExactlyThese == Spec => []AsksExactly
<1>1. IInv => AsksExactly
  <2>. SUFFICES ASSUME IInv PROVE AsksExactly
    OBVIOUS
  <2>1. pc \in {"download", "find", "process"} => DOMAIN archiveName = Sought
    BY DEF IInv, AskInv
  <2>2. Sought =
         (UNION {LET name == in.packages[d].name[1]
                 IN  (Dependencies(d) \cup in.addOptDepend[name]) \ in.removeOptDepend[name] :
                 d \in UNION {OwnersOf(f) : f \in Broken}}) \ Provided
    BY DEF Sought, OptDepends, Name
  <2>. QED
    BY <2>1, <2>2 DEF IInv, AskInv, AsksExactly
<1>. QED
  BY <1>1, Invariance, PTL

\* The report has each file that still misses a library, under its owner, and
\* counts the files rightly, and the packages unless there are files of none.
THEOREM EverythingIsReported == Spec => []ReportsAll
<1>1. IInv => ReportsAll
  BY DEF IInv
<1>. QED
  BY <1>1, Invariance, PTL
=============================================================================
