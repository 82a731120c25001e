---------------------------- MODULE ELFInspector ----------------------------
(***************************************************************************)
(* What ELFInspector takes from the bytes of a file: for a file of the     *)
(* system the search paths, needed libraries and flags; for one that was   *)
(* unpacked from an archive the flags only.  libelf is external: an image  *)
(* is what its calls return.                                               *)
(*                                                                         *)
(* A part of a run path is absolute, relative to $ORIGIN or else relative; *)
(* realpath() of it is Target(file, part), of the module that extends      *)
(* this.  A run path at an offset outside its string table is one part of  *)
(* form "no string".  Names of needed libraries are inside: the code would *)
(* read through the NULL that elf_strptr() returns.                        *)
(***************************************************************************)
EXTENDS Integers, Sequences, Functions, SequencesExt

\* "no handle": open(), elf_begin() or elf_memory() fails.  "bad": gelf_getehdr()
\* or gelf_getclass() does.  "object": e_type is neither ET_EXEC nor ET_DYN.
Header == {"no handle", "not ELF", "bad", "object", "ET_EXEC", "ET_DYN"}

\* sound: sh_link leads to a string table and there is exactly one data.
IsSection(s) ==
  /\ s.type \in {"DYNAMIC", "other", "unreadable"}
  /\ s.type = "DYNAMIC" =>
       /\ s.sound \in BOOLEAN /\ s.entries \in Seq(Range(s.entries))
       /\ \A e \in Range(s.entries) :
            e.tag = "NEEDED" \/ (e.tag \in {"RPATH", "RUNPATH"} /\ e.parts \in Seq(Range(e.parts)))
IsImage(c) ==
  /\ c.header \in Header /\ c.is32 \in BOOLEAN
  /\ c.sections \in Seq(Range(c.sections)) /\ \A s \in Range(c.sections) : IsSection(s)

Fresh(junk) == [isInspected |-> FALSE, isDynamicELF |-> FALSE, isLib |-> FALSE, is32 |-> junk,
                rPaths |-> << >>, runPaths |-> << >>, configPaths |-> << >>, neededLibs |-> {}]

-----------------------------------------------------------------------------
\* processOne_impl() to the type of the file.
Headed(f, c) == [f EXCEPT !.isInspected = TRUE,
                          !.is32 = IF c.header \in {"object", "ET_EXEC", "ET_DYN"} THEN c.is32 ELSE @]
HasSections(c) == c.header \in {"ET_EXEC", "ET_DYN"}

Dynamic(c, i) == c.sections[i].type = "DYNAMIC"

\* The loop over sections throws at section i, when it gets so far.
ThrowsAt(c, i, fromArchive) ==
  \/ c.sections[i].type = "unreadable"
  \/ Dynamic(c, i) /\ \E j \in 1 .. i - 1 : Dynamic(c, j)
  \/ Dynamic(c, i) /\ ~fromArchive /\ ~c.sections[i].sound

\* Where the loop ends: behind the last section, at one where it throws, or, in
\* an archive, at the first DYNAMIC one.
LoopEnd(c, fromArchive) ==
  CHOOSE n \in 1 .. Len(c.sections) + 1 :
    /\ n \in DOMAIN c.sections => ThrowsAt(c, n, fromArchive) \/ (fromArchive /\ Dynamic(c, n))
    /\ \A i \in 1 .. n - 1 : ~ThrowsAt(c, i, fromArchive) /\ ~(fromArchive /\ Dynamic(c, i))

Throws(c, fromArchive) ==
  LoopEnd(c, fromArchive) \in DOMAIN c.sections /\ ThrowsAt(c, LoopEnd(c, fromArchive), fromArchive)
FoundDynamic(c, fromArchive) ==
  \E i \in DOMAIN c.sections : Dynamic(c, i) /\ i <= LoopEnd(c, fromArchive)

\* What processOne_impl_scanDynamicSection() reads: one section at most.
Scanned(c) ==
  LET here == {i \in 1 .. LoopEnd(c, FALSE) - 1 : Dynamic(c, i)}
  IN  IF HasSections(c) /\ here # {} THEN c.sections[CHOOSE i \in here : TRUE].entries ELSE << >>

\* Pass 1: RPATH and RUNPATH entries, split at colons.
PartsOf(e) ==
  IF e.tag = "NEEDED" THEN << >>
  ELSE [j \in DOMAIN e.parts |-> [list |-> IF e.tag = "RPATH" THEN "rPaths" ELSE "runPaths", part |-> e.parts[j]]]
RunPathsIn(c) == FlattenSeq([i \in DOMAIN Scanned(c) |-> PartsOf(Scanned(c)[i])])

\* Pass 2: a name with a '/' must be absolute.
NeededIn(c) == {e.name : e \in {n \in Range(Scanned(c)) : n.tag = "NEEDED" /\ n.form # "relative"}}

\* Mutant: flags are set although a section was damaged.
Flagged_Always(f, c, fromArchive) ==
  IF ~HasSections(c) \/ ~FoundDynamic(c, fromArchive) THEN f
  ELSE [f EXCEPT !.isLib = (c.header = "ET_DYN"), !.isDynamicELF = TRUE]

\* The end of processOne_impl(): nothing is set if the loop threw.
Flagged(f, c, fromArchive) ==
  IF ~HasSections(c) \/ Throws(c, fromArchive) \/ ~FoundDynamic(c, fromArchive) THEN f
  ELSE [f EXCEPT !.isLib = (c.header = "ET_DYN"), !.isDynamicELF = TRUE]

\* processOne_fromArchive(): f.isInspected is not set, as f is new.
FromArchive(f, c) == IF c.header = "no handle" THEN f ELSE Flagged(Headed(f, c), c, TRUE)
=============================================================================
