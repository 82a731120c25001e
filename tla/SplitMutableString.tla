------------------------- MODULE SplitMutableString -------------------------
(***************************************************************************)
(* Splitting a string in place: the iterator writes a NUL over the         *)
(* delimiter that ends each part, and hands out a pointer into the string. *)
(*                                                                         *)
(* A buffer is a sequence of characters whose last one is the terminator.  *)
(* A range r stands for the characters r.begin .. r.end - 1.  A splitter is *)
(* [to, delims, merge]: its string ends before position to.  Words that    *)
(* are compared as a whole only are single characters here.                *)
(***************************************************************************)
EXTENDS Integers, Sequences

NUL == "NUL"

Least(S) == CHOOSE i \in S : \A j \in S : i <= j
Greatest(S) == CHOOSE i \in S : \A j \in S : j <= i

\* find_first_of() and find_first_not_of() from a position on; to for npos.
FirstOf(b, chars, from, to) == Least({i \in from .. to - 1 : b[i] \in chars} \cup {to})
FirstNotOf(b, chars, from, to) == Least({i \in from .. to - 1 : b[i] \notin chars} \cup {to})

\* The part of splitter s that begins at or after position from.
Part(b, s, from) ==
  LET begin == IF s.merge THEN FirstNotOf(b, s.delims, from, s.to) ELSE Least({from, s.to})
  IN  [begin |-> begin, end |-> FirstOf(b, s.delims, begin, s.to)]

\* Mutant: no NUL is written.
Cut_Not(b, s, part) == b

\* The buffer once the iterator is at part.
Cut(b, s, part) == IF part.end < s.to THEN [b EXCEPT ![part.end] = NUL] ELSE b

\* Equal to end(): a part of no length at the end of the string.
IsEnd(s, part) == part.begin = s.to

\* What a reader of a char* sees.
CString(b, begin) == SubSeq(b, begin, FirstOf(b, {NUL}, begin, Len(b)) - 1)
=============================================================================
