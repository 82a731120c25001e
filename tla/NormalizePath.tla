----------------------------- MODULE NormalizePath -----------------------------
(***************************************************************************)
(* util::normalizePath(): "." and ".." are taken out of a path without a   *)
(* look at the file system, e.g. from the value of a symlink in an         *)
(* archive.  It copies from path to buf, which the caller made PATH_MAX    *)
(* bytes long; ".." moves the end of buf back by a component.  buf stands  *)
(* for the bytes written so far, Len(buf) for bi.                          *)
(***************************************************************************)
EXTENDS Integers, Sequences, SequencesExt

CONSTANTS Letter, MaxLen
ASSUME LengthAssumption == MaxLen \in Nat
ASSUME LetterAssumption == "/" \notin Letter /\ "." \notin Letter /\ "\\0" \notin Letter

Char == Letter \cup {"/", "."}
End == "\\0"

VARIABLES pc, path, pi, buf
vars == <<pc, path, pi, buf>>

\* The type invariant.
TypeOK ==
  /\ pc \in {"start", "component", "trim", "done", "error"}
  /\ path \in Seq(Char) /\ buf \in Seq(Char)
  /\ pi \in 1..(Len(path) + 1)

At(k) == IF k \in DOMAIN path THEN path[k] ELSE End

Init ==
  /\ pc = "start" /\ pi = 1 /\ buf = << >>
  /\ path \in UNION {[1..n -> Char] : n \in 0..MaxLen}

\* Mutant: pi stays before the '/' that was copied.
Absolute_NotSkipped ==
  /\ pc = "start" /\ pc' = "component"
  /\ IF At(1) = "/" THEN buf' = <<"/">> ELSE UNCHANGED buf
  /\ UNCHANGED <<path, pi>>

Absolute ==
  /\ pc = "start" /\ pc' = "component"
  /\ IF At(1) = "/" THEN buf' = <<"/">> /\ pi' = 2 ELSE UNCHANGED <<buf, pi>>
  /\ UNCHANGED path

SkipSlash ==
  /\ pc = "component" /\ At(pi) = "/"
  /\ pi' = pi + 1
  /\ UNCHANGED <<pc, path, buf>>

\* "./", or a trailing "."
IsDot == pc = "component" /\ At(pi) = "." /\ At(pi + 1) \in {"/", End}

Dot ==
  /\ IsDot
  /\ IF At(pi + 1) = End THEN pc' = "trim" /\ UNCHANGED pi
     ELSE pi' = pi + 2 /\ UNCHANGED pc
  /\ UNCHANGED <<path, buf>>

Kept(k) == SubSeq(buf, 1, k)

\* buf up to k is buf without its last component.
IsParent(k) ==
  /\ k > 0 => buf[k] = "/"
  /\ \A j \in (k + 1)..(Len(buf) - 1) : buf[j] # "/"

\* Mutant: bi is compared with 0, so that ".." may remove the root.
BeyondRoot_OnlyEmpty == buf = << >>
BeyondRoot == Len(buf) < 2

\* "../", or a trailing ".."
IsDotDot == pc = "component" /\ At(pi) = "." /\ At(pi + 1) = "." /\ At(pi + 2) \in {"/", End}
DotDot ==
  /\ IsDotDot
  /\ IF BeyondRoot THEN pc' = "error" /\ UNCHANGED <<pi, buf>>
     ELSE /\ \E k \in 0..(Len(buf) - 1) : IsParent(k) /\ buf' = Kept(k)
          /\ IF At(pi + 2) = End THEN pc' = "trim" /\ UNCHANGED pi
             ELSE pi' = pi + 3 /\ UNCHANGED pc
  /\ UNCHANGED path

\* The inner loop: a component with the '/' that ends it.
CopyEnd(k) == k \in pi..Len(path) /\ path[k] = "/" /\ \A j \in pi..(k - 1) : path[j] # "/"
Copy ==
  /\ pc = "component" /\ At(pi) # "/" /\ ~IsDot /\ ~IsDotDot
  /\ \/ \E k \in pi..Len(path) :
          /\ CopyEnd(k)
          /\ buf' = buf \o SubSeq(path, pi, k) /\ pi' = k + 1
          /\ UNCHANGED pc
     \/ /\ \A k \in pi..Len(path) : path[k] # "/"
        /\ buf' = buf \o SubSeq(path, pi, Len(path)) /\ pi' = Len(path) + 1
        /\ pc' = "done"
  /\ UNCHANGED path

Trim ==
  /\ pc = "trim" /\ pc' = "done"
  /\ buf' = IF Len(buf) > 1 THEN SubSeq(buf, 1, Len(buf) - 1) ELSE buf
  /\ UNCHANGED <<path, pi>>

Terminated == pc \in {"done", "error"} /\ UNCHANGED vars

Next == Absolute \/ SkipSlash \/ Dot \/ DotDot \/ Copy \/ Trim \/ Terminated

Spec == Init /\ [][Next]_vars

-----------------------------------------------------------------------------
(* What a normal path is, by components.                                   *)

\* After some characters of a path: the components that are left of those that
\* have ended, what there is of the next one, and whether ".." had nothing to remove.
NothingRead == [left |-> << >>, next |-> << >>, beyond |-> FALSE]

\* The next component ends: at a '/', or with the path.
Ended(r) ==
  LET ended == [r EXCEPT !.next = << >>]
  IN  CASE r.next \in {<< >>, <<".">>} -> ended
        [] r.next = <<".", ".">> /\ r.left = << >> -> [ended EXCEPT !.beyond = TRUE]
        [] r.next = <<".", ".">> /\ r.left # << >> -> [ended EXCEPT !.left = Front(@)]
        [] OTHER -> [ended EXCEPT !.left = Append(@, r.next)]

More(r, c) == IF c = "/" THEN Ended(r) ELSE [r EXCEPT !.next = Append(@, c)]
ReadOf(p) ==
  LET read[n \in 0..Len(p)] == IF n = 0 THEN NothingRead ELSE More(read[n - 1], p[n])
  IN  read

\* Each component with a '/' behind it, and without that of the last one.
Slashed(cs) == FlattenSeq([i \in DOMAIN cs |-> Append(cs[i], "/")])
Joined(cs) == IF cs = << >> THEN << >> ELSE Front(Slashed(cs))

Root == IF At(1) = "/" THEN <<"/">> ELSE << >>

\* test_util_normalizePath.cpp: the result has the components that are left, it
\* is absolute if path is, it ends with '/' only if path does, and a relative
\* path does not become absolute when nothing is left of it.
IsNormal ==
  pc \in {"done", "error"} =>
    LET whole == ReadOf(path)[Len(path)]
        left == Ended(whole).left
    IN  IF Ended(whole).beyond THEN pc = "error"
        ELSE pc = "done" /\ buf = Root \o (IF whole.next = << >> THEN Slashed(left) ELSE Joined(left))

\* buf is never longer than what was read of path, so that no byte is written
\* beyond a buffer as long as the path.
FitsBuffer == Len(buf) <= pi - 1

\* At a component, buf is empty or ends with '/': the step back of ".." finds
\* the component before it, and the last byte that is dropped is a '/'.
EndsWithSlash ==
  pc \in {"component", "trim"} => buf = << >> \/ buf[Len(buf)] = "/"

\* The inductive invariant behind both.
StartInv == pc = "start" => pi = 1 /\ buf = << >>
IInv == TypeOK /\ StartInv /\ FitsBuffer /\ EndsWithSlash

\* At a component, buf has what is left of those before it; at the end, of all.
ComponentInv ==
  pc = "component" =>
    LET r == ReadOf(path)[pi - 1]
    IN  r.next = << >> /\ ~r.beyond /\ buf = Root \o Slashed(r.left)
TrimInv ==
  pc = "trim" =>
    LET whole == ReadOf(path)[Len(path)]
    IN  whole.next # << >> /\ ~Ended(whole).beyond /\ buf = Root \o Slashed(Ended(whole).left)
NormalInv == ComponentInv /\ TrimInv /\ IsNormal
=============================================================================
