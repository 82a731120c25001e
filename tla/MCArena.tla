------------------------------ MODULE MCArena ------------------------------
(* Pages with 16 bytes of header, as sizeof(PageHeader), and 8 of data.    *)
EXTENDS Arena, TLC

MCRequest == {[size |-> 4, align |-> 4], [size |-> 3, align |-> 1],
              [size |-> 8, align |-> 0], [size |-> 9, align |-> 1],
              [size |-> 5, align |-> 2]}
MCSymmetry == Permutations(Thread) \cup Permutations(Page)
=============================================================================
