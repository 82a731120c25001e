---------------------------- MODULE MCThreadPool ----------------------------
(* ThreadPool on small instances: a group of two tasks, of one and of none. *)
EXTENDS ThreadPool, TLC

CONSTANTS g1, g2, g3

MCSize == (g1 :> 2) @@ (g2 :> 1) @@ (g3 :> 0)
MCBatch == {<<g1, g2>>, <<g2, g3>>, <<g1>>, <<g2>>, <<g3>>}
OneTaskEach == [g \in Group |-> 1]
LiveBatch == {<<g1, g2>>, <<g3>>}
WorkerSymmetry == Permutations(Worker)
=============================================================================
