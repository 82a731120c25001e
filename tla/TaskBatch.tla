------------------------------ MODULE TaskBatch ------------------------------
(***************************************************************************)
(* What ThreadPool.h promises its caller, with no threads, no queue, no    *)
(* mutex and no condition variables: groups of tasks are submitted in      *)
(* batches, the tasks of a group are computed in order and only then       *)
(* merged in order, a failure closes its group, and waitAll() returns only *)
(* when every task of the batch is merged (normal return) or a task of     *)
(* this batch has failed (Abort).  After it returned no task of the batch  *)
(* runs any more.                                                          *)
(***************************************************************************)
EXTENDS Naturals, Sequences, Functions

CONSTANTS
  Group,  \* the task groups the main thread may ever submit
  Size,   \* Size[g]: number of tasks in group g; groupTasks() may make it 0
  Batch   \* what one addTasks() call may submit: sequences of groups

VARIABLES
  submitted,  \* groups submitted so far
  live,       \* groups submitted since waitAll() last returned
  computed,   \* computed[g]: the first computed[g] tasks of g are computed
  merged,     \* merged[g]: the first merged[g] tasks of g are merged
  failed,     \* failed[g]: did a task of g throw, and where
  phase,      \* what the main thread is doing with the pool
  outcome     \* how the last waitAll() returned

vars == <<submitted, live, computed, merged, failed, phase, outcome>>

Complete(g) == merged[g] = Size[g] /\ failed[g] = "no"

Init ==
  /\ submitted = {}
  /\ live = {}
  /\ computed = [g \in Group |-> 0]
  /\ merged = [g \in Group |-> 0]
  /\ failed = [g \in Group |-> "no"]
  /\ phase = "open"
  /\ outcome = "none"

Submit(b) ==
  /\ phase = "open"
  /\ Range(b) \cap submitted = {}
  /\ submitted' = submitted \cup Range(b)
  /\ live' = live \cup Range(b)
  /\ outcome' = "none"
  /\ UNCHANGED <<computed, merged, failed, phase>>

BeginWait(p) ==
  /\ phase = "open"
  /\ phase' = p
  /\ outcome' = "none"
  /\ UNCHANGED <<submitted, live, computed, merged, failed>>

Compute(g) ==
  /\ g \in live
  /\ failed[g] = "no"
  /\ computed[g] < Size[g]
  /\ computed' = [computed EXCEPT ![g] = @ + 1]
  /\ UNCHANGED <<submitted, live, merged, failed, phase, outcome>>

\* merge() runs only after every compute() of the group (ThreadPool.h: "First
\* all compute() are called, then all merge()").
Merge(g) ==
  /\ g \in live
  /\ failed[g] = "no"
  /\ computed[g] = Size[g]
  /\ merged[g] < Size[g]
  /\ merged' = [merged EXCEPT ![g] = @ + 1]
  /\ UNCHANGED <<submitted, live, computed, failed, phase, outcome>>

Fail(g, stage) ==
  /\ g \in live
  /\ failed[g] = "no"
  /\ \/ stage = "compute" /\ computed[g] < Size[g]
     \/ stage = "merge" /\ computed[g] = Size[g] /\ merged[g] < Size[g]
  /\ failed' = [failed EXCEPT ![g] = stage]
  /\ UNCHANGED <<submitted, live, computed, merged, phase, outcome>>

Settled(o) ==
  \/ o = "ok" /\ \A g \in live : Complete(g)
  \/ o = "abort" /\ \E g \in live : failed[g] # "no"

Return(o) ==
  /\ phase = "waiting"
  /\ Settled(o)
  /\ phase' = "open"
  /\ outcome' = o
  /\ live' = {}
  /\ UNCHANGED <<submitted, computed, merged, failed>>

Close ==
  /\ phase = "closing"
  /\ \E o \in {"ok", "abort"} : Settled(o)
  /\ phase' = "closed"
  /\ UNCHANGED <<submitted, live, computed, merged, failed, outcome>>

Next ==
  \/ \E b \in Batch : Submit(b)
  \/ \E p \in {"waiting", "closing"} : BeginWait(p)
  \/ \E g \in Group : Compute(g) \/ Merge(g)
  \/ \E g \in Group, stage \in {"compute", "merge"} : Fail(g, stage)
  \/ \E o \in {"ok", "abort"} : Return(o)
  \/ Close

Spec == Init /\ [][Next]_vars
=============================================================================
