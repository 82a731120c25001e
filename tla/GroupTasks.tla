----------------------------- MODULE GroupTasks -----------------------------
(***************************************************************************)
(* ThreadPool::groupTasks(): how a vector of tasks is cut into groups.     *)
(* The loop is a state machine so that its guard `end > numTasks` and its  *)
(* running `remainder` can be reasoned about; a group is the range of task *)
(* indices begin..end-1 that it takes over.                                *)
(*                                                                         *)
(* Int is unbounded here: the callers pass -1 and vectors far shorter than *)
(* 2^31, so none of the sums of the code overflows.                        *)
(***************************************************************************)
EXTENDS Integers, Sequences

CONSTANTS
  TaskCounts,    \* how many tasks a caller may pass
  GroupSizes,    \* the argument numTasksPerGroup
  ThreadCounts   \* getNumThreads(): the constructor creates at least one

ASSUME InputsAssumption ==
  /\ TaskCounts \subseteq Nat
  /\ GroupSizes \subseteq Int
  /\ ThreadCounts \subseteq Nat \ {0}

VARIABLES
  stage,
  numTasks, argument, numThreads,             \* the inputs
  numGroups, numTasksPerGroup, remainder,     \* the split
  begin, made, result                         \* the loop; made is the code's i

inputs == <<numTasks, argument, numThreads>>
split == <<numGroups, numTasksPerGroup>>
groupVars == <<stage, inputs, split, remainder, begin, made, result>>

TaskRange == [begin : Nat, end : Nat]

\* The type invariant.
GroupTypeOK ==
  /\ stage \in {"start", "loop", "done", "zero", "overrun"}
  /\ numTasks \in Nat /\ argument \in Int /\ numThreads \in Nat \ {0}
  /\ numGroups \in Nat /\ numTasksPerGroup \in Int /\ remainder \in Int
  /\ begin \in Nat /\ made \in Nat
  /\ result \in Seq(TaskRange)

GroupInit ==
  /\ stage = "start"
  /\ numTasks \in TaskCounts /\ argument \in GroupSizes /\ numThreads \in ThreadCounts
  /\ numGroups = 0 /\ numTasksPerGroup = argument /\ remainder = 0
  /\ begin = 0 /\ made = 0 /\ result = << >>

\* numTasksPerGroup == 0 is refused, no tasks make no groups.
Trivial ==
  /\ stage = "start"
  /\ \/ numTasksPerGroup = 0 /\ stage' = "zero"
     \/ numTasksPerGroup # 0 /\ numTasks = 0 /\ stage' = "done"
  /\ UNCHANGED <<inputs, split, remainder, begin, made, result>>

\* Mutant: the number of groups is not rounded up.
GroupCount_Floor(tasks, perGroup) ==
  IF perGroup > 0 THEN IF tasks < perGroup THEN 1 ELSE tasks \div perGroup
  ELSE numThreads * (-perGroup)

GroupCount(tasks, perGroup) ==
  IF perGroup > 0 THEN (tasks + perGroup - 1) \div perGroup ELSE numThreads * (-perGroup)

\* Split evenly: each group gets numTasksPerGroup, the first ones one more.
Split ==
  /\ stage = "start"
  /\ numTasksPerGroup # 0 /\ numTasks > 0
  /\ numGroups' = GroupCount(numTasks, numTasksPerGroup)
  /\ numTasksPerGroup' = numTasks \div numGroups'
  /\ remainder' = numTasks % numGroups'
  /\ stage' = "loop"
  /\ UNCHANGED <<inputs, begin, made, result>>

\* Mutant: no group gets one of the remainder.
EndOfGroup_NoRemainder == begin + numTasksPerGroup

EndOfGroup == begin + numTasksPerGroup + (IF remainder > 0 THEN 1 ELSE 0)

MakeGroup ==
  /\ stage = "loop" /\ made < numGroups
  /\ remainder' = remainder - 1
  /\ IF EndOfGroup > numTasks
     THEN stage' = "overrun" /\ UNCHANGED <<begin, made, result>>
     ELSE /\ result' = Append(result, [begin |-> begin, end |-> EndOfGroup])
          /\ begin' = EndOfGroup
          /\ made' = made + 1
          /\ UNCHANGED stage
  /\ UNCHANGED <<inputs, split>>

Return ==
  /\ stage = "loop" /\ made = numGroups
  /\ stage' = "done"
  /\ UNCHANGED <<inputs, split, remainder, begin, made, result>>

GroupsDone == stage \in {"done", "zero", "overrun"} /\ UNCHANGED groupVars

GroupNext == Trivial \/ Split \/ MakeGroup \/ Return \/ GroupsDone

GroupSpec == GroupInit /\ [][GroupNext]_groupVars

-----------------------------------------------------------------------------
SizeOf(k) == result[k].end - result[k].begin

\* The exception "groupTasks(): end > numTasks" is never thrown: the groups
\* never claim more tasks than there are.
NeverOverruns == stage # "overrun"

\* Every task ends up in exactly one group and in order: the groups follow one
\* another from the first task to the last.
Partition ==
  stage = "done" =>
    IF result = << >> THEN numTasks = 0
    ELSE /\ result[1].begin = 0 /\ result[Len(result)].end = numTasks
         /\ \A k \in 1..Len(result) : result[k].begin <= result[k].end
         /\ \A k \in 1..Len(result) - 1 : result[k + 1].begin = result[k].end

\* "To evenly split the remainder" (ThreadPool.h:97): no two groups differ by
\* more than one task, whatever the argument.
Balanced == \A j, k \in 1..Len(result) : SizeOf(j) - SizeOf(k) <= 1

\* "If numTasksPerGroup > 0, it's upper bound" (ThreadPool.h:97), though it is
\* forgotten before the groups are made; and then no group is empty.
UpperBound == argument > 0 => \A k \in 1..Len(result) : SizeOf(k) \in 1..argument

\* What every iteration keeps: the tasks not yet grouped are exactly what the
\* remaining groups will take.
LoopInv ==
  stage = "loop" =>
    /\ numGroups > 0 /\ made <= numGroups /\ numTasksPerGroup >= 0
    /\ numTasksPerGroup = numTasks \div numGroups
    /\ remainder = (numTasks % numGroups) - made
    /\ numTasks - begin =
         (numGroups - made) * numTasksPerGroup + (IF remainder > 0 THEN remainder ELSE 0)
=============================================================================
