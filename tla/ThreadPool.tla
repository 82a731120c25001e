----------------------------- MODULE ThreadPool -----------------------------
(***************************************************************************)
(* util/ThreadPool: worker threads, one mutex, two condition variables and *)
(* the task groups that groupTasks() makes.                                *)
(*                                                                         *)
(* A step is one mutex section, one access to an atomic flag outside it,   *)
(* or one call of a task's compute() or merge().  A mutex section is split *)
(* only where another thread can see the difference: merge() runs under    *)
(* the mutex while other workers compute and set `stopping`.               *)
(*                                                                         *)
(* The main thread is the only caller of the API (ThreadPool.h:13), so     *)
(* its mutex sections are single steps.                                    *)
(***************************************************************************)
EXTENDS Integers, Sequences, FiniteSets, Functions

CONSTANTS
  Worker,  \* the threads of the pool
  Group,   \* the TaskGroups main may add
  Size,    \* Size[g]: number of tasks in g
  Batch,   \* the argument of one addTasks(): sequences of groups
  NoTask,  \* currentTask == nullptr
  Free     \* m is not locked

ASSUME WorkerAssumption == IsFiniteSet(Worker) /\ Worker # {} /\ Free \notin Worker
ASSUME GroupAssumption == NoTask \notin Group /\ Size \in [Group -> Nat]
ASSUME BatchAssumption ==
  \A b \in Batch : b \in Seq(Group) /\ b # << >> /\ IsInjective(b)

VARIABLES
  state, queue, numBusyThreads, stopping, waitAllResult,  \* ThreadPool's fields
  m,            \* the worker that holds the mutex, or Free
  cvWorker,     \* workers blocked in cvWorker.wait()
  cvMain,       \* is main blocked in cvMain.wait()
  pc, currentTask, index, computeThrew,  \* per worker; index is the loop's task
  mainPc, notifyOne, result,             \* main; result is waitAll()'s `x`
  computed, merged, failed,              \* what happened to each group's tasks
  submitted, batch,  \* groups added at all, and since waitAll() last returned
  outcome            \* how the last waitAll() returned

poolVars == <<state, queue, numBusyThreads, cvWorker, cvMain>>
flagVars == <<stopping, waitAllResult>>
workerVars == <<pc, currentTask, index, computeThrew>>
mainVars == <<mainPc, notifyOne, result, submitted, batch, outcome>>
taskVars == <<computed, merged, failed>>
vars == <<poolVars, flagVars, m, workerVars, mainVars, taskVars>>

InMerge == {"merge", "merging", "mergeThrew"}
Critical == InMerge \cup {"finish"}
InCompute == {"compute", "computing", "computeThrew"}
Parked == {"sleep", "exit"}
WorkerPc == {"lock"} \cup Critical \cup InCompute \cup Parked
MainPc == {"idle", "notify", "wait", "collect", "rearm", "reset", "join", "done"}


\* The type invariant.
TypeOK ==
  /\ state \in {"ACTIVE", "WAITING", "DESTRUCTING"}
  /\ queue \in Seq(Group)
  /\ numBusyThreads \in Nat
  /\ stopping \in BOOLEAN /\ waitAllResult \in BOOLEAN
  /\ m \in Worker \cup {Free}
  /\ cvWorker \subseteq Worker /\ cvMain \in BOOLEAN
  /\ pc \in [Worker -> WorkerPc]
  /\ currentTask \in [Worker -> Group \cup {NoTask}]
  /\ index \in [Worker -> Nat]
  /\ computeThrew \in [Worker -> BOOLEAN]
  /\ mainPc \in MainPc
  /\ notifyOne \in BOOLEAN /\ result \in BOOLEAN
  /\ computed \in [Group -> Nat] /\ merged \in [Group -> Nat]
  /\ failed \in [Group -> {"no", "compute", "merge"}]
  /\ submitted \subseteq Group /\ batch \subseteq submitted
  /\ outcome \in {"none", "ok", "abort"}

-----------------------------------------------------------------------------
\* The constructor: every thread starts busy, on its way to its first lock.
Init ==
  /\ state = "ACTIVE" /\ queue = << >> /\ numBusyThreads = Cardinality(Worker)
  /\ stopping = FALSE /\ waitAllResult = TRUE
  /\ m = Free /\ cvWorker = {} /\ cvMain = FALSE
  /\ pc = [w \in Worker |-> "lock"]
  /\ currentTask = [w \in Worker |-> NoTask]
  /\ index = [w \in Worker |-> 1]
  /\ computeThrew = [w \in Worker |-> FALSE]
  /\ mainPc = "idle" /\ notifyOne = FALSE /\ result = TRUE
  /\ computed = [g \in Group |-> 0] /\ merged = [g \in Group |-> 0]
  /\ failed = [g \in Group |-> "no"]
  /\ submitted = {} /\ batch = {} /\ outcome = "none"

Goto(w, label) == pc' = [pc EXCEPT ![w] = label]

-----------------------------------------------------------------------------
(* Worker: finish the previous task under the mutex.                       *)

Acquire(w) ==
  /\ pc[w] = "lock"
  /\ m = Free
  /\ m' = w
  /\ computeThrew' = [computeThrew EXCEPT ![w] = FALSE]
  /\ index' = [index EXCEPT ![w] = 1]
  /\ Goto(w, IF computeThrew[w] \/ currentTask[w] = NoTask THEN "finish" ELSE "merge")
  /\ UNCHANGED <<poolVars, flagVars, currentTask, mainVars, taskVars>>

\* Mutant: the loop does not look at stopping.
MergeNext_IgnoresStopping(w) ==
  /\ pc[w] = "merge"
  /\ Goto(w, IF index[w] > Size[currentTask[w]] THEN "finish" ELSE "merging")
  /\ UNCHANGED <<poolVars, flagVars, m, currentTask, index, computeThrew, mainVars, taskVars>>

\* TaskGroup::merge(), the head of the loop: is there a next task to merge?
MergeNext(w) ==
  /\ pc[w] = "merge"
  /\ Goto(w, IF stopping \/ index[w] > Size[currentTask[w]] THEN "finish" ELSE "merging")
  /\ UNCHANGED <<poolVars, flagVars, m, currentTask, index, computeThrew, mainVars, taskVars>>

MergeOk(w) ==
  /\ pc[w] = "merging"
  /\ merged' = [merged EXCEPT ![currentTask[w]] = @ + 1]
  /\ index' = [index EXCEPT ![w] = @ + 1]
  /\ Goto(w, "merge")
  /\ UNCHANGED <<poolVars, flagVars, m, currentTask, computeThrew, mainVars, computed, failed>>

\* merge() throws: processTaskException() sets stopping, then waitAllResult.
MergeThrows(w) ==
  /\ pc[w] = "merging"
  /\ failed' = [failed EXCEPT ![currentTask[w]] = "merge"]
  /\ stopping' = TRUE
  /\ Goto(w, "mergeThrew")
  /\ UNCHANGED <<poolVars, waitAllResult, m, currentTask, index, computeThrew, mainVars, computed, merged>>

MergeReport(w) ==
  /\ pc[w] = "mergeThrew"
  /\ waitAllResult' = FALSE
  /\ Goto(w, "finish")
  /\ UNCHANGED <<poolVars, stopping, m, currentTask, index, computeThrew, mainVars, taskVars>>

-----------------------------------------------------------------------------
(* Worker: get a new task, stop, or wait (`busy` is numBusyThreads here).  *)

TakeTask(w, busy) ==
  /\ queue # << >>
  /\ numBusyThreads' = busy + 1
  /\ currentTask' = [currentTask EXCEPT ![w] = Head(queue)]
  /\ queue' = Tail(queue)
  /\ index' = [index EXCEPT ![w] = 1]
  /\ Goto(w, "compute")
  /\ UNCHANGED <<state, cvWorker, cvMain>>

ParkOrExit(w, busy) ==
  /\ queue = << >>
  /\ numBusyThreads' = busy
  /\ currentTask' = [currentTask EXCEPT ![w] = NoTask]
  /\ cvMain' = (cvMain /\ ~(state # "ACTIVE" /\ busy = 0))
  /\ cvWorker' = IF state = "DESTRUCTING" THEN cvWorker ELSE cvWorker \cup {w}
  /\ Goto(w, IF state = "DESTRUCTING" THEN "exit" ELSE "sleep")
  /\ UNCHANGED <<state, queue, index>>

NextTask(w, busy) == TakeTask(w, busy) \/ ParkOrExit(w, busy)

Finish(w) ==
  /\ pc[w] = "finish"
  /\ NextTask(w, numBusyThreads - 1)
  /\ m' = Free
  /\ UNCHANGED <<flagVars, computeThrew, mainVars, taskVars>>

\* cvWorker.wait() returns: the mutex is taken again and the loop goes on.
Wake(w) ==
  /\ pc[w] = "sleep"
  /\ w \notin cvWorker
  /\ m = Free
  /\ NextTask(w, numBusyThreads)
  /\ UNCHANGED <<m, flagVars, computeThrew, mainVars, taskVars>>

\* A condition variable may wake a thread that nobody notified.
SpuriousWake(w) ==
  /\ w \in cvWorker
  /\ cvWorker' = cvWorker \ {w}
  /\ UNCHANGED <<state, queue, numBusyThreads, cvMain, flagVars, m, workerVars, mainVars, taskVars>>

-----------------------------------------------------------------------------
(* Worker: TaskGroup::compute(), outside the mutex.                        *)

\* Mutant: the loop does not look at stopping.
ComputeNext_IgnoresStopping(w) ==
  /\ pc[w] = "compute"
  /\ Goto(w, IF index[w] > Size[currentTask[w]] THEN "lock" ELSE "computing")
  /\ UNCHANGED <<poolVars, flagVars, m, currentTask, index, computeThrew, mainVars, taskVars>>

ComputeNext(w) ==
  /\ pc[w] = "compute"
  /\ Goto(w, IF stopping \/ index[w] > Size[currentTask[w]] THEN "lock" ELSE "computing")
  /\ UNCHANGED <<poolVars, flagVars, m, currentTask, index, computeThrew, mainVars, taskVars>>

ComputeOk(w) ==
  /\ pc[w] = "computing"
  /\ computed' = [computed EXCEPT ![currentTask[w]] = @ + 1]
  /\ index' = [index EXCEPT ![w] = @ + 1]
  /\ Goto(w, "compute")
  /\ UNCHANGED <<poolVars, flagVars, m, currentTask, computeThrew, mainVars, merged, failed>>

ComputeThrows(w) ==
  /\ pc[w] = "computing"
  /\ failed' = [failed EXCEPT ![currentTask[w]] = "compute"]
  /\ computeThrew' = [computeThrew EXCEPT ![w] = TRUE]
  /\ stopping' = TRUE
  /\ Goto(w, "computeThrew")
  /\ UNCHANGED <<poolVars, waitAllResult, m, currentTask, index, mainVars, computed, merged>>

ComputeReport(w) ==
  /\ pc[w] = "computeThrew"
  /\ waitAllResult' = FALSE
  /\ Goto(w, "lock")
  /\ UNCHANGED <<poolVars, stopping, m, currentTask, index, computeThrew, mainVars, taskVars>>

-----------------------------------------------------------------------------
(* Main thread.                                                            *)

\* The groups added since waitAll() last returned.
Live == IF outcome = "none" THEN batch ELSE {}

\* Mutant: one worker is notified however many tasks are queued.
AddTasks_NotifyOne(b) ==
  /\ mainPc = "idle" /\ m = Free /\ state = "ACTIVE"
  /\ Range(b) \cap submitted = {}
  /\ queue' = queue \o b
  /\ notifyOne' = TRUE
  /\ mainPc' = "notify"
  /\ submitted' = submitted \cup Range(b)
  /\ batch' = Live \cup Range(b)
  /\ outcome' = "none"
  /\ UNCHANGED <<state, numBusyThreads, cvWorker, cvMain, flagVars, m, workerVars, result, taskVars>>

AddTasks(b) ==
  /\ mainPc = "idle" /\ m = Free /\ state = "ACTIVE"
  /\ Range(b) \cap submitted = {}
  /\ queue' = queue \o b
  /\ notifyOne' = (Len(queue') = 1)
  /\ mainPc' = "notify"
  /\ submitted' = submitted \cup Range(b)
  /\ batch' = Live \cup Range(b)
  /\ outcome' = "none"
  /\ UNCHANGED <<state, numBusyThreads, cvWorker, cvMain, flagVars, m, workerVars, result, taskVars>>

\* Mutant: nobody is notified unless the queue was empty and one task came.
Notify_OnlyOne ==
  /\ mainPc = "notify"
  /\ \/ notifyOne /\ \E w \in cvWorker : cvWorker' = cvWorker \ {w}
     \/ notifyOne /\ cvWorker = {} /\ UNCHANGED cvWorker
     \/ ~notifyOne /\ UNCHANGED cvWorker
  /\ mainPc' = "idle"
  /\ UNCHANGED <<state, queue, numBusyThreads, cvMain, flagVars, m, workerVars,
                 notifyOne, result, submitted, batch, outcome, taskVars>>

\* Outside the mutex: notify_one() wakes one blocked worker if there is one.
Notify ==
  /\ mainPc = "notify"
  /\ \/ notifyOne /\ \E w \in cvWorker : cvWorker' = cvWorker \ {w}
     \/ notifyOne /\ cvWorker = {} /\ UNCHANGED cvWorker
     \/ ~notifyOne /\ cvWorker' = {}
  /\ mainPc' = "idle"
  /\ UNCHANGED <<state, queue, numBusyThreads, cvMain, flagVars, m, workerVars,
                 notifyOne, result, submitted, batch, outcome, taskVars>>

\* Mutants: only the count is looked at; only the queue is looked at.
CheckDrained_IgnoresQueue(s) ==
  /\ IF numBusyThreads = 0
     THEN /\ mainPc' = IF s = "DESTRUCTING" THEN "join" ELSE "collect"
          /\ state' = IF s = "DESTRUCTING" THEN s ELSE "ACTIVE"
          /\ cvMain' = FALSE
     ELSE /\ mainPc' = "wait" /\ state' = s /\ cvMain' = TRUE
  /\ UNCHANGED <<queue, numBusyThreads, flagVars, m, workerVars, notifyOne,
                 result, submitted, taskVars>>

CheckDrained_IgnoresBusy(s) ==
  /\ IF queue = << >>
     THEN /\ mainPc' = IF s = "DESTRUCTING" THEN "join" ELSE "collect"
          /\ state' = IF s = "DESTRUCTING" THEN s ELSE "ACTIVE"
          /\ cvMain' = FALSE
     ELSE /\ mainPc' = "wait" /\ state' = s /\ cvMain' = TRUE
  /\ UNCHANGED <<queue, numBusyThreads, flagVars, m, workerVars, notifyOne,
                 result, submitted, taskVars>>

\* The loop of waitAll_impl() from its check to its wait() or its end.
CheckDrained(s) ==
  /\ IF queue = << >> /\ numBusyThreads = 0
     THEN /\ mainPc' = IF s = "DESTRUCTING" THEN "join" ELSE "collect"
          /\ state' = IF s = "DESTRUCTING" THEN s ELSE "ACTIVE"
          /\ cvMain' = FALSE
     ELSE /\ mainPc' = "wait"
          /\ state' = s
          /\ cvMain' = TRUE
  /\ UNCHANGED <<queue, numBusyThreads, flagVars, m, workerVars, notifyOne,
                 result, submitted, taskVars>>

\* Mutant: the destructor does not wake the sleeping workers.
WaitAll_NoNotifyAll(s) ==
  /\ mainPc = "idle" /\ m = Free /\ state = "ACTIVE"
  /\ cvWorker' = cvWorker
  /\ batch' = Live
  /\ outcome' = "none"
  /\ CheckDrained(s)

\* waitAll() with s = WAITING, the destructor with s = DESTRUCTING.
WaitAll(s) ==
  /\ mainPc = "idle" /\ m = Free /\ state = "ACTIVE"
  /\ cvWorker' = IF s = "DESTRUCTING" THEN {} ELSE cvWorker
  /\ batch' = Live
  /\ outcome' = "none"
  /\ CheckDrained(s)

WakeMain ==
  /\ mainPc = "wait" /\ ~cvMain /\ m = Free
  /\ CheckDrained(state)
  /\ UNCHANGED <<cvWorker, batch, outcome>>

SpuriousMain ==
  /\ cvMain
  /\ cvMain' = FALSE
  /\ UNCHANGED <<state, queue, numBusyThreads, cvWorker, flagVars, m, workerVars, mainVars, taskVars>>

\* The rest of waitAll() runs without the mutex: read the result, ...
Collect ==
  /\ mainPc = "collect"
  /\ result' = waitAllResult
  /\ mainPc' = "rearm"
  /\ UNCHANGED <<poolVars, flagVars, m, workerVars, notifyOne, submitted, batch, outcome, taskVars>>

\* Mutant: the result is not set for the next batch.
Rearm_Forgotten ==
  /\ mainPc = "rearm"
  /\ mainPc' = "reset"
  /\ UNCHANGED <<poolVars, flagVars, m, workerVars, notifyOne, result, submitted, batch, outcome, taskVars>>

\* ... set it for the next batch, ...
Rearm ==
  /\ mainPc = "rearm"
  /\ waitAllResult' = TRUE
  /\ mainPc' = "reset"
  /\ UNCHANGED <<poolVars, stopping, m, workerVars, notifyOne, result, submitted, batch, outcome, taskVars>>

\* ... clear stopping, and return or throw Abort.
ReturnWaitAll ==
  /\ mainPc = "reset"
  /\ stopping' = FALSE
  /\ outcome' = IF result THEN "ok" ELSE "abort"
  /\ mainPc' = "idle"
  /\ UNCHANGED <<poolVars, waitAllResult, m, workerVars, notifyOne, result, submitted, batch, taskVars>>

Join ==
  /\ mainPc = "join"
  /\ \A w \in Worker : pc[w] = "exit"
  /\ mainPc' = "done"
  /\ UNCHANGED <<poolVars, flagVars, m, workerVars, notifyOne, result, submitted, batch, outcome, taskVars>>

\* The pool is gone; nothing happens any more.
Terminated == mainPc = "done" /\ UNCHANGED vars

WorkerStep(w) ==
  \/ Acquire(w) \/ MergeNext(w) \/ MergeOk(w) \/ MergeThrows(w) \/ MergeReport(w)
  \/ Finish(w) \/ Wake(w)
  \/ ComputeNext(w) \/ ComputeOk(w) \/ ComputeThrows(w) \/ ComputeReport(w)

MainStep == Notify \/ WakeMain \/ Collect \/ Rearm \/ ReturnWaitAll \/ Join

Next ==
  \/ \E w \in Worker : WorkerStep(w) \/ SpuriousWake(w)
  \/ MainStep \/ SpuriousMain
  \/ \E b \in Batch : AddTasks(b)
  \/ \E s \in {"WAITING", "DESTRUCTING"} : WaitAll(s)
  \/ Terminated

Spec == Init /\ [][Next]_vars

\* A thread that can run is scheduled some day and a task that was called
\* returns or throws.  Nothing makes main call the pool, or a wakeup spurious.
Fairness == (\A w \in Worker : WF_vars(WorkerStep(w))) /\ WF_vars(MainStep)

FairSpec == Spec /\ Fairness

-----------------------------------------------------------------------------
(* Safety.                                                                 *)

Queued == Range(queue)
Held == {currentTask[w] : w \in Worker} \ {NoTask}
Quiet == queue = << >> /\ \A w \in Worker : pc[w] \in Parked

\* merge() is called for a task only after compute() of every task of its
\* group returned, and in order: PacMan's and Resolver's merge() dereference
\* what compute() left behind.  A group whose compute loop broke off early on
\* `stopping` reaches merge() too; it is `stopping` still being set that keeps
\* its merge loop from running, and waitAll() clears that flag.
MergeOnlyComputed ==
  \A w \in Worker : pc[w] = "merging" =>
    LET g == currentTask[w] IN
    /\ computed[g] = Size[g]
    /\ failed[g] = "no"
    /\ index[w] = merged[g] + 1

\* numBusyThreads counts the workers that are not in cvWorker.wait() and did
\* not exit; waitAll() takes 0 for "no task is running".
BusyCount == numBusyThreads = Cardinality({w \in Worker : pc[w] \notin Parked})

\* A normal return of waitAll() means that every task of the batch is computed
\* and merged; Abort means that a task of this very batch threw (and not one
\* of an earlier batch whose flags leaked into this one).
WaitAllVerdict ==
  /\ outcome = "ok" => \A g \in batch : merged[g] = Size[g] /\ failed[g] = "no"
  /\ outcome = "abort" => \E g \in batch : failed[g] # "no"

\* Once waitAll() has looked, and until main adds tasks again, no worker runs
\* or holds a task: main reads and changes what tasks write (the Context)
\* without the mutex, and resets both flags without it.
QuietAfterWait ==
  mainPc \in {"collect", "rearm", "reset", "join", "done"} \/ outcome # "none" => Quiet

\* `stopping` and `waitAllResult` never outlive their batch: when main is back
\* in its own code after waitAll(), both are as the constructor made them.
FlagsRearmed == outcome # "none" => ~stopping /\ waitAllResult

\* A task group is executed by one worker and once: it is never in the queue
\* twice, in the queue and held, or held by two workers.
RunOnce ==
  /\ IsInjective(queue)
  /\ Queued \cap Held = {}
  /\ \A v, w \in Worker : currentTask[v] = currentTask[w] /\ currentTask[v] # NoTask => v = w

\* No wakeup is lost on the workers' side: when main is past its notify, a
\* worker still blocked in cvWorker.wait() while tasks are queued is excused
\* by one task only and by another worker already woken to take it.
WorkConserving ==
  mainPc # "notify" /\ queue # << >> /\ cvWorker # {} =>
    Len(queue) = 1 /\ \E w \in Worker \ cvWorker : pc[w] = "sleep"

\* No wakeup is lost on main's side: it is blocked in cvMain.wait() only while
\* some worker still has to go through the code that notifies it.
MainNotForgotten == cvMain => queue # << >> \/ numBusyThreads > 0

\* The RACE of waitAll_impl()'s comment: once the destructor waits for the
\* threads, no thread may be left in, or go back to, cvWorker.wait().
NoSleeperAtJoin == state = "DESTRUCTING" => cvWorker = {}

\* No notify comes too early or goes to too few: addTasks() notifies outside the
\* mutex, workers notify main, and waitAll_impl() notifies both.
NoLostWakeup == WorkConserving /\ MainNotForgotten /\ NoSleeperAtJoin

-----------------------------------------------------------------------------
(* The inductive invariant behind the safety properties.                   *)

\* The mutex is held exactly by the worker in its mutex section.
LockInv == \A w \in Worker : m = w <=> pc[w] \in Critical

\* Groups in the queue or held by a worker are of this batch; a worker holds a
\* group from taking it to the end of finishing it, and no other way.
PlaceInv ==
  /\ RunOnce
  /\ Queued \subseteq Live
  /\ Held \subseteq Live
  /\ \A w \in Worker :
       /\ pc[w] \in InMerge \cup InCompute => currentTask[w] # NoTask
       /\ pc[w] \in Parked => currentTask[w] = NoTask
       /\ computeThrew[w] => pc[w] \in {"computeThrew", "lock"} /\ currentTask[w] # NoTask

\* What happened to the tasks of a group, by the step its worker is at.
Fresh(g) == computed[g] = 0 /\ merged[g] = 0 /\ failed[g] = "no"
Complete(g) == computed[g] = Size[g] /\ merged[g] = Size[g] /\ failed[g] = "no"
Computing(w, g) ==
  /\ failed[g] = "no" /\ merged[g] = 0 /\ ~computeThrew[w]
  /\ index[w] = computed[g] + 1
  /\ computed[g] <= Size[g]
  /\ pc[w] = "computing" => computed[g] < Size[g]
Computed(w, g) ==
  IF computeThrew[w] THEN failed[g] = "compute"
  ELSE /\ failed[g] = "no" /\ merged[g] = 0 /\ computed[g] <= Size[g]
       /\ computed[g] = Size[g] \/ stopping
Merging(w, g) ==
  /\ failed[g] = "no"
  /\ index[w] = merged[g] + 1
  /\ IF computed[g] = Size[g] THEN merged[g] <= Size[g] ELSE stopping /\ merged[g] = 0
  /\ pc[w] = "merging" => computed[g] = Size[g] /\ merged[g] < Size[g]

TaskAt(w, g) ==
  /\ pc[w] \in {"compute", "computing"} => Computing(w, g)
  /\ pc[w] = "computeThrew" => failed[g] = "compute" /\ computeThrew[w]
  /\ pc[w] = "lock" => Computed(w, g)
  /\ pc[w] \in {"merge", "merging"} => Merging(w, g)
  /\ pc[w] = "mergeThrew" => failed[g] = "merge"
  /\ pc[w] = "finish" => Complete(g) \/ stopping

TaskInv ==
  /\ \A g \in Group : g \notin submitted \/ g \in Queued => Fresh(g)
  /\ \A w \in Worker : currentTask[w] # NoTask => TaskAt(w, currentTask[w])
  /\ \A g \in Live : g \in Queued \/ g \in Held \/ Complete(g) \/ stopping

\* stopping and waitAllResult say of the current batch whether a task failed.
FlagInv ==
  /\ stopping <=> \E g \in Live : failed[g] # "no"
  /\ ~waitAllResult => stopping
  /\ stopping /\ waitAllResult =>
       mainPc = "reset" \/ \E w \in Worker : pc[w] \in {"computeThrew", "mergeThrew"}
  /\ mainPc = "rearm" => (result <=> ~stopping)
  /\ mainPc = "reset" => (result <=> ~stopping) /\ waitAllResult

\* Where main is, the state it has set, and what it knows of the workers.
MainInv ==
  /\ QuietAfterWait
  /\ outcome # "none" => mainPc = "idle"
  /\ mainPc \in {"idle", "notify", "collect", "rearm", "reset"} => state = "ACTIVE"
  /\ mainPc \in {"join", "done"} => state = "DESTRUCTING"
  /\ mainPc = "wait" => state # "ACTIVE"
  /\ WaitAllVerdict

IInv == TypeOK /\ LockInv /\ BusyCount /\ PlaceInv /\ TaskInv /\ FlagInv /\ MainInv

\* And of the wakeups, on top of IInv.
WakeInv ==
  /\ \A w \in cvWorker : pc[w] = "sleep"
  /\ cvMain => mainPc = "wait"
  /\ mainPc = "notify" /\ notifyOne => Len(queue) <= 1
  /\ WorkConserving /\ MainNotForgotten /\ NoSleeperAtJoin

-----------------------------------------------------------------------------
(* The abstract specification.                                             *)

Phase ==
  IF mainPc \in {"idle", "notify"} THEN "open"
  ELSE IF state = "DESTRUCTING" THEN IF mainPc = "done" THEN "closed" ELSE "closing"
  ELSE "waiting"

Abstract == INSTANCE TaskBatch WITH live <- Live, phase <- Phase

\* The pool keeps the promise of its header: every step of a thread is a step
\* of TaskBatch or changes nothing there.
ImplementsTaskBatch == Abstract!Spec

-----------------------------------------------------------------------------
(* Liveness, under Fairness.                                               *)

\* waitAll() returns or throws, whatever its tasks did, and the destructor ends:
\* every thread leaves its loop and is joined.
WaitsEnd ==
  /\ mainPc = "wait" /\ state = "WAITING" ~> outcome # "none"
  /\ state = "DESTRUCTING" ~> mainPc = "done"

\* "If some Task throws, no reason to continue other tasks" (ThreadPool.h:18):
\* a group still queued when a task fails is never computed, not even after
\* waitAll() has cleared `stopping` for the next batch.
FailureDropsQueue ==
  \A g \in Group : [](stopping /\ g \in Queued => [](computed[g] = 0))

\* Tasks added are taken from the queue even when main never calls waitAll().
QueueServed == \A g \in Group : g \in Queued ~> g \notin Queued
=============================================================================
