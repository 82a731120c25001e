--------------------------- MODULE ThreadPoolProofs ---------------------------
(* Theorems about ThreadPool for any number of workers, groups and tasks.  *)
EXTENDS ThreadPool, TLAPS, FiniteSetTheorems, SequenceTheorems

-----------------------------------------------------------------------------
(* Sequences as queues of distinct groups.                                 *)

\* Taking the head of a queue without repetitions takes exactly that element.
LEMMA TakeHead ==
  ASSUME NEW q \in Seq(Group), q # << >>, IsInjective(q)
  PROVE  /\ Head(q) \in Group /\ Tail(q) \in Seq(Group)
         /\ Head(q) \in Range(q)
         /\ Range(Tail(q)) = Range(q) \ {Head(q)}
         /\ IsInjective(Tail(q))
<1>1. /\ Len(q) \in Nat \ {0} /\ DOMAIN q = 1..Len(q) /\ Head(q) = q[1]
      /\ Tail(q) \in Seq(Group) /\ Len(Tail(q)) = Len(q) - 1
      /\ \A i \in 1..Len(Tail(q)) : Tail(q)[i] = q[i + 1]
  OBVIOUS
<1>2. DOMAIN Tail(q) = 1..(Len(q) - 1)
  BY <1>1
<1>3. ASSUME NEW x \in Range(Tail(q)) PROVE x \in Range(q) \ {q[1]}
  <2>1. PICK i \in 1..(Len(q) - 1) : x = q[i + 1]
    BY <1>1, <1>2 DEF Range
  <2>2. i + 1 \in DOMAIN q /\ 1 \in DOMAIN q /\ i + 1 # 1
    BY <1>1
  <2> QED BY <2>1, <2>2 DEF IsInjective, Range
<1>4. ASSUME NEW x \in Range(q), x # q[1] PROVE x \in Range(Tail(q))
  <2>1. PICK i \in 1..Len(q) : x = q[i]
    BY <1>1 DEF Range
  <2>2. i - 1 \in 1..(Len(q) - 1) /\ i = (i - 1) + 1
    BY <1>1, <1>4, <2>1
  <2>3. Tail(q)[i - 1] = x
    BY <1>1, <2>1, <2>2
  <2> QED BY <1>2, <2>2, <2>3 DEF Range
<1>5. q[1] \in Range(q)
  BY <1>1 DEF Range
<1>6. IsInjective(Tail(q))
  BY <1>1, <1>2 DEF IsInjective
<1> QED BY <1>1, <1>3, <1>4, <1>5, <1>6

\* Appending a batch of new groups keeps the queue free of repetitions.
LEMMA AppendBatch ==
  ASSUME NEW q \in Seq(Group), NEW b \in Seq(Group),
         IsInjective(q), IsInjective(b), Range(q) \cap Range(b) = {}
  PROVE  /\ q \o b \in Seq(Group)
         /\ Range(q \o b) = Range(q) \cup Range(b)
         /\ IsInjective(q \o b)
<1> DEFINE s == q \o b
<1>1. /\ s \in Seq(Group) /\ DOMAIN s = 1..(Len(q) + Len(b))
      /\ \A i \in 1..(Len(q) + Len(b)) : s[i] = IF i <= Len(q) THEN q[i] ELSE b[i - Len(q)]
      /\ Len(q) \in Nat /\ Len(b) \in Nat /\ DOMAIN q = 1..Len(q) /\ DOMAIN b = 1..Len(b)
  BY ConcatProperties
<1> HIDE DEF s
<1>2. \A i \in 1..Len(q) : s[i] = q[i]
  BY <1>1
<1>3. ASSUME NEW i \in 1..Len(b) PROVE s[i + Len(q)] = b[i] /\ i + Len(q) \in DOMAIN s
  <2>1. /\ i + Len(q) \in 1..(Len(q) + Len(b))
        /\ ~(i + Len(q) <= Len(q))
        /\ (i + Len(q)) - Len(q) = i
    BY <1>1
  <2> QED BY <1>1, <2>1
<1>4. Range(s) = Range(q) \cup Range(b)
  <2>1. ASSUME NEW i \in DOMAIN s PROVE s[i] \in Range(q) \cup Range(b)
    BY <1>1, SMTT(30) DEF Range
  <2>2. \A i \in DOMAIN q : q[i] \in Range(s)
    BY <1>1, <1>2 DEF Range
  <2>3. \A i \in DOMAIN b : b[i] \in Range(s)
    BY <1>1, <1>3 DEF Range
  <2> QED BY <2>1, <2>2, <2>3 DEF Range
<1>5. IsInjective(s)
  <2> SUFFICES ASSUME NEW i \in DOMAIN s, NEW j \in DOMAIN s, s[i] = s[j] PROVE i = j
    BY DEF IsInjective
  <2>1. CASE i <= Len(q) /\ j <= Len(q)
    BY <1>1, <2>1 DEF IsInjective
  <2>2. CASE i > Len(q) /\ j > Len(q)
    <3>1. s[i] = b[i - Len(q)] /\ s[j] = b[j - Len(q)]
      BY <1>1, <2>2
    <3>2. i - Len(q) \in DOMAIN b /\ j - Len(q) \in DOMAIN b
      BY <1>1, <2>2
    <3>3. i - Len(q) = j - Len(q)
      BY <3>1, <3>2 DEF IsInjective
    <3> QED BY <1>1, <3>3
  <2>3. CASE i <= Len(q) /\ j > Len(q)
    <3>1. q[i] \in Range(q) /\ s[i] = q[i]
      BY <1>1, <2>3 DEF Range
    <3>2. b[j - Len(q)] \in Range(b) /\ s[j] = b[j - Len(q)]
      BY <1>1, <2>3 DEF Range
    <3> QED BY <3>1, <3>2
  <2>4. CASE i > Len(q) /\ j <= Len(q)
    <3>1. q[j] \in Range(q) /\ s[j] = q[j]
      BY <1>1, <2>4 DEF Range
    <3>2. b[i - Len(q)] \in Range(b) /\ s[i] = b[i - Len(q)]
      BY <1>1, <2>4 DEF Range
    <3> QED BY <3>1, <3>2
  <2> QED BY <1>1, <2>1, <2>2, <2>3, <2>4
<1> QED BY <1>1, <1>4, <1>5 DEF s

\* Moving one worker into or out of a finite set of workers moves its size by one.
LEMMA CountWorkers ==
  ASSUME NEW S \in SUBSET Worker, NEW w \in Worker
  PROVE  /\ Cardinality(S) \in Nat
         /\ w \in S => Cardinality(S \ {w}) = Cardinality(S) - 1
         /\ w \notin S => Cardinality(S \cup {w}) = Cardinality(S) + 1
         /\ Cardinality(S) = 0 <=> S = {}
BY WorkerAssumption, FS_Subset, FS_AddElement, FS_RemoveElement, FS_CardinalityType, FS_EmptySet

-----------------------------------------------------------------------------
(* IInv is inductive: one lemma per action, one step per conjunct.         *)

\* A step of worker w leaves what is known of another worker's group alone.
LEMMA OtherTask ==
  ASSUME NEW v \in Worker, currentTask[v] # NoTask, TypeOK, TaskAt(v, currentTask[v]),
         pc'[v] = pc[v], currentTask'[v] = currentTask[v], index'[v] = index[v],
         computeThrew'[v] = computeThrew[v],
         computed'[currentTask[v]] = computed[currentTask[v]],
         merged'[currentTask[v]] = merged[currentTask[v]],
         failed'[currentTask[v]] = failed[currentTask[v]],
         stopping => stopping'
  PROVE  TaskAt(v, currentTask[v])'
BY DEF TaskAt, Computing, Computed, Merging, Complete, TypeOK

LEMMA AcquireStep ==
  ASSUME IInv, NEW w \in Worker, Acquire(w)
  PROVE  IInv'
<1> USE DEF IInv, poolVars, flagVars, workerVars, mainVars, taskVars, Goto, Acquire
<1>0. Queued' = Queued /\ Held' = Held /\ Live' = Live
  BY DEF Queued, Held, Live
<1>g. currentTask[w] # NoTask => currentTask[w] \in Group /\ currentTask[w] \in Held
  BY DEF Held, TypeOK
<1>1. TypeOK'
  BY <1>g DEF TypeOK, WorkerPc, Critical, InMerge, InCompute, Parked, MainPc
<1>2. LockInv'
  BY WorkerAssumption DEF LockInv, TypeOK, Critical, InMerge
<1>3. BusyCount'
  BY DEF BusyCount, Parked, TypeOK
<1>4. PlaceInv'
  BY <1>0, <1>g DEF PlaceInv, RunOnce, InMerge, InCompute, Parked, TypeOK
<1>5. TaskInv'
  <2>1. \A g \in Group : g \notin submitted' \/ g \in Queued' => Fresh(g)'
    BY <1>0, <1>g DEF TaskInv, PlaceInv, RunOnce, Fresh, Live, TypeOK
  <2>2. currentTask'[w] # NoTask => TaskAt(w, currentTask[w])'
    BY <1>g DEF TaskInv, TaskAt, Computed, Merging, Complete, PlaceInv, FlagInv, LockInv, Critical, InMerge, TypeOK
  <2>3. ASSUME NEW v \in Worker, v # w, currentTask[v] # NoTask
        PROVE  TaskAt(v, currentTask[v])'
    <3>1. currentTask[v] # currentTask[w] /\ currentTask[v] \in Group
      BY <2>3 DEF PlaceInv, RunOnce, TypeOK
    <3>2. TaskAt(v, currentTask[v])
      BY <2>3 DEF TaskInv
    <3> QED BY <1>g, <2>3, <3>1, <3>2, OtherTask DEF TypeOK
  <2>4. \A g \in Live' : g \in Queued' \/ g \in Held' \/ Complete(g)' \/ stopping'
    BY <1>0, <1>g DEF TaskInv, Complete
  <2> QED BY <2>1, <2>2, <2>3, <2>4 DEF TaskInv
<1>6. FlagInv'
  BY <1>0, <1>g DEF FlagInv, MainInv, QuietAfterWait, Quiet, Parked, TypeOK, PlaceInv
<1>7. MainInv'
  BY <1>0 DEF MainInv, QuietAfterWait, Quiet, WaitAllVerdict, Parked, TypeOK
<1> QED BY <1>1, <1>2, <1>3, <1>4, <1>5, <1>6, <1>7

LEMMA MergeNextStep ==
  ASSUME IInv, NEW w \in Worker, MergeNext(w)
  PROVE  IInv'
<1> USE DEF IInv, poolVars, flagVars, workerVars, mainVars, taskVars, Goto, MergeNext
<1>0. Queued' = Queued /\ Held' = Held /\ Live' = Live
  BY DEF Queued, Held, Live
<1>g. currentTask[w] # NoTask /\ currentTask[w] \in Group /\ currentTask[w] \in Held /\ currentTask[w] \in Live
  BY DEF PlaceInv, InMerge, InCompute, Held, TypeOK
<1>1. TypeOK'
  BY <1>g DEF TypeOK, WorkerPc, Critical, InMerge, InCompute, Parked, MainPc
<1>2. LockInv'
  BY DEF LockInv, TypeOK, Critical, InMerge
<1>3. BusyCount'
  BY DEF BusyCount, Parked, TypeOK
<1>4. PlaceInv'
  BY <1>0, <1>g DEF PlaceInv, RunOnce, InMerge, InCompute, Parked, TypeOK
<1>5. TaskInv'
  <2>1. \A g \in Group : g \notin submitted' \/ g \in Queued' => Fresh(g)'
    BY <1>0, <1>g DEF TaskInv, PlaceInv, RunOnce, Fresh, Live, TypeOK
  <2>2. currentTask'[w] # NoTask => TaskAt(w, currentTask[w])'
    BY <1>g DEF TaskInv, TaskAt, Merging, Complete, PlaceInv, FlagInv, LockInv, Critical, InMerge, TypeOK
  <2>3. ASSUME NEW v \in Worker, v # w, currentTask[v] # NoTask
        PROVE  TaskAt(v, currentTask[v])'
    <3>1. currentTask[v] # currentTask[w] /\ currentTask[v] \in Group
      BY <2>3 DEF PlaceInv, RunOnce, TypeOK
    <3>2. TaskAt(v, currentTask[v])
      BY <2>3 DEF TaskInv
    <3> QED BY <1>g, <2>3, <3>1, <3>2, OtherTask DEF TypeOK
  <2>4. \A g \in Live' : g \in Queued' \/ g \in Held' \/ Complete(g)' \/ stopping'
    BY <1>0, <1>g DEF TaskInv, Complete
  <2> QED BY <2>1, <2>2, <2>3, <2>4 DEF TaskInv
<1>6. FlagInv'
  BY <1>0, <1>g DEF FlagInv, MainInv, QuietAfterWait, Quiet, Parked, TypeOK, PlaceInv
<1>7. MainInv'
  BY <1>0 DEF MainInv, QuietAfterWait, Quiet, WaitAllVerdict, Parked, TypeOK
<1> QED BY <1>1, <1>2, <1>3, <1>4, <1>5, <1>6, <1>7

LEMMA MergeOkStep ==
  ASSUME IInv, NEW w \in Worker, MergeOk(w)
  PROVE  IInv'
<1> USE DEF IInv, poolVars, flagVars, workerVars, mainVars, taskVars, Goto, MergeOk
<1>0. Queued' = Queued /\ Held' = Held /\ Live' = Live
  BY DEF Queued, Held, Live
<1>g. currentTask[w] # NoTask /\ currentTask[w] \in Group /\ currentTask[w] \in Held /\ currentTask[w] \in Live
  BY DEF PlaceInv, InMerge, InCompute, Held, TypeOK
<1>1. TypeOK'
  BY <1>g DEF TypeOK, WorkerPc, Critical, InMerge, InCompute, Parked, MainPc
<1>2. LockInv'
  BY DEF LockInv, TypeOK, Critical, InMerge
<1>3. BusyCount'
  BY DEF BusyCount, Parked, TypeOK
<1>4. PlaceInv'
  BY <1>0, <1>g DEF PlaceInv, RunOnce, InMerge, InCompute, Parked, TypeOK
<1>5. TaskInv'
  <2>1. \A g \in Group : g \notin submitted' \/ g \in Queued' => Fresh(g)'
    BY <1>0, <1>g DEF TaskInv, PlaceInv, RunOnce, Fresh, Live, TypeOK
  <2>2. currentTask'[w] # NoTask => TaskAt(w, currentTask[w])'
    BY <1>g DEF TaskInv, TaskAt, Merging, PlaceInv, FlagInv, LockInv, Critical, InMerge, TypeOK
  <2>3. ASSUME NEW v \in Worker, v # w, currentTask[v] # NoTask
        PROVE  TaskAt(v, currentTask[v])'
    <3>1. currentTask[v] # currentTask[w] /\ currentTask[v] \in Group
      BY <2>3 DEF PlaceInv, RunOnce, TypeOK
    <3>2. TaskAt(v, currentTask[v])
      BY <2>3 DEF TaskInv
    <3> QED BY <1>g, <2>3, <3>1, <3>2, OtherTask DEF TypeOK
  <2>4. \A g \in Live' : g \in Queued' \/ g \in Held' \/ Complete(g)' \/ stopping'
    BY <1>0, <1>g DEF TaskInv, Complete
  <2> QED BY <2>1, <2>2, <2>3, <2>4 DEF TaskInv
<1>6. FlagInv'
  BY <1>0, <1>g DEF FlagInv, MainInv, QuietAfterWait, Quiet, Parked, TypeOK, PlaceInv
<1>7. MainInv'
  BY <1>0 DEF MainInv, QuietAfterWait, Quiet, WaitAllVerdict, Parked, TypeOK
<1> QED BY <1>1, <1>2, <1>3, <1>4, <1>5, <1>6, <1>7

LEMMA MergeThrowsStep ==
  ASSUME IInv, NEW w \in Worker, MergeThrows(w)
  PROVE  IInv'
<1> USE DEF IInv, poolVars, flagVars, workerVars, mainVars, taskVars, Goto, MergeThrows
<1>0. Queued' = Queued /\ Held' = Held /\ Live' = Live
  BY DEF Queued, Held, Live
<1>g. currentTask[w] # NoTask /\ currentTask[w] \in Group /\ currentTask[w] \in Held /\ currentTask[w] \in Live
  BY DEF PlaceInv, InMerge, InCompute, Held, TypeOK
<1>b. stopping' /\ stopping' \in BOOLEAN
  BY DEF TypeOK
<1>1. TypeOK'
  BY <1>g, <1>b DEF TypeOK, WorkerPc, Critical, InMerge, InCompute, Parked, MainPc
<1>2. LockInv'
  BY DEF LockInv, TypeOK, Critical, InMerge
<1>3. BusyCount'
  BY DEF BusyCount, Parked, TypeOK
<1>4. PlaceInv'
  BY <1>0, <1>g DEF PlaceInv, RunOnce, InMerge, InCompute, Parked, TypeOK
<1>5. TaskInv'
  <2>1. \A g \in Group : g \notin submitted' \/ g \in Queued' => Fresh(g)'
    BY <1>0, <1>g DEF TaskInv, PlaceInv, RunOnce, Fresh, Live, TypeOK
  <2>2. currentTask'[w] # NoTask => TaskAt(w, currentTask[w])'
    BY <1>g, <1>b DEF TaskInv, TaskAt, Merging, PlaceInv, FlagInv, LockInv, Critical, InMerge, TypeOK
  <2>3. ASSUME NEW v \in Worker, v # w, currentTask[v] # NoTask
        PROVE  TaskAt(v, currentTask[v])'
    <3>1. currentTask[v] # currentTask[w] /\ currentTask[v] \in Group
      BY <2>3 DEF PlaceInv, RunOnce, TypeOK
    <3>2. TaskAt(v, currentTask[v])
      BY <2>3 DEF TaskInv
    <3> QED BY <1>g, <1>b, <2>3, <3>1, <3>2, OtherTask DEF TypeOK
  <2>4. \A g \in Live' : g \in Queued' \/ g \in Held' \/ Complete(g)' \/ stopping'
    BY <1>0, <1>g, <1>b DEF TaskInv, Complete
  <2> QED BY <2>1, <2>2, <2>3, <2>4 DEF TaskInv
<1>6. FlagInv'
  BY <1>0, <1>g, <1>b DEF FlagInv, MainInv, QuietAfterWait, Quiet, Parked, TypeOK, PlaceInv
<1>7. MainInv'
  BY <1>0 DEF MainInv, QuietAfterWait, Quiet, WaitAllVerdict, Parked, TypeOK
<1> QED BY <1>1, <1>2, <1>3, <1>4, <1>5, <1>6, <1>7

LEMMA MergeReportStep ==
  ASSUME IInv, NEW w \in Worker, MergeReport(w)
  PROVE  IInv'
<1> USE DEF IInv, poolVars, flagVars, workerVars, mainVars, taskVars, Goto, MergeReport
<1>0. Queued' = Queued /\ Held' = Held /\ Live' = Live
  BY DEF Queued, Held, Live
<1>g. currentTask[w] # NoTask /\ currentTask[w] \in Group /\ currentTask[w] \in Held /\ currentTask[w] \in Live
  BY DEF PlaceInv, InMerge, InCompute, Held, TypeOK
<1>b. ~waitAllResult' /\ waitAllResult' \in BOOLEAN
  BY DEF TypeOK
<1>s. stopping
  BY <1>g DEF TaskInv, TaskAt, FlagInv, TypeOK
<1>1. TypeOK'
  BY <1>g, <1>b, <1>s DEF TypeOK, WorkerPc, Critical, InMerge, InCompute, Parked, MainPc
<1>2. LockInv'
  BY DEF LockInv, TypeOK, Critical, InMerge
<1>3. BusyCount'
  BY DEF BusyCount, Parked, TypeOK
<1>4. PlaceInv'
  BY <1>0, <1>g DEF PlaceInv, RunOnce, InMerge, InCompute, Parked, TypeOK
<1>5. TaskInv'
  <2>1. \A g \in Group : g \notin submitted' \/ g \in Queued' => Fresh(g)'
    BY <1>0, <1>g DEF TaskInv, PlaceInv, RunOnce, Fresh, Live, TypeOK
  <2>2. currentTask'[w] # NoTask => TaskAt(w, currentTask[w])'
    BY <1>g, <1>b, <1>s DEF TaskInv, TaskAt, Merging, PlaceInv, FlagInv, LockInv, Critical, InMerge, TypeOK
  <2>3. ASSUME NEW v \in Worker, v # w, currentTask[v] # NoTask
        PROVE  TaskAt(v, currentTask[v])'
    <3>1. currentTask[v] # currentTask[w] /\ currentTask[v] \in Group
      BY <2>3 DEF PlaceInv, RunOnce, TypeOK
    <3>2. TaskAt(v, currentTask[v])
      BY <2>3 DEF TaskInv
    <3> QED BY <1>g, <1>b, <1>s, <2>3, <3>1, <3>2, OtherTask DEF TypeOK
  <2>4. \A g \in Live' : g \in Queued' \/ g \in Held' \/ Complete(g)' \/ stopping'
    BY <1>0, <1>g, <1>b, <1>s DEF TaskInv, Complete
  <2> QED BY <2>1, <2>2, <2>3, <2>4 DEF TaskInv
<1>6. FlagInv'
  BY <1>0, <1>g, <1>b, <1>s DEF FlagInv, MainInv, QuietAfterWait, Quiet, Parked, TypeOK, PlaceInv
<1>7. MainInv'
  BY <1>0 DEF MainInv, QuietAfterWait, Quiet, WaitAllVerdict, Parked, TypeOK
<1> QED BY <1>1, <1>2, <1>3, <1>4, <1>5, <1>6, <1>7

LEMMA ComputeNextStep ==
  ASSUME IInv, NEW w \in Worker, ComputeNext(w)
  PROVE  IInv'
<1> USE DEF IInv, poolVars, flagVars, workerVars, mainVars, taskVars, Goto, ComputeNext
<1>0. Queued' = Queued /\ Held' = Held /\ Live' = Live
  BY DEF Queued, Held, Live
<1>g. currentTask[w] # NoTask /\ currentTask[w] \in Group /\ currentTask[w] \in Held /\ currentTask[w] \in Live
  BY DEF PlaceInv, InMerge, InCompute, Held, TypeOK
<1>1. TypeOK'
  BY <1>g DEF TypeOK, WorkerPc, Critical, InMerge, InCompute, Parked, MainPc
<1>2. LockInv'
  BY DEF LockInv, TypeOK, Critical, InMerge
<1>3. BusyCount'
  BY DEF BusyCount, Parked, TypeOK
<1>4. PlaceInv'
  BY <1>0, <1>g DEF PlaceInv, RunOnce, InMerge, InCompute, Parked, TypeOK
<1>5. TaskInv'
  <2>1. \A g \in Group : g \notin submitted' \/ g \in Queued' => Fresh(g)'
    BY <1>0, <1>g DEF TaskInv, PlaceInv, RunOnce, Fresh, Live, TypeOK
  <2>2. currentTask'[w] # NoTask => TaskAt(w, currentTask[w])'
    BY <1>g, GroupAssumption DEF TaskInv, TaskAt, Computing, Computed, PlaceInv, FlagInv, LockInv, Critical, InMerge, TypeOK
  <2>3. ASSUME NEW v \in Worker, v # w, currentTask[v] # NoTask
        PROVE  TaskAt(v, currentTask[v])'
    <3>1. currentTask[v] # currentTask[w] /\ currentTask[v] \in Group
      BY <2>3 DEF PlaceInv, RunOnce, TypeOK
    <3>2. TaskAt(v, currentTask[v])
      BY <2>3 DEF TaskInv
    <3> QED BY <1>g, <2>3, <3>1, <3>2, OtherTask DEF TypeOK
  <2>4. \A g \in Live' : g \in Queued' \/ g \in Held' \/ Complete(g)' \/ stopping'
    BY <1>0, <1>g DEF TaskInv, Complete
  <2> QED BY <2>1, <2>2, <2>3, <2>4 DEF TaskInv
<1>6. FlagInv'
  BY <1>0, <1>g DEF FlagInv, MainInv, QuietAfterWait, Quiet, Parked, TypeOK, PlaceInv
<1>7. MainInv'
  BY <1>0 DEF MainInv, QuietAfterWait, Quiet, WaitAllVerdict, Parked, TypeOK
<1> QED BY <1>1, <1>2, <1>3, <1>4, <1>5, <1>6, <1>7

LEMMA ComputeOkStep ==
  ASSUME IInv, NEW w \in Worker, ComputeOk(w)
  PROVE  IInv'
<1> USE DEF IInv, poolVars, flagVars, workerVars, mainVars, taskVars, Goto, ComputeOk
<1>0. Queued' = Queued /\ Held' = Held /\ Live' = Live
  BY DEF Queued, Held, Live
<1>g. currentTask[w] # NoTask /\ currentTask[w] \in Group /\ currentTask[w] \in Held /\ currentTask[w] \in Live
  BY DEF PlaceInv, InMerge, InCompute, Held, TypeOK
<1>1. TypeOK'
  BY <1>g DEF TypeOK, WorkerPc, Critical, InMerge, InCompute, Parked, MainPc
<1>2. LockInv'
  BY DEF LockInv, TypeOK, Critical, InMerge
<1>3. BusyCount'
  BY DEF BusyCount, Parked, TypeOK
<1>4. PlaceInv'
  BY <1>0, <1>g DEF PlaceInv, RunOnce, InMerge, InCompute, Parked, TypeOK
<1>5. TaskInv'
  <2>1. \A g \in Group : g \notin submitted' \/ g \in Queued' => Fresh(g)'
    BY <1>0, <1>g DEF TaskInv, PlaceInv, RunOnce, Fresh, Live, TypeOK
  <2>2. currentTask'[w] # NoTask => TaskAt(w, currentTask[w])'
    <3> DEFINE g == currentTask[w]
    <3>1. Computing(w, g) /\ computed[g] < Size[g] /\ Size[g] \in Nat /\ computed[g] \in Nat
      BY <1>g, GroupAssumption DEF TaskInv, TaskAt, Computing, TypeOK
    <3>2. /\ computed'[g] = computed[g] + 1 /\ index'[w] = index[w] + 1
          /\ pc'[w] = "compute" /\ currentTask'[w] = g
      BY <1>g DEF TypeOK
    <3> QED BY <3>1, <3>2 DEF TaskAt, Computing, TypeOK
  <2>3. ASSUME NEW v \in Worker, v # w, currentTask[v] # NoTask
        PROVE  TaskAt(v, currentTask[v])'
    <3>1. currentTask[v] # currentTask[w] /\ currentTask[v] \in Group
      BY <2>3 DEF PlaceInv, RunOnce, TypeOK
    <3>2. TaskAt(v, currentTask[v])
      BY <2>3 DEF TaskInv
    <3> QED BY <1>g, <2>3, <3>1, <3>2, OtherTask DEF TypeOK
  <2>4. \A g \in Live' : g \in Queued' \/ g \in Held' \/ Complete(g)' \/ stopping'
    BY <1>0, <1>g DEF TaskInv, Complete
  <2> QED BY <2>1, <2>2, <2>3, <2>4 DEF TaskInv
<1>6. FlagInv'
  BY <1>0, <1>g DEF FlagInv, MainInv, QuietAfterWait, Quiet, Parked, TypeOK, PlaceInv
<1>7. MainInv'
  BY <1>0 DEF MainInv, QuietAfterWait, Quiet, WaitAllVerdict, Parked, TypeOK
<1> QED BY <1>1, <1>2, <1>3, <1>4, <1>5, <1>6, <1>7

LEMMA ComputeThrowsStep ==
  ASSUME IInv, NEW w \in Worker, ComputeThrows(w)
  PROVE  IInv'
<1> USE DEF IInv, poolVars, flagVars, workerVars, mainVars, taskVars, Goto, ComputeThrows
<1>0. Queued' = Queued /\ Held' = Held /\ Live' = Live
  BY DEF Queued, Held, Live
<1>g. currentTask[w] # NoTask /\ currentTask[w] \in Group /\ currentTask[w] \in Held /\ currentTask[w] \in Live
  BY DEF PlaceInv, InMerge, InCompute, Held, TypeOK
<1>b. stopping' /\ stopping' \in BOOLEAN /\ computeThrew' \in [Worker -> BOOLEAN]
  BY DEF TypeOK
<1>1. TypeOK'
  BY <1>g, <1>b DEF TypeOK, WorkerPc, Critical, InMerge, InCompute, Parked, MainPc
<1>2. LockInv'
  BY DEF LockInv, TypeOK, Critical, InMerge
<1>3. BusyCount'
  BY DEF BusyCount, Parked, TypeOK
<1>4. PlaceInv'
  BY <1>0, <1>g DEF PlaceInv, RunOnce, InMerge, InCompute, Parked, TypeOK
<1>5. TaskInv'
  <2>1. \A g \in Group : g \notin submitted' \/ g \in Queued' => Fresh(g)'
    BY <1>0, <1>g DEF TaskInv, PlaceInv, RunOnce, Fresh, Live, TypeOK
  <2>2. currentTask'[w] # NoTask => TaskAt(w, currentTask[w])'
    BY <1>g, <1>b DEF TaskInv, TaskAt, Computing, PlaceInv, FlagInv, LockInv, Critical, InMerge, TypeOK
  <2>3. ASSUME NEW v \in Worker, v # w, currentTask[v] # NoTask
        PROVE  TaskAt(v, currentTask[v])'
    <3>1. currentTask[v] # currentTask[w] /\ currentTask[v] \in Group
      BY <2>3 DEF PlaceInv, RunOnce, TypeOK
    <3>2. TaskAt(v, currentTask[v])
      BY <2>3 DEF TaskInv
    <3> QED BY <1>g, <1>b, <2>3, <3>1, <3>2, OtherTask DEF TypeOK
  <2>4. \A g \in Live' : g \in Queued' \/ g \in Held' \/ Complete(g)' \/ stopping'
    BY <1>0, <1>g, <1>b DEF TaskInv, Complete
  <2> QED BY <2>1, <2>2, <2>3, <2>4 DEF TaskInv
<1>6. FlagInv'
  BY <1>0, <1>g, <1>b DEF FlagInv, MainInv, QuietAfterWait, Quiet, Parked, TypeOK, PlaceInv
<1>7. MainInv'
  BY <1>0 DEF MainInv, QuietAfterWait, Quiet, WaitAllVerdict, Parked, TypeOK
<1> QED BY <1>1, <1>2, <1>3, <1>4, <1>5, <1>6, <1>7

LEMMA ComputeReportStep ==
  ASSUME IInv, NEW w \in Worker, ComputeReport(w)
  PROVE  IInv'
<1> USE DEF IInv, poolVars, flagVars, workerVars, mainVars, taskVars, Goto, ComputeReport
<1>0. Queued' = Queued /\ Held' = Held /\ Live' = Live
  BY DEF Queued, Held, Live
<1>g. currentTask[w] # NoTask /\ currentTask[w] \in Group /\ currentTask[w] \in Held /\ currentTask[w] \in Live
  BY DEF PlaceInv, InMerge, InCompute, Held, TypeOK
<1>b. ~waitAllResult' /\ waitAllResult' \in BOOLEAN
  BY DEF TypeOK
<1>s. stopping
  BY <1>g DEF TaskInv, TaskAt, FlagInv, TypeOK
<1>1. TypeOK'
  BY <1>g, <1>b, <1>s DEF TypeOK, WorkerPc, Critical, InMerge, InCompute, Parked, MainPc
<1>2. LockInv'
  BY DEF LockInv, TypeOK, Critical, InMerge
<1>3. BusyCount'
  BY DEF BusyCount, Parked, TypeOK
<1>4. PlaceInv'
  BY <1>0, <1>g DEF PlaceInv, RunOnce, InMerge, InCompute, Parked, TypeOK
<1>5. TaskInv'
  <2>1. \A g \in Group : g \notin submitted' \/ g \in Queued' => Fresh(g)'
    BY <1>0, <1>g DEF TaskInv, PlaceInv, RunOnce, Fresh, Live, TypeOK
  <2>2. currentTask'[w] # NoTask => TaskAt(w, currentTask[w])'
    BY <1>g, <1>b, <1>s DEF TaskInv, TaskAt, Computed, PlaceInv, FlagInv, LockInv, Critical, InMerge, TypeOK
  <2>3. ASSUME NEW v \in Worker, v # w, currentTask[v] # NoTask
        PROVE  TaskAt(v, currentTask[v])'
    <3>1. currentTask[v] # currentTask[w] /\ currentTask[v] \in Group
      BY <2>3 DEF PlaceInv, RunOnce, TypeOK
    <3>2. TaskAt(v, currentTask[v])
      BY <2>3 DEF TaskInv
    <3> QED BY <1>g, <1>b, <1>s, <2>3, <3>1, <3>2, OtherTask DEF TypeOK
  <2>4. \A g \in Live' : g \in Queued' \/ g \in Held' \/ Complete(g)' \/ stopping'
    BY <1>0, <1>g, <1>b, <1>s DEF TaskInv, Complete
  <2> QED BY <2>1, <2>2, <2>3, <2>4 DEF TaskInv
<1>6. FlagInv'
  BY <1>0, <1>g, <1>b, <1>s DEF FlagInv, MainInv, QuietAfterWait, Quiet, Parked, TypeOK, PlaceInv
<1>7. MainInv'
  BY <1>0 DEF MainInv, QuietAfterWait, Quiet, WaitAllVerdict, Parked, TypeOK
<1> QED BY <1>1, <1>2, <1>3, <1>4, <1>5, <1>6, <1>7

-----------------------------------------------------------------------------
(* Taking a task or parking, from either place that does it.               *)

LEMMA TakeTaskStep ==
  ASSUME IInv, NEW w \in Worker, NEW busy, TakeTask(w, busy),
         pc[w] \in {"finish", "sleep"},
         \A v \in Worker \ {w} : pc[v] \notin Critical,
         busy = Cardinality({v \in Worker \ {w} : pc[v] \notin Parked}),
         m' = Free, UNCHANGED <<flagVars, computeThrew, mainVars, taskVars>>
  PROVE  IInv'
<1> DEFINE g == Head(queue)
<1> USE DEF IInv, flagVars, mainVars, taskVars, TakeTask, Goto
<1>q. /\ g \in Group /\ Tail(queue) \in Seq(Group) /\ g \in Queued
      /\ Queued' = Queued \ {g} /\ IsInjective(queue') /\ g # NoTask
  BY TakeHead, GroupAssumption DEF TypeOK, PlaceInv, RunOnce, Queued
<1>t. /\ currentTask' = [currentTask EXCEPT ![w] = g] /\ index' = [index EXCEPT ![w] = 1]
      /\ pc' = [pc EXCEPT ![w] = "compute"] /\ queue' = Tail(queue)
      /\ UNCHANGED <<state, cvWorker, cvMain>> /\ numBusyThreads' = busy + 1
  OBVIOUS
<1> HIDE DEF g, TakeTask
<1>h. Held' = (Held \ {currentTask[w]}) \cup {g}
  BY <1>q, <1>t DEF Held, PlaceInv, RunOnce, TypeOK
<1>l. Live' = Live
  BY DEF Live
<1>n. busy \in Nat
  BY CountWorkers
<1>1. TypeOK'
  BY <1>q, <1>t, <1>n, SMTT(30) DEF TypeOK, WorkerPc, InCompute
<1>2. LockInv'
  BY <1>t, WorkerAssumption DEF LockInv, TypeOK, Critical, InMerge
<1>3. BusyCount'
  <2> DEFINE S == {v \in Worker \ {w} : pc[v] \notin Parked}
  <2>1. {v \in Worker : pc'[v] \notin Parked} = S \cup {w}
    BY <1>t DEF Parked, TypeOK
  <2>2. Cardinality(S \cup {w}) = Cardinality(S) + 1
    BY CountWorkers
  <2> QED BY <1>t, <2>1, <2>2 DEF BusyCount
<1>4. PlaceInv'
  <2>1. RunOnce'
    BY <1>q, <1>t, <1>h DEF PlaceInv, RunOnce, TypeOK, Held, Queued
  <2>2. Queued' \subseteq Live' /\ Held' \subseteq Live'
    BY <1>q, <1>h, <1>l DEF PlaceInv
  <2> QED BY <1>q, <1>t, <2>1, <2>2 DEF PlaceInv, InMerge, InCompute, Parked, TypeOK
<1>5. TaskInv'
  <2>1. \A h \in Group : h \notin submitted' \/ h \in Queued' => Fresh(h)'
    BY <1>q DEF TaskInv, Fresh
  <2>2. TaskAt(w, currentTask[w])'
    <3>1. Fresh(g) /\ ~computeThrew[w] /\ Size[g] \in Nat
      BY <1>q, GroupAssumption DEF TaskInv, PlaceInv
    <3> QED BY <1>q, <1>t, <3>1 DEF TaskAt, Computing, Fresh, TypeOK
  <2>3. ASSUME NEW v \in Worker, v # w, currentTask[v] # NoTask
        PROVE  TaskAt(v, currentTask[v])'
    BY <1>t, <2>3, OtherTask DEF TaskInv, TypeOK
  <2>4. \A h \in Live' : h \in Queued' \/ h \in Held' \/ Complete(h)' \/ stopping'
    <3>1. currentTask[w] # NoTask => Complete(currentTask[w]) \/ stopping
      BY DEF TaskInv, TaskAt, PlaceInv, Parked
    <3> QED BY <1>q, <1>h, <1>l, <3>1 DEF TaskInv, Complete, Held
  <2> QED BY <1>t, <2>1, <2>2, <2>3, <2>4 DEF TaskInv, TypeOK
<1>6. FlagInv'
  BY <1>l, <1>t DEF FlagInv, TypeOK
<1>7. MainInv'
  BY <1>l, <1>t DEF MainInv, QuietAfterWait, Quiet, WaitAllVerdict, TakeTask
<1> QED BY <1>1, <1>2, <1>3, <1>4, <1>5, <1>6, <1>7

LEMMA ParkOrExitStep ==
  ASSUME IInv, NEW w \in Worker, NEW busy, ParkOrExit(w, busy),
         pc[w] \in {"finish", "sleep"},
         \A v \in Worker \ {w} : pc[v] \notin Critical,
         busy = Cardinality({v \in Worker \ {w} : pc[v] \notin Parked}),
         m' = Free, UNCHANGED <<flagVars, computeThrew, mainVars, taskVars>>
  PROVE  IInv'
<1> USE DEF IInv, flagVars, mainVars, taskVars, ParkOrExit, Goto
<1>q. Queued' = Queued /\ Queued = {}
  BY EmptySeq DEF Queued, Range
<1>t. /\ currentTask' = [currentTask EXCEPT ![w] = NoTask] /\ pc' = [pc EXCEPT ![w] = pc'[w]]
      /\ pc'[w] \in Parked /\ UNCHANGED <<state, queue, index>> /\ queue = << >>
      /\ cvMain' \in BOOLEAN /\ cvWorker' \subseteq Worker /\ numBusyThreads' = busy
  BY DEF TypeOK, Parked
<1> HIDE DEF ParkOrExit
<1>h. Held' = Held \ {currentTask[w]}
  BY <1>t DEF Held, PlaceInv, RunOnce, TypeOK
<1>l. Live' = Live
  BY DEF Live
<1>n. busy \in Nat
  BY CountWorkers
<1>1. TypeOK'
  BY <1>t, <1>n DEF TypeOK, WorkerPc
<1>2. LockInv'
  BY <1>t, WorkerAssumption DEF LockInv, TypeOK, Critical, InMerge, Parked
<1>3. BusyCount'
  <2>1. {v \in Worker : pc'[v] \notin Parked} = {v \in Worker \ {w} : pc[v] \notin Parked}
    BY <1>t DEF TypeOK
  <2> QED BY <1>t, <2>1 DEF BusyCount
<1>4. PlaceInv'
  <2>1. RunOnce'
    BY <1>q, <1>t, <1>h DEF PlaceInv, RunOnce, TypeOK
  <2>2. Queued' \subseteq Live' /\ Held' \subseteq Live'
    BY <1>q, <1>h, <1>l DEF PlaceInv
  <2> QED BY <1>t, <2>1, <2>2 DEF PlaceInv, InMerge, InCompute, Parked, TypeOK
<1>5. TaskInv'
  <2>1. \A h \in Group : h \notin submitted' \/ h \in Queued' => Fresh(h)'
    BY <1>q DEF TaskInv, Fresh
  <2>2. currentTask'[w] = NoTask
    BY <1>t DEF TypeOK
  <2>3. ASSUME NEW v \in Worker, v # w, currentTask[v] # NoTask
        PROVE  TaskAt(v, currentTask[v])'
    BY <1>t, <2>3, OtherTask DEF TaskInv, TypeOK
  <2>4. \A h \in Live' : h \in Queued' \/ h \in Held' \/ Complete(h)' \/ stopping'
    <3>1. currentTask[w] # NoTask => Complete(currentTask[w]) \/ stopping
      BY DEF TaskInv, TaskAt, PlaceInv, Parked
    <3> QED BY <1>q, <1>h, <1>l, <3>1 DEF TaskInv, Complete, Held
  <2> QED BY <1>t, <2>1, <2>2, <2>3, <2>4 DEF TaskInv, TypeOK
<1>6. FlagInv'
  BY <1>l, <1>t DEF FlagInv, TypeOK
<1>7. MainInv'
  BY <1>l, <1>t DEF MainInv, QuietAfterWait, Quiet, WaitAllVerdict, TypeOK
<1> QED BY <1>1, <1>2, <1>3, <1>4, <1>5, <1>6, <1>7

LEMMA FinishStep ==
  ASSUME IInv, NEW w \in Worker, Finish(w)
  PROVE  IInv'
<1>1. \A v \in Worker \ {w} : pc[v] \notin Critical
  BY DEF IInv, LockInv, Finish, Critical
<1>2. numBusyThreads - 1 = Cardinality({v \in Worker \ {w} : pc[v] \notin Parked})
  <2> DEFINE S == {v \in Worker : pc[v] \notin Parked}
  <2>1. {v \in Worker \ {w} : pc[v] \notin Parked} = S \ {w} /\ w \in S
    BY DEF Finish, Parked
  <2> QED BY <2>1, CountWorkers DEF IInv, BusyCount
<1> QED BY <1>1, <1>2, TakeTaskStep, ParkOrExitStep DEF Finish, NextTask

LEMMA WakeStep ==
  ASSUME IInv, NEW w \in Worker, Wake(w)
  PROVE  IInv'
<1>1. \A v \in Worker \ {w} : pc[v] \notin Critical
  BY WorkerAssumption DEF IInv, LockInv, Wake
<1>2. numBusyThreads = Cardinality({v \in Worker \ {w} : pc[v] \notin Parked})
  <2>1. {v \in Worker \ {w} : pc[v] \notin Parked} = {v \in Worker : pc[v] \notin Parked}
    BY DEF Wake, Parked
  <2> QED BY <2>1 DEF IInv, BusyCount
<1> QED BY <1>1, <1>2, TakeTaskStep, ParkOrExitStep DEF Wake, NextTask

-----------------------------------------------------------------------------
(* The main thread.                                                        *)

\* Steps of main that touch neither the workers nor the tasks.
LEMMA WorkersUntouched ==
  ASSUME IInv, TypeOK', UNCHANGED <<queue, numBusyThreads, m, workerVars, taskVars, stopping>>,
         submitted' = submitted, Live' = Live
  PROVE  LockInv' /\ BusyCount' /\ PlaceInv' /\ TaskInv'
<1> USE DEF IInv, workerVars, taskVars
<1>0. Queued' = Queued /\ Held' = Held
  BY DEF Queued, Held
<1>1. LockInv' /\ BusyCount'
  BY DEF LockInv, BusyCount
<1>2. PlaceInv'
  BY <1>0 DEF PlaceInv, RunOnce
<1>3. TaskInv'
  BY <1>0 DEF TaskInv, TaskAt, Fresh, Complete, Computing, Computed, Merging
<1> QED BY <1>1, <1>2, <1>3

\* numBusyThreads = 0 and an empty queue do mean that nothing runs.
LEMMA DrainedIsQuiet ==
  ASSUME IInv, queue = << >>, numBusyThreads = 0
  PROVE  Quiet
<1>1. {w \in Worker : pc[w] \notin Parked} = {}
  BY CountWorkers DEF IInv, BusyCount
<1> QED BY <1>1 DEF Quiet

LEMMA AddTasksStep ==
  ASSUME IInv, NEW b \in Batch, AddTasks(b)
  PROVE  IInv'
<1> USE DEF IInv, AddTasks, flagVars, workerVars, taskVars
<1>b. b \in Seq(Group) /\ IsInjective(b) /\ Range(b) \subseteq Group
  BY BatchAssumption DEF Range
<1>l. Live \subseteq submitted /\ Live' = Live \cup Range(b)
  BY DEF Live, TypeOK
<1>q. queue' \in Seq(Group) /\ Queued' = Queued \cup Range(b) /\ IsInjective(queue')
  BY <1>b, <1>l, AppendBatch DEF Queued, TypeOK, PlaceInv, RunOnce
<1>h. Held' = Held
  BY DEF Held
<1>f. \A g \in Range(b) : Fresh(g)
  BY <1>b DEF TaskInv
<1>n. notifyOne' \in BOOLEAN
  OBVIOUS
<1>1. TypeOK'
  BY <1>b, <1>l, <1>q, <1>n DEF TypeOK, MainPc, Live
<1>2. LockInv' /\ BusyCount'
  BY DEF LockInv, BusyCount
<1>4. PlaceInv'
  BY <1>l, <1>q, <1>h DEF PlaceInv, RunOnce
<1>5. TaskInv'
  <2>1. \A g \in Group : Fresh(g)' = Fresh(g) /\ Complete(g)' = Complete(g)
    BY DEF Fresh, Complete
  <2>2. \A w \in Worker : currentTask[w] # NoTask => TaskAt(w, currentTask[w])'
    BY DEF TaskInv, TaskAt, Complete, Computing, Computed, Merging
  <2> QED BY <1>b, <1>f, <1>l, <1>q, <1>h, <2>1, <2>2 DEF TaskInv, TypeOK
<1>6. FlagInv'
  BY <1>f, <1>l DEF FlagInv, Fresh
<1>7. MainInv'
  BY DEF MainInv, QuietAfterWait, WaitAllVerdict
<1> QED BY <1>1, <1>2, <1>4, <1>5, <1>6, <1>7

LEMMA SpuriousWakeStep ==
  ASSUME IInv, NEW w \in Worker, SpuriousWake(w)
  PROVE  IInv'
<1> USE DEF IInv, SpuriousWake, flagVars, workerVars, mainVars, taskVars
<1>l. Live' = Live
  BY DEF Live
<1>1. TypeOK'
  BY DEF TypeOK
<1>2. LockInv' /\ BusyCount' /\ PlaceInv' /\ TaskInv'
  BY <1>1, <1>l, WorkersUntouched
<1>6. FlagInv'
  BY <1>l DEF FlagInv
<1>7. MainInv'
  BY DEF MainInv, QuietAfterWait, Quiet, WaitAllVerdict
<1> QED BY <1>1, <1>2, <1>6, <1>7

LEMMA NotifyStep ==
  ASSUME IInv, Notify
  PROVE  IInv'
<1> USE DEF IInv, Notify, flagVars, workerVars, taskVars
<1>l. Live' = Live
  BY DEF Live
<1>1. TypeOK'
  BY DEF TypeOK, MainPc
<1>2. LockInv' /\ BusyCount' /\ PlaceInv' /\ TaskInv'
  BY <1>1, <1>l, WorkersUntouched
<1>6. FlagInv'
  BY <1>l DEF FlagInv
<1>7. MainInv'
  BY DEF MainInv, QuietAfterWait, Quiet, WaitAllVerdict
<1> QED BY <1>1, <1>2, <1>6, <1>7

LEMMA CheckDrainedStep ==
  ASSUME IInv, NEW s \in {"WAITING", "DESTRUCTING"}, CheckDrained(s),
         mainPc \in {"idle", "wait"}, cvWorker' \subseteq Worker,
         batch' \subseteq submitted, Live' = Live, outcome' = "none"
  PROVE  IInv'
<1> USE DEF IInv, CheckDrained, flagVars, workerVars, taskVars
<1>1. TypeOK'
  BY DEF TypeOK, MainPc
<1>2. LockInv' /\ BusyCount' /\ PlaceInv' /\ TaskInv'
  BY <1>1, WorkersUntouched
<1>6. FlagInv'
  BY DEF FlagInv
<1>7. MainInv'
  <2>1. mainPc' # "wait" => Quiet'
    BY DrainedIsQuiet DEF Quiet
  <2> QED BY <2>1 DEF MainInv, QuietAfterWait, WaitAllVerdict
<1> QED BY <1>1, <1>2, <1>6, <1>7

LEMMA WaitAllStep ==
  ASSUME IInv, NEW s \in {"WAITING", "DESTRUCTING"}, WaitAll(s)
  PROVE  IInv'
<1>1. Live' = Live /\ batch' \subseteq submitted /\ cvWorker' \subseteq Worker
  BY DEF IInv, TypeOK, WaitAll, Live
<1> QED BY <1>1, CheckDrainedStep DEF WaitAll

LEMMA WakeMainStep ==
  ASSUME IInv, WakeMain
  PROVE  IInv'
<1>1. Live' = Live /\ batch' \subseteq submitted /\ cvWorker' \subseteq Worker
  BY DEF IInv, TypeOK, WakeMain, Live
<1>2. state \in {"WAITING", "DESTRUCTING"} /\ outcome' = "none"
  BY DEF IInv, TypeOK, MainInv, WakeMain
<1> QED BY <1>1, <1>2, CheckDrainedStep DEF WakeMain

LEMMA SpuriousMainStep ==
  ASSUME IInv, SpuriousMain
  PROVE  IInv'
<1> USE DEF IInv, SpuriousMain, flagVars, workerVars, mainVars, taskVars
<1>l. Live' = Live
  BY DEF Live
<1>1. TypeOK'
  BY DEF TypeOK
<1>2. LockInv' /\ BusyCount' /\ PlaceInv' /\ TaskInv'
  BY <1>1, <1>l, WorkersUntouched
<1>6. FlagInv'
  BY <1>l DEF FlagInv
<1>7. MainInv'
  BY DEF MainInv, QuietAfterWait, Quiet, WaitAllVerdict
<1> QED BY <1>1, <1>2, <1>6, <1>7

LEMMA CollectStep ==
  ASSUME IInv, Collect
  PROVE  IInv'
<1> USE DEF IInv, Collect, poolVars, flagVars, workerVars, taskVars
<1>l. Live' = Live
  BY DEF Live
<1>1. TypeOK'
  BY DEF TypeOK, MainPc
<1>2. LockInv' /\ BusyCount' /\ PlaceInv' /\ TaskInv'
  BY <1>1, <1>l, WorkersUntouched
<1>6. FlagInv'
  BY <1>l DEF FlagInv, MainInv, QuietAfterWait, Quiet, Parked, TypeOK
<1>7. MainInv'
  BY DEF MainInv, QuietAfterWait, Quiet, WaitAllVerdict
<1> QED BY <1>1, <1>2, <1>6, <1>7

LEMMA RearmStep ==
  ASSUME IInv, Rearm
  PROVE  IInv'
<1> USE DEF IInv, Rearm, poolVars, workerVars, taskVars
<1>l. Live' = Live
  BY DEF Live
<1>t. waitAllResult' /\ waitAllResult' \in BOOLEAN
  OBVIOUS
<1>1. TypeOK'
  BY <1>t DEF TypeOK, MainPc
<1>2. LockInv' /\ BusyCount' /\ PlaceInv' /\ TaskInv'
  BY <1>1, <1>l, WorkersUntouched
<1>6. FlagInv'
  BY <1>l, <1>t DEF FlagInv
<1>7. MainInv'
  BY DEF MainInv, QuietAfterWait, Quiet, WaitAllVerdict
<1> QED BY <1>1, <1>2, <1>6, <1>7

LEMMA ReturnWaitAllStep ==
  ASSUME IInv, ReturnWaitAll
  PROVE  IInv'
<1> USE DEF IInv, ReturnWaitAll, poolVars, workerVars, taskVars
<1>l. Live' = {} /\ Live = batch
  BY DEF Live, MainInv
<1>t. ~stopping' /\ stopping' \in BOOLEAN
  OBVIOUS
<1>q. Quiet /\ Quiet' /\ Queued' = {} /\ Held' = {}
  <2>1. Quiet /\ Quiet'
    BY DEF MainInv, QuietAfterWait, Quiet
  <2>2. Queued' = {}
    BY <2>1, EmptySeq DEF Quiet, Queued, Range
  <2>3. Held' = {}
    BY <2>1 DEF Quiet, Held, PlaceInv
  <2> QED BY <2>1, <2>2, <2>3
<1>1. TypeOK'
  BY <1>t DEF TypeOK, MainPc
<1>2. LockInv' /\ BusyCount'
  BY DEF LockInv, BusyCount
<1>4. PlaceInv'
  BY <1>l, <1>q DEF PlaceInv, RunOnce
<1>5. TaskInv'
  BY <1>l, <1>q DEF TaskInv, Fresh, Quiet, PlaceInv
<1>6. FlagInv'
  BY <1>l, <1>t DEF FlagInv
<1>7. MainInv'
  <2>1. outcome' = "ok" => \A g \in batch : Complete(g)
    BY <1>l, <1>q DEF FlagInv, TaskInv, Queued, Held
  <2>2. outcome' = "abort" => \E g \in batch : failed[g] # "no"
    BY <1>l DEF FlagInv, TypeOK
  <2> QED BY <1>q, <2>1, <2>2 DEF MainInv, QuietAfterWait, WaitAllVerdict, Complete
<1> QED BY <1>1, <1>2, <1>4, <1>5, <1>6, <1>7

LEMMA JoinStep ==
  ASSUME IInv, Join
  PROVE  IInv'
<1> USE DEF IInv, Join, poolVars, flagVars, workerVars, taskVars
<1>l. Live' = Live
  BY DEF Live
<1>1. TypeOK'
  BY DEF TypeOK, MainPc
<1>2. LockInv' /\ BusyCount' /\ PlaceInv' /\ TaskInv'
  BY <1>1, <1>l, WorkersUntouched
<1>6. FlagInv'
  BY <1>l DEF FlagInv
<1>7. MainInv'
  BY DEF MainInv, QuietAfterWait, Quiet, WaitAllVerdict
<1> QED BY <1>1, <1>2, <1>6, <1>7

-----------------------------------------------------------------------------
(* The invariant, and what follows from it.                                *)

LEMMA IInvInit == Init => IInv
<1> SUFFICES ASSUME Init PROVE IInv
  OBVIOUS
<1> USE DEF Init
<1>0. Queued = {} /\ Held = {} /\ Live = {}
  BY EmptySeq DEF Queued, Held, Live, Range
<1>1. TypeOK
  BY WorkerAssumption, EmptySeq, FS_CardinalityType DEF TypeOK, WorkerPc, MainPc
<1>2. LockInv
  BY WorkerAssumption DEF LockInv, Critical, InMerge
<1>3. BusyCount
  <2>1. {w \in Worker : pc[w] \notin Parked} = Worker
    BY DEF Parked
  <2> QED BY <2>1 DEF BusyCount
<1>4. PlaceInv
  BY <1>0, EmptySeq DEF PlaceInv, RunOnce, InMerge, InCompute, Parked, IsInjective
<1>5. TaskInv
  BY <1>0 DEF TaskInv, Fresh
<1>6. FlagInv
  BY <1>0 DEF FlagInv
<1>7. MainInv
  BY DEF MainInv, QuietAfterWait, WaitAllVerdict
<1> QED BY <1>1, <1>2, <1>3, <1>4, <1>5, <1>6, <1>7 DEF IInv

LEMMA IInvStep == IInv /\ [Next]_vars => IInv'
<1> SUFFICES ASSUME IInv, [Next]_vars PROVE IInv'
  OBVIOUS
<1>1. ASSUME NEW w \in Worker, WorkerStep(w) PROVE IInv'
  BY <1>1, AcquireStep, MergeNextStep, MergeOkStep, MergeThrowsStep, MergeReportStep,
     FinishStep, WakeStep, ComputeNextStep, ComputeOkStep, ComputeThrowsStep,
     ComputeReportStep DEF WorkerStep
<1>2. ASSUME NEW w \in Worker, SpuriousWake(w) PROVE IInv'
  BY <1>2, SpuriousWakeStep
<1>3. CASE MainStep
  BY <1>3, NotifyStep, WakeMainStep, CollectStep, RearmStep, ReturnWaitAllStep, JoinStep
     DEF MainStep
<1>4. CASE SpuriousMain
  BY <1>4, SpuriousMainStep
<1>5. ASSUME NEW b \in Batch, AddTasks(b) PROVE IInv'
  BY <1>5, AddTasksStep
<1>6. ASSUME NEW s \in {"WAITING", "DESTRUCTING"}, WaitAll(s) PROVE IInv'
  BY <1>6, WaitAllStep
<1>7. ASSUME UNCHANGED vars PROVE IInv'
  <2> USE <1>7 DEF vars, poolVars, flagVars, workerVars, mainVars, taskVars
  <2>1. Live' = Live /\ TypeOK'
    BY DEF Live, IInv, TypeOK
  <2>2. LockInv' /\ BusyCount' /\ PlaceInv' /\ TaskInv'
    BY <2>1, WorkersUntouched
  <2>3. FlagInv'
    BY <2>1 DEF IInv, FlagInv
  <2>4. MainInv'
    BY DEF IInv, MainInv, QuietAfterWait, Quiet, WaitAllVerdict
  <2> QED BY <2>1, <2>2, <2>3, <2>4 DEF IInv
<1> QED BY <1>1, <1>2, <1>3, <1>4, <1>5, <1>6, <1>7 DEF Next, Terminated

\* IInv holds in every state of every execution of the pool, for any number
\* of workers, groups, tasks and batches.
THEOREM Invariance == Spec => []IInv
BY IInvInit, IInvStep, PTL DEF Spec

\* Every variable keeps its type: in particular numBusyThreads never goes
\* below zero.
THEOREM TypeCorrect == Spec => []TypeOK
<1>1. IInv => TypeOK
  BY DEF IInv
<1> QED BY <1>1, Invariance, PTL

\* merge() is called only for tasks whose whole group was computed, in order
\* (ThreadPool.h: "First all compute() are called, then all merge()"), even
\* when a compute loop broke off because some other group failed.
THEOREM MergeAfterCompute == Spec => []MergeOnlyComputed
<1>1. IInv => MergeOnlyComputed
  BY DEF IInv, MergeOnlyComputed, PlaceInv, TaskInv, TaskAt, Merging, InMerge
<1> QED BY <1>1, Invariance, PTL

\* waitAll() returns normally only when every task of the batch is merged, and
\* throws Abort only when a task of this batch threw.
THEOREM VerdictIsRight == Spec => []WaitAllVerdict
<1>1. IInv => WaitAllVerdict
  BY DEF IInv, MainInv
<1> QED BY <1>1, Invariance, PTL

\* numBusyThreads is the number of workers that run, and when main goes on
\* after waitAll() none of them does.
THEOREM NothingRunsAfterWaitAll == Spec => [](BusyCount /\ QuietAfterWait)
<1>1. IInv => BusyCount /\ QuietAfterWait
  BY DEF IInv, MainInv
<1> QED BY <1>1, Invariance, PTL

\* The flags never leak into the next batch.
THEOREM FlagsAreRearmed == Spec => []FlagsRearmed
<1>1. IInv => FlagsRearmed
  <2> SUFFICES ASSUME IInv, outcome # "none" PROVE ~stopping /\ waitAllResult
    BY DEF FlagsRearmed
  <2>1. Live = {}
    BY DEF Live
  <2> QED BY <2>1 DEF IInv, FlagInv
<1> QED BY <1>1, Invariance, PTL

\* No group is executed twice or by two workers.
THEOREM GroupsRunOnce == Spec => []RunOnce
<1>1. IInv => RunOnce
  BY DEF IInv, PlaceInv
<1> QED BY <1>1, Invariance, PTL


-----------------------------------------------------------------------------
(* Wakeups.                                                                *)

LEMMA WakeInvStep == IInv /\ IInv' /\ WakeInv /\ [Next]_vars => WakeInv'
<1> SUFFICES ASSUME IInv, IInv', WakeInv, [Next]_vars PROVE WakeInv'
  OBVIOUS
<1> USE DEF WakeInv, WorkConserving, MainNotForgotten, NoSleeperAtJoin,
            poolVars, flagVars, workerVars, mainVars, taskVars, Goto
<1>l. queue \in Seq(Group) /\ Len(queue) \in Nat
  BY DEF IInv, TypeOK
<1>t. TypeOK /\ TypeOK'
  BY DEF IInv
<1>1. ASSUME NEW w \in Worker, NEW busy, TakeTask(w, busy), pc[w] \in {"finish", "sleep"},
             busy \in Nat, w \notin cvWorker, UNCHANGED <<mainPc, notifyOne>>
      PROVE  WakeInv'
  <2>1. /\ Len(queue') = Len(queue) - 1 /\ cvWorker' = cvWorker /\ state' = state
        /\ cvMain' = cvMain /\ numBusyThreads' = busy + 1
        /\ \A v \in Worker : v # w => pc'[v] = pc[v]
    BY <1>1, <1>l, <1>t, HeadTailProperties DEF TakeTask, TypeOK
  <2>2. queue' # << >> => Len(queue) # 1 /\ queue # << >>
    <3>1. queue' \in Seq(Group)
      BY <1>t DEF TypeOK
    <3>2. queue' # << >> => Len(queue') \in Nat \ {0}
      BY <3>1, EmptySeq
    <3> QED BY <1>1, <1>l, <2>1, <3>2 DEF TakeTask
  <2>3. (\A v \in cvWorker' : pc'[v] = "sleep") /\ NoSleeperAtJoin'
    BY <1>1, <1>t, <2>1 DEF TypeOK
  <2>4. (cvMain' => mainPc' = "wait") /\ MainNotForgotten'
    BY <1>1, <2>1
  <2>5. mainPc' = "notify" /\ notifyOne' => Len(queue') <= 1
    BY <1>1, <1>l, <2>1
  <2>6. WorkConserving'
    BY <1>1, <2>1, <2>2
  <2> QED BY <2>3, <2>4, <2>5, <2>6
<1>2. ASSUME NEW w \in Worker, NEW busy, ParkOrExit(w, busy), pc[w] \in {"finish", "sleep"},
             busy \in Nat, w \notin cvWorker, UNCHANGED <<mainPc, notifyOne>>
      PROVE  WakeInv'
  <2>1. cvMain' => state = "ACTIVE" \/ busy > 0
    <3>1. cvMain' => ~(state # "ACTIVE" /\ busy = 0)
      BY <1>2 DEF ParkOrExit
    <3> QED BY <1>2, <3>1
  <2>2. cvMain' => state # "ACTIVE"
    BY <1>2 DEF ParkOrExit, IInv, MainInv
  <2>3. Len(queue') = 0
    BY <1>2, EmptySeq DEF ParkOrExit
  <2> QED BY <1>2, <1>t, <2>1, <2>2, <2>3 DEF ParkOrExit, TypeOK
<1>3. ASSUME NEW w \in Worker, WorkerStep(w)
      PROVE  WakeInv'
  <2>1. CASE Finish(w) \/ Wake(w)
    <3>1. w \notin cvWorker /\ pc[w] \in {"finish", "sleep"}
      BY <2>1 DEF Finish, Wake
    <3>2. numBusyThreads \in Nat /\ (Finish(w) => numBusyThreads - 1 \in Nat)
      <4>1. Finish(w) => numBusyThreads # 0
        <5> DEFINE S == {v \in Worker : pc[v] \notin Parked}
        <5>1. Finish(w) => w \in S
          BY DEF Finish, Parked
        <5>2. numBusyThreads = Cardinality(S)
          BY DEF IInv, BusyCount
        <5> HIDE DEF S
        <5>3. S \in SUBSET Worker
          BY DEF S
        <5> QED BY <5>1, <5>2, <5>3, CountWorkers
      <4> QED BY <1>t, <4>1 DEF TypeOK
    <3> QED BY <1>1, <1>2, <2>1, <3>1, <3>2 DEF Finish, Wake, NextTask
  <2>2. CASE ~(Finish(w) \/ Wake(w))
    <3>1. UNCHANGED <<poolVars, mainVars>> /\ pc[w] # "sleep"
      BY <1>3, <2>2 DEF WorkerStep, Acquire, MergeNext, MergeOk, MergeThrows, MergeReport,
         ComputeNext, ComputeOk, ComputeThrows, ComputeReport
    <3>2. \A v \in Worker : v # w => pc'[v] = pc[v]
      BY <1>3, <2>2, <1>t DEF WorkerStep, Acquire, MergeNext, MergeOk, MergeThrows, MergeReport,
         ComputeNext, ComputeOk, ComputeThrows, ComputeReport, TypeOK
    <3> QED BY <1>t, <3>1, <3>2 DEF TypeOK
  <2> QED BY <2>1, <2>2
<1>4. ASSUME NEW w \in Worker, SpuriousWake(w) PROVE WakeInv'
  BY <1>4 DEF SpuriousWake
<1>5. CASE MainStep
  <2>1. CASE Notify
    <3>1. queue # << >> => Len(queue) \in Nat \ {0}
      BY <1>l, EmptySeq
    <3>2. cvWorker' \subseteq cvWorker /\ UNCHANGED <<state, queue, numBusyThreads, cvMain, pc>>
      BY <2>1 DEF Notify
    <3>3. ~cvMain
      BY <2>1 DEF Notify
    <3>4. WorkConserving'
      <4>1. CASE notifyOne /\ \E w \in cvWorker : cvWorker' = cvWorker \ {w}
        <5>1. PICK w \in cvWorker : cvWorker' = cvWorker \ {w}
          BY <4>1
        <5>2. w \in Worker \ cvWorker' /\ pc'[w] = "sleep"
          BY <1>t, <3>2, <5>1 DEF TypeOK
        <5>3. queue' # << >> => Len(queue') = 1
          <6>1. Len(queue) <= 1
            BY <2>1, <4>1 DEF Notify
          <6>2. queue' = queue
            BY <3>2
          <6>3. ASSUME queue # << >> PROVE Len(queue) = 1
            <7>1. Len(queue) \in Nat \ {0}
              BY <3>1, <6>3
            <7> QED BY <6>1, <6>3, <7>1
          <6> QED BY <6>2, <6>3
        <5> QED BY <5>2, <5>3
      <4>2. CASE cvWorker' = {}
        BY <4>2
      <4> QED BY <2>1, <4>1, <4>2 DEF Notify
    <3> QED BY <2>1, <3>2, <3>3, <3>4 DEF Notify
  <2>2. CASE WakeMain
    BY <2>2, <1>t DEF WakeMain, CheckDrained, TypeOK
  <2>3. CASE Collect \/ Rearm \/ ReturnWaitAll \/ Join
    BY <2>3, <1>t DEF Collect, Rearm, ReturnWaitAll, Join, TypeOK
  <2> QED BY <1>5, <2>1, <2>2, <2>3 DEF MainStep
<1>6. CASE SpuriousMain
  BY <1>6 DEF SpuriousMain
<1>7. ASSUME NEW b \in Batch, AddTasks(b) PROVE WakeInv'
  BY <1>7, <1>t DEF AddTasks, TypeOK
<1>8. ASSUME NEW s \in {"WAITING", "DESTRUCTING"}, WaitAll(s) PROVE WakeInv'
  BY <1>8, <1>t DEF WaitAll, CheckDrained, TypeOK
<1>9. ASSUME UNCHANGED vars PROVE WakeInv'
  BY <1>9 DEF vars
<1> QED BY <1>3, <1>4, <1>5, <1>6, <1>7, <1>8, <1>9 DEF Next, Terminated

\* No wakeup is lost: a worker never sleeps beside work that nobody was woken
\* for, main never waits for a notification that nobody will send, and the
\* destructor never joins a sleeping thread (the RACE of waitAll_impl()).
THEOREM EveryWakeupArrives == Spec => []NoLostWakeup
<1>1. Init => WakeInv
  BY DEF Init, WakeInv, WorkConserving, MainNotForgotten, NoSleeperAtJoin
<1>2. WakeInv => NoLostWakeup
  BY DEF WakeInv, NoLostWakeup
<1> QED BY <1>1, <1>2, Invariance, WakeInvStep, PTL DEF Spec

-----------------------------------------------------------------------------
(* What a failure drops from the queue.                                    *)

\* g was in the queue when a task failed: `stopping` stays set for as long as it
\* is there or at a worker, which then does not come to a task of it.
Dropped(g) ==
  /\ computed[g] = 0 /\ g \in submitted
  /\ g \in Queued \cup Held => stopping
  /\ \A w \in Worker : currentTask[w] = g => pc[w] \in {"compute", "lock", "merge", "finish"}

LEMMA DroppedStep ==
  ASSUME NEW g \in Group, IInv, IInv', Dropped(g), [Next]_vars
  PROVE  Dropped(g)'
<1>t. TypeOK /\ TypeOK' /\ g # NoTask
  BY GroupAssumption DEF IInv
<1> USE DEF poolVars, flagVars, workerVars, mainVars, taskVars, Goto
<1>h. \A w \in Worker : currentTask[w] = g => g \in Held /\ stopping
  BY <1>t DEF Held, Dropped
<1>1. ASSUME UNCHANGED <<queue, currentTask, pc, computed, submitted, stopping>>
      PROVE  Dropped(g)'
  BY <1>1 DEF Dropped, Queued, Held
<1>2. ASSUME NEW w \in Worker,
             UNCHANGED <<queue, currentTask, submitted>>, stopping => stopping',
             computed'[g] = computed[g], \A v \in Worker : v # w => pc'[v] = pc[v],
             currentTask[w] = g => pc'[w] \in {"compute", "lock", "merge", "finish"}
      PROVE  Dropped(g)'
  BY <1>2 DEF Dropped, Queued, Held
<1>3. ASSUME NEW w \in Worker, Acquire(w) PROVE Dropped(g)'
  <2>1. pc' = [pc EXCEPT ![w] = IF computeThrew[w] \/ currentTask[w] = NoTask THEN "finish" ELSE "merge"]
    BY <1>3 DEF Acquire
  <2> QED BY <1>t, <1>2, <1>3, <2>1 DEF Acquire, TypeOK
<1>4. ASSUME NEW w \in Worker, MergeNext(w) PROVE Dropped(g)'
  <2>1. currentTask[w] = g => stopping
    BY <1>h
  <2> QED BY <1>t, <1>2, <1>4, <2>1 DEF MergeNext, TypeOK
<1>5. ASSUME NEW w \in Worker, MergeOk(w) \/ MergeThrows(w) \/ MergeReport(w)
      PROVE  Dropped(g)'
  <2>1. currentTask[w] # g
    BY <1>5 DEF Dropped, MergeOk, MergeThrows, MergeReport
  <2> QED BY <1>t, <1>2, <1>5, <2>1 DEF MergeOk, MergeThrows, MergeReport, TypeOK
<1>6. ASSUME NEW w \in Worker, ComputeNext(w) PROVE Dropped(g)'
  <2>1. currentTask[w] = g => stopping
    BY <1>h
  <2> QED BY <1>t, <1>2, <1>6, <2>1 DEF ComputeNext, TypeOK
<1>7. ASSUME NEW w \in Worker, ComputeOk(w) \/ ComputeThrows(w) \/ ComputeReport(w)
      PROVE  Dropped(g)'
  <2>1. currentTask[w] # g
    BY <1>7 DEF Dropped, ComputeOk, ComputeThrows, ComputeReport
  <2>2. computed'[g] = computed[g]
    BY <1>t, <1>7, <2>1 DEF ComputeOk, ComputeThrows, ComputeReport, TypeOK
  <2> QED BY <1>t, <1>2, <1>7, <2>1, <2>2 DEF ComputeOk, ComputeThrows, ComputeReport, TypeOK
<1>8. ASSUME NEW w \in Worker, NEW busy, NextTask(w, busy), UNCHANGED <<stopping, computed, submitted>>
      PROVE  Dropped(g)'
  <2>1. CASE TakeTask(w, busy)
    <3>1. queue \in Seq(Group) /\ queue # << >> /\ IsInjective(queue)
      BY <1>t, <2>1 DEF TakeTask, TypeOK, IInv, PlaceInv, RunOnce
    <3>2. Head(queue) \in Queued /\ Queued' \subseteq Queued
      BY <2>1, <3>1, TakeHead DEF TakeTask, Queued
    <3>3. \A v \in Worker : currentTask'[v] = (IF v = w THEN Head(queue) ELSE currentTask[v])
                         /\ pc'[v] = (IF v = w THEN "compute" ELSE pc[v])
      BY <1>t, <2>1 DEF TakeTask, TypeOK
    <3>4. g \in Held' => g \in Held \cup Queued
      BY <3>2, <3>3, <1>t DEF Held
    <3> QED BY <1>8, <3>2, <3>3, <3>4 DEF Dropped
  <2>2. CASE ParkOrExit(w, busy)
    <3>1. \A v \in Worker : currentTask'[v] = (IF v = w THEN NoTask ELSE currentTask[v])
                         /\ (v # w => pc'[v] = pc[v])
      BY <1>t, <2>2 DEF ParkOrExit, TypeOK
    <3>2. g \in Held' => g \in Held
      BY <3>1, <1>t DEF Held
    <3>3. Queued' = Queued
      BY <2>2 DEF ParkOrExit, Queued
    <3> QED BY <1>8, <1>t, <3>1, <3>2, <3>3 DEF Dropped
  <2> QED BY <1>8, <2>1, <2>2 DEF NextTask
<1>9. ASSUME NEW w \in Worker, Finish(w) \/ Wake(w) PROVE Dropped(g)'
  BY <1>8, <1>9 DEF Finish, Wake
<1>10. ASSUME NEW w \in Worker, SpuriousWake(w) PROVE Dropped(g)'
  BY <1>1, <1>10 DEF SpuriousWake
\* Only waitAll() clears stopping, and then no worker has a task.
<1>11. CASE ReturnWaitAll
  <2>1. Quiet
    BY <1>11 DEF ReturnWaitAll, IInv, MainInv, QuietAfterWait
  <2>2. Queued = {}
    BY <2>1 DEF Quiet, Queued, Range
  <2>3. \A w \in Worker : currentTask[w] = NoTask
    BY <2>1 DEF Quiet, IInv, PlaceInv
  <2>4. g \notin Queued' \cup Held'
    BY <1>t, <1>11, <2>2, <2>3 DEF ReturnWaitAll, Queued, Held
  <2> QED BY <1>11, <2>4 DEF ReturnWaitAll, Dropped
<1>12. CASE Notify \/ WakeMain \/ Collect \/ Rearm \/ Join \/ SpuriousMain
  BY <1>1, <1>12 DEF Notify, WakeMain, CheckDrained, Collect, Rearm, Join, SpuriousMain
\* A group is added once.
<1>13. ASSUME NEW b \in Batch, AddTasks(b) PROVE Dropped(g)'
  <2>1. b \in Seq(Group) /\ IsInjective(b) /\ queue \in Seq(Group) /\ IsInjective(queue)
    BY <1>t, BatchAssumption DEF TypeOK, IInv, PlaceInv, RunOnce
  <2>2. Range(b) \cap submitted = {} /\ queue' = queue \o b
    BY <1>13 DEF AddTasks
  <2>3. Queued \subseteq submitted
    BY <1>t DEF IInv, PlaceInv, Live, TypeOK
  <2>4. Queued' = Queued \cup Range(b)
    BY <2>1, <2>2, <2>3, AppendBatch DEF Queued
  <2>5. g \in Queued' \cup Held' => g \in Queued \cup Held
    BY <1>13, <2>2, <2>4 DEF AddTasks, Held, Dropped
  <2> QED BY <1>13, <2>5 DEF AddTasks, Dropped
<1>14. ASSUME NEW s \in {"WAITING", "DESTRUCTING"}, WaitAll(s) PROVE Dropped(g)'
  BY <1>1, <1>14 DEF WaitAll, CheckDrained
<1>15. ASSUME UNCHANGED vars PROVE Dropped(g)'
  BY <1>1, <1>15 DEF vars
<1>16. ASSUME NEW w \in Worker, WorkerStep(w) PROVE Dropped(g)'
  BY <1>3, <1>4, <1>5, <1>6, <1>7, <1>9, <1>16 DEF WorkerStep
<1> QED BY <1>10, <1>11, <1>12, <1>13, <1>14, <1>15, <1>16 DEF Next, MainStep, Terminated

\* "If some Task throws, no reason to continue other tasks" (ThreadPool.h:18): a
\* group that is queued when a task fails is never computed, not even after
\* waitAll() has cleared `stopping` for the next batch.
THEOREM FailureDropsTheRest == Spec => FailureDropsQueue
<1> SUFFICES ASSUME NEW g \in Group
             PROVE  Spec => [](stopping /\ g \in Queued => [](computed[g] = 0))
  BY DEF FailureDropsQueue
<1>1. IInv /\ stopping /\ g \in Queued => Dropped(g)
  <2> SUFFICES ASSUME IInv, stopping, g \in Queued PROVE Dropped(g)
    OBVIOUS
  <2>1. computed[g] = 0
    BY DEF IInv, TaskInv, Fresh
  <2>2. g \in submitted
    BY DEF IInv, PlaceInv, Live, TypeOK
  <2>3. \A w \in Worker : currentTask[w] # g
    BY GroupAssumption DEF IInv, PlaceInv, RunOnce, Held
  <2> QED BY <2>1, <2>2, <2>3 DEF Dropped
<1>2. Dropped(g) => computed[g] = 0
  BY DEF Dropped
<1>3. IInv /\ IInv' /\ Dropped(g) /\ [Next]_vars => Dropped(g)'
  BY DroppedStep
<1>4. Spec => []IInv /\ [][Next]_vars
  BY Invariance, PTL DEF Spec
<1>5. []IInv /\ [][Next]_vars => [](stopping /\ g \in Queued => [](computed[g] = 0))
  BY <1>1, <1>2, <1>3, PTL
<1> QED BY <1>4, <1>5, PTL

-----------------------------------------------------------------------------
(* Every step of the pool is a step of TaskBatch, or changes nothing there. *)

\* With no worker at work, the batch is merged, or one of its tasks failed.
LEMMA QuietIsSettled ==
  ASSUME IInv, Quiet
  PROVE  \/ ~stopping /\ Abstract!Settled("ok")
         \/ stopping /\ Abstract!Settled("abort")
<1>1. Queued = {} /\ Held = {}
  <2>1. Queued = {}
    BY EmptySeq DEF Quiet, Queued, Range
  <2>2. Held = {}
    BY DEF Quiet, Held, IInv, PlaceInv
  <2> QED BY <2>1, <2>2
<1>2. CASE stopping
  BY <1>2 DEF IInv, FlagInv, Abstract!Settled
<1>3. CASE ~stopping
  BY <1>1, <1>3 DEF IInv, TaskInv, Complete, Abstract!Settled, Abstract!Complete
<1> QED BY <1>2, <1>3

LEMMA RefinementStep == IInv /\ IInv' /\ [Next]_vars => [Abstract!Next]_(Abstract!vars)
<1> SUFFICES ASSUME IInv, IInv', [Next]_vars PROVE [Abstract!Next]_(Abstract!vars)
  OBVIOUS
<1> USE DEF poolVars, flagVars, workerVars, mainVars, taskVars
<1>m. ASSUME UNCHANGED <<mainVars, taskVars, state>>
      PROVE  UNCHANGED Abstract!vars
  BY <1>m DEF Abstract!vars, Live, Phase
<1>1. ASSUME NEW w \in Worker, WorkerStep(w)
      PROVE  [Abstract!Next]_(Abstract!vars)
  <2> DEFINE g == currentTask[w]
  <2>p. UNCHANGED <<submitted, Live, Phase, outcome>>
    BY <1>1 DEF WorkerStep, Acquire, MergeNext, MergeOk, MergeThrows, MergeReport, Finish, Wake,
       NextTask, TakeTask, ParkOrExit, ComputeNext, ComputeOk, ComputeThrows, ComputeReport, Live, Phase
  <2>g. pc[w] \in {"merging", "computing"} =>
          /\ g \in Group /\ g \in Live /\ failed[g] = "no" /\ TaskAt(w, g)
          /\ computed[g] \in Nat /\ merged[g] \in Nat
    BY DEF IInv, PlaceInv, Held, TaskInv, TaskAt, Merging, Computing, InMerge, InCompute, TypeOK
  <2>1. CASE MergeOk(w)
    BY <2>1, <2>p, <2>g DEF MergeOk, TaskAt, Merging, Abstract!Next, Abstract!Merge
  <2>2. CASE MergeThrows(w)
    BY <2>2, <2>p, <2>g DEF MergeThrows, TaskAt, Merging, Abstract!Next, Abstract!Fail
  <2>3. CASE ComputeOk(w)
    BY <2>3, <2>p, <2>g DEF ComputeOk, TaskAt, Computing, Abstract!Next, Abstract!Compute
  <2>4. CASE ComputeThrows(w)
    BY <2>4, <2>p, <2>g DEF ComputeThrows, TaskAt, Computing, Abstract!Next, Abstract!Fail
  <2>5. CASE \/ Acquire(w) \/ MergeNext(w) \/ MergeReport(w) \/ Finish(w) \/ Wake(w)
             \/ ComputeNext(w) \/ ComputeReport(w)
    BY <2>5, <2>p DEF Acquire, MergeNext, MergeReport, Finish, Wake, ComputeNext, ComputeReport, Abstract!vars
  <2> QED BY <1>1, <2>1, <2>2, <2>3, <2>4, <2>5 DEF WorkerStep
<1>2. ASSUME NEW w \in Worker, SpuriousWake(w) PROVE UNCHANGED Abstract!vars
  BY <1>2, <1>m DEF SpuriousWake
<1>3. CASE MainStep
  <2>1. CASE Notify
    BY <2>1 DEF Notify, Abstract!vars, Live, Phase
  <2>2. CASE WakeMain
    <3>1. state \in {"WAITING", "DESTRUCTING"}
      BY <2>2 DEF WakeMain, IInv, MainInv, TypeOK
    <3> QED BY <2>2, <3>1 DEF WakeMain, CheckDrained, Abstract!vars, Live, Phase
  <2>3. CASE Collect \/ Rearm
    BY <2>3 DEF Collect, Rearm, Abstract!vars, Live, Phase
  <2>4. CASE ReturnWaitAll
    <3>1. Quiet /\ outcome = "none" /\ (result <=> ~stopping)
      BY <2>4 DEF ReturnWaitAll, IInv, MainInv, QuietAfterWait, FlagInv
    <3>2. Abstract!Settled(outcome') /\ outcome' \in {"ok", "abort"}
      BY <2>4, <3>1, QuietIsSettled DEF ReturnWaitAll, IInv, TypeOK
    <3>3. Phase = "waiting" /\ Phase' = "open" /\ Live' = {}
      <4>0. mainPc = "reset" /\ state = "ACTIVE" /\ mainPc' = "idle"
        BY <2>4 DEF ReturnWaitAll, IInv, MainInv
      <4>1. Phase = "waiting" /\ Phase' = "open"
        BY <4>0 DEF Phase
      <4> QED BY <3>2, <4>1 DEF Live
    <3>4. Abstract!Return(outcome')
      BY <2>4, <3>2, <3>3 DEF ReturnWaitAll, Abstract!Return
    <3> QED BY <3>2, <3>4 DEF Abstract!Next
  <2>5. CASE Join
    <3>1. Quiet /\ state = "DESTRUCTING"
      BY <2>5 DEF Join, IInv, MainInv, QuietAfterWait
    <3>2. Abstract!Close
      BY <2>5, <3>1, QuietIsSettled DEF Join, Abstract!Close, Live, Phase
    <3> QED BY <3>2 DEF Abstract!Next
  <2> QED BY <1>3, <2>1, <2>2, <2>3, <2>4, <2>5 DEF MainStep
<1>4. CASE SpuriousMain
  BY <1>4, <1>m DEF SpuriousMain
<1>5. ASSUME NEW b \in Batch, AddTasks(b) PROVE Abstract!Next
  <2>1. Phase = "open" /\ Phase' = "open" /\ Live' = Live \cup Range(b)
    BY <1>5 DEF AddTasks, Live, Phase
  <2>2. Abstract!Submit(b)
    BY <1>5, <2>1 DEF AddTasks, Abstract!Submit, Range, Abstract!Range
  <2> QED BY <2>2 DEF Abstract!Next
<1>6. ASSUME NEW s \in {"WAITING", "DESTRUCTING"}, WaitAll(s) PROVE Abstract!Next
  <2>1. \E p \in {"waiting", "closing"} : Abstract!BeginWait(p)
    BY <1>6 DEF WaitAll, CheckDrained, Abstract!BeginWait, Live, Phase
  <2> QED BY <2>1 DEF Abstract!Next
<1>7. CASE UNCHANGED vars
  BY <1>7, <1>m DEF vars
<1> QED BY <1>1, <1>2, <1>3, <1>4, <1>5, <1>6, <1>7 DEF Next, Terminated

\* The thread pool implements its abstract specification: whatever a user of
\* the pool can conclude from TaskBatch holds for the code's threads, queue
\* and wakeups.
THEOREM Refinement == Spec => ImplementsTaskBatch
<1>1. Init => Abstract!Init
  BY DEF Init, Abstract!Init, Live, Phase
<1> QED BY <1>1, Invariance, RefinementStep, PTL DEF Spec, ImplementsTaskBatch, Abstract!Spec
=============================================================================
