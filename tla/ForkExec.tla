------------------------------- MODULE ForkExec -------------------------------
(***************************************************************************)
(* util::forkExecStdCapture() with StdCapture: a program is run, what it   *)
(* writes to stdout and stderr is read from non-blocking pipes, by turns   *)
(* with waitpid(WNOHANG), until the program is over.                       *)
(*                                                                         *)
(* A pipe is known by the number of bytes written to it and read from it:  *)
(* the kernel keeps their order.  Both "no bytes now" (EAGAIN) and "end of *)
(* file" end a get(), so that write ends that other children inherited do  *)
(* not matter.                                                             *)
(***************************************************************************)
EXTENDS Integers, Sequences

CONSTANTS
  BufSize,     \* StdCapture::get(): 4096
  Capacity,    \* of a pipe: 65536
  MaxBytes,    \* bound: what the program writes to each stream
  ExecResults  \* what execv() may do: TRUE, it runs the program

ASSUME SizeAssumption == BufSize \in Nat \ {0} /\ Capacity \in Nat \ {0} /\ MaxBytes \in Nat
ASSUME ExecAssumption == ExecResults \subseteq BOOLEAN

Stream == {"out", "err"}

VARIABLES
  parent, todo,             \* the caller; streams to read, in this get() and after it
  capture, requireStatus0,  \* forkExecStdCapture_Params
  child, status,            \* the child process; its exit status
  written, got              \* bytes per stream

paramVars == <<capture, requireStatus0>>
childVars == <<child, status, written>>
forkVars == <<parent, todo, paramVars, childVars, got>>

\* The type invariant; a pipe holds at most what fits in it.
ForkTypeOK ==
  /\ parent \in {"fork", "get", "wait", "last", "returned", "threw"}
  /\ todo \in {<< >>, <<"out">>, <<"err">>, <<"out", "err">>}
  /\ capture \in SUBSET Stream /\ requireStatus0 \in BOOLEAN
  /\ child \in {"none", "forked", "running", "out", "err", "exited", "killed", "threw"}
  /\ status \in {0, 1}
  /\ written \in [Stream -> 0..MaxBytes] /\ got \in [Stream -> 0..MaxBytes]
  /\ \A s \in Stream : got[s] <= written[s]
  /\ \A s \in capture : written[s] - got[s] <= Capacity
  /\ child \in Stream => written[child] < MaxBytes

Captured == IF capture = Stream THEN <<"out", "err">>
            ELSE IF "out" \in capture THEN <<"out">>
            ELSE IF "err" \in capture THEN <<"err">> ELSE << >>

ForkInit ==
  /\ parent = "fork" /\ todo = << >>
  /\ capture \in SUBSET Stream /\ requireStatus0 \in BOOLEAN
  /\ child = "none" /\ status = 0
  /\ written = [s \in Stream |-> 0] /\ got = [s \in Stream |-> 0]

-----------------------------------------------------------------------------
(* The caller.                                                             *)

Fork ==
  /\ parent = "fork"
  /\ \/ parent' = "get" /\ todo' = Captured /\ child' = "forked"
     \/ parent' = "threw" /\ UNCHANGED <<todo, child>>
  /\ UNCHANGED <<paramVars, status, written, got>>

Available(s) == written[s] - got[s]
Smaller(a, b) == IF a < b THEN a ELSE b
BytesRead(s) == Smaller(BufSize, Available(s))

Over == child \in {"exited", "killed"}

\* Mutant: one stream is read until its end before the other.
Read_UntilEnd ==
  /\ parent \in {"get", "last"} /\ todo # << >>
  /\ Over \/ Available(Head(todo)) > 0
  /\ got' = [got EXCEPT ![Head(todo)] = @ + BytesRead(Head(todo))]
  /\ todo' = IF Over /\ BytesRead(Head(todo)) < BufSize THEN Tail(todo) ELSE todo
  /\ UNCHANGED <<parent, paramVars, childVars>>

\* A read() of get(); one that does not fill the buffer is the last one.
Read ==
  /\ parent \in {"get", "last"} /\ todo # << >>
  /\ got' = [got EXCEPT ![Head(todo)] = @ + BytesRead(Head(todo))]
  /\ todo' = IF BytesRead(Head(todo)) < BufSize THEN Tail(todo) ELSE todo
  /\ UNCHANGED <<parent, paramVars, childVars>>

EndGet ==
  /\ parent \in {"get", "last"} /\ todo = << >>
  /\ parent' = IF parent = "get" THEN "wait" ELSE "returned"
  /\ UNCHANGED <<todo, paramVars, childVars, got>>

\* waitpid() reports no change: `continue` skips the usleep() below.
StillRunning ==
  /\ parent = "wait" /\ ~Over
  /\ parent' = "get" /\ todo' = Captured
  /\ UNCHANGED <<paramVars, childVars, got>>

Refused == child = "killed" \/ (requireStatus0 /\ status # 0)

\* Mutant: what was written after the last look is not read.
Reaped_NoLastGet ==
  /\ parent = "wait" /\ Over
  /\ parent' = (IF Refused THEN "threw" ELSE "returned") /\ UNCHANGED todo
  /\ UNCHANGED <<paramVars, childVars, got>>

\* Mutant: WIFEXITED is not asked, and a killed child counts as status 0.
Reaped_AnyEnd ==
  /\ parent = "wait" /\ Over
  /\ IF requireStatus0 /\ status # 0 THEN parent' = "threw" /\ UNCHANGED todo
     ELSE parent' = "last" /\ todo' = Captured
  /\ UNCHANGED <<paramVars, childVars, got>>

Reaped ==
  /\ parent = "wait" /\ Over
  /\ IF Refused THEN parent' = "threw" /\ UNCHANGED todo
     ELSE parent' = "last" /\ todo' = Captured
  /\ UNCHANGED <<paramVars, childVars, got>>

-----------------------------------------------------------------------------
(* The child.                                                              *)

\* When execv() fails, its error is thrown in the child, a copy of the whole
\* program: there it is caught by a pool thread that waits for tasks, or leads
\* main() to join threads that the child does not have.
Exec ==
  /\ child = "forked"
  /\ \E ok \in ExecResults : child' = IF ok THEN "running" ELSE "threw"
  /\ UNCHANGED <<parent, todo, paramVars, status, written, got>>

\* The program is in write(), which blocks while the pipe is full.
BeginWrite(s) ==
  /\ child = "running" /\ written[s] < MaxBytes
  /\ child' = s
  /\ UNCHANGED <<parent, todo, paramVars, status, written, got>>

Write(s) ==
  /\ child = s
  /\ s \in capture => Available(s) < Capacity
  /\ written' = [written EXCEPT ![s] = @ + 1]
  /\ child' = "running"
  /\ UNCHANGED <<parent, todo, paramVars, status, got>>

Exit ==
  /\ child = "running"
  /\ child' = "exited" /\ status' \in {0, 1}
  /\ UNCHANGED <<parent, todo, paramVars, written, got>>

Kill ==
  /\ child \in {"forked", "running", "threw"} \cup Stream
  /\ child' = "killed"
  /\ UNCHANGED <<parent, todo, paramVars, status, written, got>>

ForkEnded == parent \in {"returned", "threw"} /\ UNCHANGED forkVars

Caller == Fork \/ Read \/ EndGet \/ StillRunning \/ Reaped
Program == (\E s \in Stream : BeginWrite(s) \/ Write(s)) \/ Exit
ForkNext == Caller \/ Exec \/ Program \/ Kill \/ ForkEnded

ForkSpec == ForkInit /\ [][ForkNext]_forkVars

\* The caller and the child are scheduled; the program ends of itself, and is
\* killed or not.
FairForkSpec == ForkSpec /\ WF_forkVars(Caller) /\ WF_forkVars(Exec) /\ WF_forkVars(Program)

-----------------------------------------------------------------------------
\* The call returns all that the program wrote to the streams it captures, what
\* came between the last get() and the end of the program included.
CapturesAll == parent = "returned" => \A s \in capture : got[s] = written[s]

\* It returns when the program exited, with status 0 if that is asked for; it
\* throws when the program was killed or its status refused; on neither way out
\* is a child left that nobody waits for.
Verdict ==
  /\ parent = "returned" => child = "exited" /\ (requireStatus0 => status = 0)
  /\ parent = "threw" => child = "none" \/ child = "killed" \/ (child = "exited" /\ requireStatus0 /\ status # 0)

\* util.h:89: the call returns, or "Throws on errors".
CallEnds == <>(parent \in {"returned", "threw"})

\* It does whenever there is a program to wait for: one that writes more than the
\* pipes hold, to both in any order, does not wait for the caller while the
\* caller waits for it.
ProgramIsReaped == CallEnds \/ <>(child = "threw")

\* The inductive invariant: in the last get(), nothing is written any more and
\* the streams that are not to be read again are empty.
Drained(s) == got[s] = written[s]
LastInv ==
  parent \in {"last", "returned"} =>
    /\ child = "exited" /\ (requireStatus0 => status = 0)
    /\ \A s \in capture : (\A i \in DOMAIN todo : todo[i] # s) => Drained(s)
    /\ parent = "returned" => todo = << >>
ForkInv == parent = "fork" => child = "none"
ChildInv == ForkTypeOK /\ ForkInv /\ LastInv /\ Verdict
=============================================================================
