-------------------------------- MODULE MCUtil --------------------------------
(***************************************************************************)
(* Three functions that have nothing to do with each other: a behaviour is *)
(* one call of one of them, and the variables of the others stay at rest.  *)
(*                                                                         *)
(* groupTasks(): up to 25 tasks, the header's example of 101 tasks too.    *)
(* normalizePath(): all paths of up to eight characters, room for two      *)
(* components and two "..", and for every mixture of slashes and dots.     *)
(* forkExecStdCapture(): programs that write up to 4 bytes to each stream, *)
(* through pipes of 3 bytes that are read 2 bytes at a time: pipes fill    *)
(* up, and a get() takes several reads.                                    *)
(***************************************************************************)
EXTENDS GroupTasks, NormalizePath, ForkExec

VARIABLE call

MCTaskCounts == 0..25 \cup {101}
MCGroupSizes == -3..8 \cup {30}
MCThreadCounts == {1, 2, 3, 8}

GroupRests == GroupInit /\ numTasks = 0 /\ argument = -1 /\ numThreads = 1
PathRests == pc = "start" /\ pi = 1 /\ buf = << >> /\ path = << >>
ForkRests == ForkInit /\ capture = {} /\ ~requireStatus0

UtilInit ==
  \/ call = "groupTasks" /\ GroupInit /\ PathRests /\ ForkRests
  \/ call = "normalizePath" /\ GroupRests /\ Init /\ ForkRests
  \/ call = "forkExecStdCapture" /\ GroupRests /\ PathRests /\ ForkInit

InGroupTasks == call = "groupTasks" /\ UNCHANGED <<call, vars, forkVars>>
InNormalizePath == call = "normalizePath" /\ UNCHANGED <<call, groupVars, forkVars>>
InForkExec == call = "forkExecStdCapture" /\ UNCHANGED <<call, groupVars, vars>>

UtilNext ==
  \/ GroupNext /\ InGroupTasks
  \/ Next /\ InNormalizePath
  \/ ForkNext /\ InForkExec

utilVars == <<call, groupVars, vars, forkVars>>

\* The fairness is that of ForkExec's FairForkSpec.
UtilSpec ==
  /\ UtilInit /\ [][UtilNext]_utilVars
  /\ WF_utilVars(Caller /\ InForkExec) /\ WF_utilVars(Exec /\ InForkExec) /\ WF_utilVars(Program /\ InForkExec)

\* What forkExecStdCapture() promises, when it is called.
ReapedWhenCalled == call = "forkExecStdCapture" => ProgramIsReaped
=============================================================================
