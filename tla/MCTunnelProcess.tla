--------------------------- MODULE MCTunnelProcess ---------------------------
(***************************************************************************)
(* The tunnel's processes around the packet paths, each on its own: the    *)
(* ring through which the server reads its TUN device (TunRing), the runs  *)
(* of the two programs (TunProcess) and the fault handler (CrashHandler).  *)
(* A behaviour is of one of them; the others stay in their first state.    *)
(***************************************************************************)
EXTENDS TunRing, TunProcess, CrashHandler

VARIABLE part   \* the component this behaviour is of

\* EAGAIN: the device is opened with O_NONBLOCK.  EIO: any other failure.
Again == {-11}
Failures == {-11, -5}

\* A frame, and the stacks of a fault: two calls deep with every link; links
\* that end before main; a function built without frame pointers; a caller
\* that dladdr knows no symbol for.
Frame(f, s) == [fn |-> f, saved |-> s]
FewStacks ==
  {<<Frame("work", "link"), Frame("work", "link"), Frame("main", "link")>>,
   <<Frame("work", "link"), Frame("work", "null")>>,
   <<Frame("work", "null"), Frame("work", "null")>>,
   <<Frame("work", "wild"), Frame("work", "link")>>,
   <<Frame("work", "link"), Frame("unknown", "link"), Frame("main", "link")>>}
FirstStack == <<Frame("work", "link"), Frame("work", "null")>>

MCInit ==
  /\ part \in {"ring", "process", "crash"}
  /\ Init /\ ProcInit /\ CrashInit
  /\ part # "crash" => stack = [t \in Thread |-> FirstStack]

MCNext ==
  /\ \/ part = "ring" /\ Next /\ UNCHANGED <<allProcVars, crashVars>>
     \/ part = "process" /\ ProcNext /\ UNCHANGED <<vars, crashVars>>
     \/ part = "crash" /\ CrashNext /\ UNCHANGED <<vars, allProcVars>>
  /\ UNCHANGED part

\* The fairness of each component asks nothing of one that stays in its first
\* state: no entry to walk, no process, no fault.
MCSpec ==
  /\ MCInit /\ [][MCNext]_<<vars, allProcVars, crashVars, part>>
  /\ WF_vars(WaitCqe) /\ WF_vars(WalkCqe) /\ WF_vars(EndWalk)
  /\ ProcFairness
  /\ CrashFairness

\* Every variable of the three components holds a value of its type.
ProcessTypeOK == TypeOK /\ ProcTypeOK /\ CrashTypeOK

\* SIGINT ends either program, and a fault ends the server, but for the waits
\* the two parts name (SigintEnds of TunProcess, FaultEnds of CrashHandler).
ProcessesEnd == SigintEnds /\ FaultEnds

=============================================================================
