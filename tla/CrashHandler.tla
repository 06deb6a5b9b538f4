---------------------------- MODULE CrashHandler ----------------------------
(***************************************************************************)
(* What the tunnel server does when one of its threads faults              *)
(* (backstrace.c): sigsegv_handler writes to the log where the fault was   *)
(* and the functions on the stack, prints a line and leaves the process.   *)
(* syslog and printf take locks, and the thread may have faulted holding   *)
(* one; other threads go on meanwhile, and may fault as well.              *)
(***************************************************************************)
EXTENDS Integers, Sequences

CONSTANTS
  Thread,
  Stacks,     \* bound: the stacks, as sequences of frames [fn, saved]
  NoThread, NoFn

VARIABLES
  doing,      \* of each thread: what it runs
  stack,      \* its stack when it faults, the innermost function first
  fp,         \* print_call_link: frame_pointer, as the number of the frame
  ret,        \*                  return_address
  trace,      \* the functions it wrote to the log
  logBy, outBy,   \* who holds the lock of syslog, and of stdout
  process     \* "up", "exit 0", "killed"

crashVars == <<doing, stack, fp, ret, trace, logBy, outBy, process>>

Functions == {"work", "main", "unknown"}   \* "unknown": dladdr finds no symbol
NULL == 0
Wild == -1      \* a register that holds no frame (code built without frame pointers)

StackFrame == [fn : Functions, saved : {"link", "null", "wild"}]

ASSUME StacksAssumption ==
  /\ \A s \in Stacks : s \in Seq(StackFrame) /\ s # <<>>
  /\ NoFn \notin Functions

Faulted == {"start", "walk", "end", "print"}

CrashInit ==
  /\ doing = [t \in Thread |-> "run"]
  /\ stack \in [Thread -> Stacks]
  /\ fp = [t \in Thread |-> NULL]
  /\ ret = [t \in Thread |-> NoFn]
  /\ trace = [t \in Thread |-> <<>>]
  /\ logBy = NoThread /\ outBy = NoThread
  /\ process = "up"

Locks == <<logBy, outBy>>
Walks == <<stack, fp, ret, trace>>

-----------------------------------------------------------------------------
(* The program's own use of the log and of stdout *)

Logs(t) ==
  /\ doing[t] = "run" /\ logBy = NoThread
  /\ doing' = [doing EXCEPT ![t] = "log"]
  /\ logBy' = t
  /\ UNCHANGED <<Walks, outBy, process>>

Prints(t) ==
  /\ doing[t] = "run" /\ outBy = NoThread
  /\ doing' = [doing EXCEPT ![t] = "out"]
  /\ outBy' = t
  /\ UNCHANGED <<Walks, logBy, process>>

Returns(t) ==
  /\ doing[t] \in {"log", "out"}
  /\ doing' = [doing EXCEPT ![t] = "run"]
  /\ logBy' = IF logBy = t THEN NoThread ELSE logBy
  /\ outBy' = IF outBy = t THEN NoThread ELSE outBy
  /\ UNCHANGED <<Walks, process>>

\* The thread faults, wherever it is: the handler starts with its registers.
Fault(t) ==
  /\ doing[t] \in {"run", "log", "out"}
  /\ doing' = [doing EXCEPT ![t] = "start"]
  /\ UNCHANGED <<Walks, Locks, process>>

-----------------------------------------------------------------------------
(* sigsegv_handler *)

\* The lines about the signal and print_reg.
Report(t) ==
  /\ doing[t] = "start" /\ logBy = NoThread
  /\ doing' = [doing EXCEPT ![t] = "walk"]
  /\ \E f \in {1, Wild} : fp' = [fp EXCEPT ![t] = f]
  /\ ret' = [ret EXCEPT ![t] = stack[t][1].fn]
  /\ UNCHANGED <<stack, trace, Locks, process>>

\* The loop of print_call_link ends: no frame, no address, or no symbol for it.
StopWalk(t) ==
  /\ doing[t] = "walk"
  /\ fp[t] = NULL \/ ret[t] \in {NoFn, "unknown"}
  /\ doing' = [doing EXCEPT ![t] = "end"]
  /\ UNCHANGED <<Walks, Locks, process>>

\* Mutant: the frame is left before the address is taken from it.
UpTooFar(s, f) ==
  LET next == IF f < Len(s) /\ s[f].saved = "link" THEN f + 1 ELSE NULL IN
  [ret |-> IF next # NULL /\ next < Len(s) THEN s[next + 1].fn ELSE NoFn, fp |-> next]

\* The caller's address and frame, from the frame in hand.
Up(s, f) ==
  [ret |-> IF f < Len(s) THEN s[f + 1].fn ELSE NoFn,
   fp |-> CASE s[f].saved = "wild" -> Wild
            [] s[f].saved = "link" /\ f < Len(s) -> f + 1
            [] OTHER -> NULL]

\* One turn of the loop: a line for the function, then up to its caller, unless
\* it was main.  A register that holds no frame (the program is built with -O2)
\* either faults again, and SIGSEGV is blocked while its handler runs, so that
\* the kernel ends the process; or what is read there is no function's address.
Walk(t) ==
  /\ doing[t] = "walk" /\ logBy = NoThread
  /\ fp[t] # NULL /\ ret[t] \notin {NoFn, "unknown"}
  /\ trace' = [trace EXCEPT ![t] = Append(@, ret[t])]
  /\ \/ /\ ret[t] = "main"
        /\ doing' = [doing EXCEPT ![t] = "end"]
        /\ UNCHANGED <<fp, ret, process>>
     \/ /\ ret[t] # "main" /\ fp[t] = Wild
        /\ \/ process' = "killed" /\ UNCHANGED ret
           \/ ret' = [ret EXCEPT ![t] = "unknown"] /\ UNCHANGED process
        /\ UNCHANGED <<doing, fp>>
     \/ /\ ret[t] # "main" /\ fp[t] # Wild
        /\ LET up == Up(stack[t], fp[t]) IN
             fp' = [fp EXCEPT ![t] = up.fp] /\ ret' = [ret EXCEPT ![t] = up.ret]
        /\ UNCHANGED <<doing, process>>
  /\ UNCHANGED <<stack, Locks>>

\* The last line of the trace.
EndTrace(t) ==
  /\ doing[t] = "end" /\ logBy = NoThread
  /\ doing' = [doing EXCEPT ![t] = "print"]
  /\ UNCHANGED <<Walks, Locks, process>>

\* Mutant: the exit waits for the other threads.
MayExitAlone(t) == outBy = NoThread /\ \A s \in Thread \ {t} : doing[s] \in {"run", "log", "out"}

\* _exit waits for no other thread; the line before it needs stdout.
MayExit(t) == outBy = NoThread

\* The line on stdout, and _exit(0): a fault looks like success.
ExitProcess(t) ==
  /\ doing[t] = "print" /\ MayExit(t)
  /\ process' = "exit 0"
  /\ UNCHANGED <<doing, Walks, Locks>>

CrashStep(t) ==
  \/ Logs(t) \/ Prints(t) \/ Returns(t) \/ Fault(t)
  \/ Report(t) \/ StopWalk(t) \/ Walk(t) \/ EndTrace(t) \/ ExitProcess(t)

CrashNext == process = "up" /\ \E t \in Thread : CrashStep(t)

\* A thread that can go on goes on; that it faults is not required.
CrashFairness ==
  \A t \in Thread :
    /\ WF_crashVars(process = "up" /\ (Returns(t) \/ StopWalk(t)))
    /\ SF_crashVars(process = "up" /\ (Report(t) \/ Walk(t) \/ EndTrace(t)))
    /\ SF_crashVars(process = "up" /\ ExitProcess(t))

CrashSpec == CrashInit /\ [][CrashNext]_crashVars /\ CrashFairness

-----------------------------------------------------------------------------
(* Properties *)

CrashTypeOK ==
  /\ doing \in [Thread -> {"run", "log", "out"} \cup Faulted]
  /\ stack \in [Thread -> Stacks]
  /\ \A t \in Thread :
       /\ fp[t] \in Wild .. Len(stack[t])
       /\ ret[t] \in Functions \cup {NoFn}
       /\ Len(trace[t]) <= Len(stack[t])
  /\ logBy \in Thread \cup {NoThread} /\ outBy \in Thread \cup {NoThread}
  /\ process \in {"up", "exit 0", "killed"}

\* What is written is the stack from its innermost function outwards, none left
\* out; and when the walk is over it reached main, or an address without a
\* symbol, or no frame, or the frame of the last function had no link: its caller, whose
\* address was already in hand, is then missing.
TraceFaithful ==
  \A t \in Thread :
    /\ \A i \in DOMAIN trace[t] : trace[t][i] = stack[t][i].fn
    /\ doing[t] \in {"end", "print"} =>
         LET n == Len(trace[t]) IN
           \/ n > 0 /\ trace[t][n] = "main"
           \/ n < Len(stack[t]) /\ stack[t][n + 1].fn = "unknown"
           \/ fp[t] = Wild
           \/ n > 0 /\ stack[t][n].saved = "null"
           \/ n = Len(stack[t])

\* A thread that faulted takes the process down with it, whatever the others
\* do, unless a thread faulted while it held the log or stdout: the handler
\* then waits for its own lock, and the server is up but dead.
FaultEnds ==
  \A t \in Thread :
    doing[t] \in Faulted ~>
      \/ process # "up"
      \/ \E s \in Thread : doing[s] \in Faulted /\ (logBy = s \/ outBy = s)
=============================================================================
