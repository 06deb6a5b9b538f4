------------------------------ MODULE TraceHooks ------------------------------
(***************************************************************************)
(* The -finstrument-functions hooks of the libevent trace: on entry to and *)
(* on exit from every function a line is written, indented by the nesting. *)
(* The guard in_trace and the counter depth are plain globals, shared by   *)
(* all threads; the guard keeps a hook from tracing itself, not two        *)
(* threads from each other.                                                *)
(***************************************************************************)
EXTENDS Integers, FiniteSets, FiniteSetsExt

CONSTANTS
  Task,
  MaxNest,       \* bound: how deep a thread nests its calls
  MaxHooks       \* bound: hooks called in all

ASSUME TraceAssumption == IsFiniteSet(Task) /\ MaxNest \in Nat /\ MaxHooks \in Nat

VARIABLES
  in_trace, depth,
  nest,      \* the real nesting of each thread
  hook,      \* the hook a thread is in, and where: [kind, pc, got]
  hooks,     \* hooks called so far
  skipped,   \* some hook returned at once because of in_trace
  raced      \* two threads were inside the guarded part at once
traceVars == <<in_trace, depth, nest, hook, hooks, skipped, raced>>

NoHook == [kind |-> "none", pc |-> "out", got |-> 0]
Guarded(t) == hook[t].pc \in {"print", "count", "clamp", "clear"}

TraceInit ==
  /\ in_trace = 0 /\ depth = 0 /\ nest = [t \in Task |-> 0]
  /\ hook = [t \in Task |-> NoHook]
  /\ hooks = 0 /\ skipped = FALSE /\ raced = FALSE

\* A function is entered, or returns: its hook is called.
Call(t) ==
  /\ hook[t] = NoHook /\ hooks < MaxHooks /\ hooks' = hooks + 1
  /\ \E kind \in {"enter", "exit"} :
       /\ IF kind = "enter" THEN nest[t] < MaxNest ELSE nest[t] > 0
       /\ nest' = [nest EXCEPT ![t] = @ + (IF kind = "enter" THEN 1 ELSE -1)]
       /\ hook' = [hook EXCEPT ![t] = [NoHook EXCEPT !.kind = kind, !.pc = "test"]]
  /\ UNCHANGED <<in_trace, depth, skipped, raced>>

TestGuard(t) ==
  /\ hook[t].pc = "test"
  /\ IF in_trace = 1
       THEN hook' = [hook EXCEPT ![t] = NoHook] /\ skipped' = TRUE
       ELSE hook' = [hook EXCEPT ![t].pc = "set"] /\ UNCHANGED skipped
  /\ UNCHANGED <<in_trace, depth, nest, hooks, raced>>

\* The guard is set; the entry prints before it counts, the exit after.
SetGuard(t) ==
  /\ hook[t].pc = "set" /\ in_trace' = 1
  /\ raced' = (raced \/ \E u \in Task : Guarded(u))
  /\ hook' = [hook EXCEPT ![t].pc =
                IF hook[t].kind = "enter" THEN "print" ELSE "count",
              ![t].got = depth]
  /\ UNCHANGED <<depth, nest, hooks, skipped>>

PrintLine(t) ==
  /\ hook[t].pc = "print"
  /\ hook' = [hook EXCEPT ![t].pc =
                IF hook[t].kind = "enter" THEN "count" ELSE "clear",
              ![t].got = depth]
  /\ UNCHANGED <<in_trace, depth, nest, hooks, skipped, raced>>

\* depth++ and depth-- are a load and a store; the load is taken at once with
\* the step before it, unless another thread comes between.
EnterCount(t) ==
  /\ hook[t].pc = "count" /\ hook[t].kind = "enter"
  /\ depth' \in {depth + 1, hook[t].got + 1}
  /\ hook' = [hook EXCEPT ![t].pc = "clear"]
  /\ UNCHANGED <<in_trace, nest, hooks, skipped, raced>>
ExitCount(t) ==
  /\ hook[t].pc = "count" /\ hook[t].kind = "exit"
  /\ depth' \in {depth - 1, hook[t].got - 1}
  /\ hook' = [hook EXCEPT ![t].pc = "clamp"]
  /\ UNCHANGED <<in_trace, nest, hooks, skipped, raced>>
Clamped(d) == IF d < 0 THEN 0 ELSE d
Clamp(t) ==
  /\ hook[t].pc = "clamp" /\ depth' = Clamped(depth)
  /\ hook' = [hook EXCEPT ![t].pc = "print"]
  /\ UNCHANGED <<in_trace, nest, hooks, skipped, raced>>

ClearGuard(t) ==
  /\ hook[t].pc = "clear" /\ in_trace' = 0
  /\ hook' = [hook EXCEPT ![t] = NoHook]
  /\ UNCHANGED <<depth, nest, hooks, skipped, raced>>

TraceNext == \E t \in Task :
  \/ Call(t) \/ TestGuard(t) \/ SetGuard(t) \/ PrintLine(t) \/ EnterCount(t)
  \/ ExitCount(t) \/ Clamp(t) \/ ClearGuard(t)
TraceSpec == TraceInit /\ [][TraceNext]_traceVars
-----------------------------------------------------------------------------
TraceTypeOK ==
  /\ in_trace \in 0..1 /\ depth \in Int /\ nest \in [Task -> 0..MaxNest]
  /\ hook \in [Task -> [kind : {"none", "enter", "exit"},
       pc : {"out", "test", "set", "print", "count", "clamp", "clear"}, got : Int]]
  /\ hooks \in 0..MaxHooks

Quiet == \A t \in Task : hook[t] = NoHook
(***************************************************************************)
(* Between hooks the indentation is the number of calls in progress - of   *)
(* all threads together, since depth is one counter for them - as long as  *)
(* no hook was skipped and no two were counting at once.                   *)
(***************************************************************************)
DepthCounts ==
  Quiet /\ ~skipped /\ ~raced
    => depth = MapThenSumSet(LAMBDA t : nest[t], Task)

(***************************************************************************)
(* However the hooks of several threads overlap, the guard is open again   *)
(* when none is running - tracing is never switched off for good - and the *)
(* depth is negative only after two were counting at once: a count read    *)
(* below zero may be stored after the other's clamp, and stays until the   *)
(* next exit clamps it.                                                    *)
(***************************************************************************)
GuardReopens == Quiet => in_trace = 0 /\ (depth < 0 => raced)
=============================================================================
