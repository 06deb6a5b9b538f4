------------------------------- MODULE Deferred -------------------------------
(***************************************************************************)
(* The exercises in deferred work (driver/kernel_helper_function): kernel  *)
(* modules whose init function leaves a callback with the kernel - a work  *)
(* item, a tasklet, a timer - that runs later, in another context, and     *)
(* whose code and data have to be there until it has run.  Two of them     *)
(* also put init to sleep on a wait queue, which the callback wakes.       *)
(***************************************************************************)
EXTENDS Integers

CONSTANT Exercise

Sleeping  == {"waitqueue", "shared"}     \* init sleeps in wait_event_interruptible
Allocated == {"shared", "dedicated"}     \* the work item lies in kmalloc'ed data
Waiting   == {"dedicated", "tasklet", "hrtimer"}  \* exit waits for the callback

ASSUME ExerciseAssumption ==
  Exercise \subseteq {"waitqueue", "shared", "dedicated", "tasklet", "timer", "hrtimer", "reboot"}

VARIABLES
  exercise,   \* the module at hand
  mod,        \* "out", "waiting" and "asleep" (in init), "live", "oops",
              \* "gone" (unloaded)
  callback,   \* "none", "pending", "running", "woken" (has woken init), "done"
  condition,  \* what init waits for: condition, or sleep # 0
  data,       \* the kmalloc'ed data: "none", "held", "freed"
  signalled,  \* the process that loads the module got a signal
  misuse      \* history: what was used after it was gone

deferredVars == <<exercise, mod, callback, condition, data, signalled, misuse>>

DeferredInit ==
  /\ exercise \in Exercise
  /\ mod = "out" /\ callback = "none" /\ condition = FALSE
  /\ data = "none" /\ signalled = FALSE /\ misuse = {}

\* my_init, to its return or to wait_event_interruptible.  No exercise looks whether kmalloc
\* failed.
MyInit ==
  /\ mod = "out"
  /\ \/ /\ exercise \in Allocated
        /\ mod' = "oops"
        /\ UNCHANGED <<callback, data>>
     \/ /\ mod' = IF exercise \in Sleeping THEN "waiting" ELSE "live"
        /\ callback' = "pending"
        /\ data' = IF exercise \in Allocated THEN "held" ELSE data
  /\ UNCHANGED <<exercise, condition, signalled, misuse>>

\* One turn of wait_event_interruptible: init puts itself on the wait queue, which
\* in "shared" is part of the data, and returns when the condition holds or a
\* signal came, or else sleeps.  Neither exercise looks at which it was.  A queue
\* that was freed is used as if nobody had taken its memory yet.
WaitEvent ==
  /\ mod = "waiting"
  /\ mod' = IF condition \/ signalled THEN "live" ELSE "asleep"
  /\ misuse' = IF data = "freed" THEN misuse \cup {"data"} ELSE misuse
  /\ UNCHANGED <<exercise, callback, condition, data, signalled>>

\* Whoever sleeps is taken off the queue and takes another turn.
Woken(m) == IF m = "asleep" THEN "waiting" ELSE m

Signal ==
  /\ mod \in {"waiting", "asleep"}
  /\ mod' = Woken(mod)
  /\ signalled' = TRUE
  /\ UNCHANGED <<exercise, callback, condition, data, misuse>>

\* What a step of the callback uses after it was gone.
CodeUsed == IF mod = "gone" THEN misuse \cup {"code"} ELSE misuse

\* The kernel runs the callback: the worker gets to it, the time is over.
CallbackStarts ==
  /\ callback = "pending"
  /\ callback' = "running"
  /\ misuse' = CodeUsed
  /\ UNCHANGED <<exercise, mod, condition, data, signalled>>

\* The handler of "waitqueue" sets the condition; the one of "shared" never does.
SetCondition ==
  /\ callback = "running" /\ exercise = "waitqueue" /\ ~condition
  /\ condition' = TRUE
  /\ misuse' = CodeUsed
  /\ UNCHANGED <<exercise, mod, callback, data, signalled>>

\* wake_up_interruptible, after the condition where there is one.
WakeUp ==
  /\ callback = "running" /\ exercise \in Sleeping
  /\ exercise = "waitqueue" => condition
  /\ callback' = "woken"
  /\ mod' = Woken(mod)
  /\ misuse' = CodeUsed
  /\ UNCHANGED <<exercise, condition, data, signalled>>

\* The handler frees what was allocated, in "shared" right after the wake-up.
CallbackEnds ==
  /\ callback = IF exercise \in Sleeping THEN "woken" ELSE "running"
  /\ callback' = "done"
  /\ data' = IF exercise \in Allocated THEN "freed" ELSE data
  /\ misuse' = CodeUsed
  /\ UNCHANGED <<exercise, mod, condition, signalled>>

\* flush_workqueue waits for a pending callback, tasklet_kill too;
\* hrtimer_cancel removes a pending one and waits for a running one.
MayUnload ==
  CASE exercise \in {"dedicated", "tasklet"} -> callback = "done"
    [] exercise = "hrtimer"                  -> callback # "running"
    [] OTHER                                 -> TRUE

\* del_timer removes a pending callback and does not wait for a running one.
Cancels == exercise \in {"hrtimer", "timer"}

\* my_exit, when the module is removed.
MyExit ==
  /\ mod = "live"
  /\ MayUnload
  /\ mod' = "gone"
  /\ callback' = IF callback = "pending" /\ Cancels THEN "done" ELSE callback
  /\ UNCHANGED <<exercise, condition, data, signalled, misuse>>

DeferredNext ==
  \/ MyInit \/ WaitEvent \/ Signal
  \/ CallbackStarts \/ SetCondition \/ WakeUp \/ CallbackEnds
  \/ MyExit

\* The kernel gets to a callback, and lets a process run that may.
DeferredFairness ==
  /\ WF_deferredVars(CallbackStarts) /\ WF_deferredVars(SetCondition)
  /\ WF_deferredVars(WakeUp) /\ WF_deferredVars(CallbackEnds)
  /\ WF_deferredVars(WaitEvent)

DeferredSpec == DeferredInit /\ [][DeferredNext]_deferredVars /\ DeferredFairness

-----------------------------------------------------------------------------
(* Properties *)

DeferredTypeOK ==
  /\ exercise \in Exercise
  /\ mod \in {"out", "waiting", "asleep", "live", "oops", "gone"}
  /\ callback \in {"none", "pending", "running", "woken", "done"}
  /\ condition \in BOOLEAN /\ signalled \in BOOLEAN
  /\ data \in {"none", "held", "freed"}
  /\ misuse \subseteq {"code", "data"}

\* A callback never runs in a module that was removed, where the exit function
\* waits for it or, with a timer that is only deleted, where the callback was not
\* already running; waitqueue, shared and reboot leave it behind.
CodeOutlivesCallback ==
  /\ exercise \in Waiting => "code" \notin misuse
  /\ exercise = "timer" /\ mod = "gone" => callback # "pending"

\* Memory is used after it was freed only by the init function of "shared": it
\* goes back on the wait queue the handler frees right after the wake-up, with or
\* without a signal, for the handler never makes its condition true.  So it
\* returns for a signal only.
FreedDataExplained ==
  /\ "data" \in misuse => exercise = "shared"
  /\ exercise = "shared" /\ mod \in {"live", "gone"} => signalled

\* In "waitqueue" the condition is set before the wake-up: init does not sleep on
\* once it was woken, however its turns and the handler's steps interleave.
NoWakeLost ==
  exercise = "waitqueue" /\ mod = "asleep" => callback \notin {"woken", "done"}
=============================================================================
