-------------------------- MODULE WorkerLifecycle --------------------------
(***************************************************************************)
(* What a CyclicWorkerThread promises to those who observe its state       *)
(* (CyclicWorkerThread.h, the enumeration of states and the comments on    *)
(* run(), pause(), resume(), terminate() and the hooks): the life cycle    *)
(*   Initialized -> Preparing -> Running -> Suspending -> Suspended        *)
(*   -> Resuming -> Running, and from every stable state                   *)
(*   Terminating -> Finished;                                              *)
(* a hook is called between two executions of worker(), and worker() is    *)
(* called in state Running only: onFirstRun() or onResume() "is executed   *)
(* and immediately afterwards the worker is called".                       *)
(* Mutex, condition variable, timer and pending flag do not occur here.    *)
(***************************************************************************)

VARIABLES st,       \* the state
          target,   \* the state asked for last
          working,  \* worker() is being executed
          alive     \* the thread has not ended

vars == <<st, target, working, alive>>

Stable == {"Initialized", "Running", "Suspended"}

Init ==
  /\ st = "Initialized" /\ target = "Initialized"
  /\ working = FALSE /\ alive = TRUE

\* A target that can be asked for in the current state.
Ask(t) ==
  /\ \/ t = "Finished" /\ st # "Finished"
     \/ t = "Running" /\ st \in {"Initialized", "Suspended"}
     \/ t = "Suspended" /\ st = "Running"
  /\ target' = t
  /\ UNCHANGED <<st, working, alive>>

\* A transition begins with its hook, between two executions of worker().
Begin(from, t, hook) ==
  /\ alive /\ ~working
  /\ st = from /\ target = t
  /\ st' = hook
  /\ UNCHANGED <<target, working, alive>>

BeginTransition ==
  \/ Begin("Initialized", "Running", "Preparing")
  \/ Begin("Running", "Suspended", "Suspending")
  \/ Begin("Suspended", "Running", "Resuming")
  \/ \E from \in Stable : Begin(from, "Finished", "Terminating")

\* The hook returns and the transition is complete.
Complete(hook, to) ==
  /\ st = hook
  /\ st' = to
  /\ UNCHANGED <<target, working, alive>>

CompleteTransition ==
  \/ Complete("Preparing", "Running") \/ Complete("Resuming", "Running")
  \/ Complete("Suspending", "Suspended") \/ Complete("Terminating", "Finished")

\* Running: "the worker is being cyclically executed".
StartWork ==
  /\ alive /\ ~working
  /\ st = "Running"
  /\ working' = TRUE
  /\ UNCHANGED <<st, target, alive>>

EndWork ==
  /\ working
  /\ working' = FALSE
  /\ alive' \in BOOLEAN          \* FALSE when the object is being destroyed
  /\ UNCHANGED <<st, target>>

\* The thread ends, on its own or on behalf of the destructor, never in a hook.
End ==
  /\ alive /\ ~working
  /\ st \in Stable \cup {"Finished"}
  /\ alive' = FALSE
  /\ UNCHANGED <<st, target, working>>

Next ==
  \/ \E t \in {"Running", "Suspended", "Finished"} : Ask(t)
  \/ BeginTransition \/ CompleteTransition \/ StartWork \/ EndWork \/ End

Spec == Init /\ [][Next]_vars
=============================================================================
