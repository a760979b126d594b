----------------------------- MODULE MCThreads -----------------------------
(***************************************************************************)
(* The classes that coordinate threads, in one TLC instance: a behaviour   *)
(* is one of CyclicWorkerThread, one of ThreadSafeQueue or one of          *)
(* AsyncWorker.  The three share no state; the two that are not the        *)
(* subject of a behaviour stay as they are when it begins.                 *)
(***************************************************************************)
EXTENDS MCCyclicWorkerThread, ThreadSafeQueue, AsyncWorker

CONSTANTS w1, w2
TwoWriters == {w1, w2}

VARIABLE subject
threadsVars == <<subject, vars, syncVars, asyncVars>>

ThreadsInit ==
  /\ subject \in {"cyclic worker", "queue", "async worker"}
  /\ Init /\ QueueInit /\ AsyncInit

ThreadsNext ==
  /\ UNCHANGED subject
  /\ \/ subject = "cyclic worker" /\ Next /\ UNCHANGED <<syncVars, asyncVars>>
     \/ subject = "queue" /\ QueueNext /\ UNCHANGED <<vars, asyncVars>>
     \/ subject = "async worker" /\ AsyncNext /\ UNCHANGED <<vars, syncVars>>

\* Fairness of the three, where the threads that run from the beginning are
\* scheduled in behaviours of their own; the rest is of calls that have begun.
ThreadsFairness ==
  /\ WF_vars(subject = "cyclic worker" /\ WorkerStep) /\ CallFairness
  /\ QueueFairness
  /\ WF_asyncVars(subject = "async worker" /\ AsyncStep) /\ WF_asyncVars(AsyncJoinReturn)

ThreadsSpec == ThreadsInit /\ [][ThreadsNext]_threadsVars /\ ThreadsFairness
=============================================================================
