---------------------------- MODULE AsyncWorker ----------------------------
(***************************************************************************)
(* Sloppy::AsyncWorker<In, Out> (AsyncWorker.h): a thread that takes input *)
(* from one ThreadSafeQueue, calls worker() and puts the result into       *)
(* another one, controlled by suspend(), resume() and join().              *)
(*                                                                         *)
(* The queues are the abstract ones of FifoQueue: put() and get() are      *)
(* single steps, which ThreadSafeQueue_proofs justifies for a queue with   *)
(* one reader.  Inputs are numbered in the order they are put; the result  *)
(* of worker() carries the number of its input.                            *)
(***************************************************************************)
EXTENDS Naturals, Sequences

CONSTANTS MaxInputs,    \* bound: number of inputs
          HasOutput     \* outPtr # nullptr

ASSUME InputAssumption == MaxInputs \in Nat /\ HasOutput \in BOOLEAN

VARIABLES
  inQueue, outQueue,    \* the two queues
  fed,                  \* inputs put so far
  delivered,            \* outputs taken from outQueue so far, in order
  current,              \* optData of mainLoop(), 0 if there is none
  nCalls,               \* statData.nCalls
  workerPc,             \* where the worker thread is in mainLoop()
  isRunning, joinRequested, suspendRequested,     \* std::atomic_bool
  ownerPc,              \* the owning thread: outside join(), in it, joined
  lateStarts            \* inputs taken since suspend() returned

queueVars == <<inQueue, outQueue, fed, delivered>>
flagVars == <<joinRequested, suspendRequested>>
asyncVars == <<inQueue, outQueue, fed, delivered, current, nCalls, workerPc,
          isRunning, joinRequested, suspendRequested, ownerPc, lateStarts>>

AsyncPcs == {"while", "state", "sleep", "get", "worker", "put", "stats", "end"}

AsyncInit ==
  /\ inQueue = <<>> /\ outQueue = <<>>
  /\ fed = 0 /\ delivered = <<>>
  /\ current = 0 /\ nCalls = 0
  /\ workerPc = "while"
  /\ isRunning = TRUE /\ joinRequested = FALSE /\ suspendRequested = FALSE
  /\ ownerPc = "free"
  /\ lateStarts = 0

-----------------------------------------------------------------------------
(* mainLoop()                                                              *)

While ==
  /\ workerPc = "while"
  /\ workerPc' = IF joinRequested THEN "end" ELSE "state"
  /\ UNCHANGED <<queueVars, current, nCalls, isRunning, flagVars, ownerPc,
                 lateStarts>>

\* Slip: a suspension is taken notice of, but the input queue is still read.
SetRunningGoesOn ==
  /\ workerPc = "state"
  /\ isRunning' = ~suspendRequested
  /\ workerPc' = "get"
  /\ UNCHANGED <<queueVars, current, nCalls, flagVars, ownerPc, lateStarts>>

SetRunning ==
  /\ workerPc = "state"
  /\ isRunning' = ~suspendRequested
  /\ workerPc' = IF isRunning' THEN "get" ELSE "sleep"
  /\ UNCHANGED <<queueVars, current, nCalls, flagVars, ownerPc, lateStarts>>

\* Slip: a suspended worker waits for resume() only, and does not read it.
SleepForGood ==
  /\ workerPc = "sleep"
  /\ UNCHANGED asyncVars

Sleep ==
  /\ workerPc = "sleep"
  /\ workerPc' = "while"
  /\ UNCHANGED <<queueVars, current, nCalls, isRunning, flagVars, ownerPc,
                 lateStarts>>

\* Slip: what get() returned after a request to join is thrown away.
TakeUnlessJoined ==
  /\ workerPc = "get" /\ inQueue # <<>>
  /\ inQueue' = Tail(inQueue)
  /\ current' = IF joinRequested THEN 0 ELSE Head(inQueue)
  /\ workerPc' = IF joinRequested THEN "while" ELSE "worker"
  /\ lateStarts' = IF suspendRequested THEN lateStarts + 1 ELSE lateStarts
  /\ UNCHANGED <<outQueue, fed, delivered, nCalls, isRunning, flagVars, ownerPc>>

\* Slip: the element is moved out before the queue is known to have one.
TakeLeavesNothing ==
  /\ workerPc = "get"
  /\ inQueue' = IF inQueue = <<>> THEN inQueue ELSE Tail(inQueue)
  /\ current' = IF inQueue = <<>> THEN MaxInputs + 1 ELSE Head(inQueue)
  /\ workerPc' = "worker"
  /\ lateStarts' = IF suspendRequested THEN lateStarts + 1 ELSE lateStarts
  /\ UNCHANGED <<outQueue, fed, delivered, nCalls, isRunning, flagVars, ownerPc>>

\* inPtr->get(preemptionTime_ms) returns an element ...
Take ==
  /\ workerPc = "get" /\ inQueue # <<>>
  /\ current' = Head(inQueue)
  /\ inQueue' = Tail(inQueue)
  /\ workerPc' = "worker"
  /\ lateStarts' = IF suspendRequested THEN lateStarts + 1 ELSE lateStarts
  /\ UNCHANGED <<outQueue, fed, delivered, nCalls, isRunning, flagVars, ownerPc>>

\* ... or nothing, when the preemption time is over and the queue is empty.
Preempt ==
  /\ workerPc = "get" /\ inQueue = <<>>
  /\ workerPc' = "while"
  /\ UNCHANGED <<queueVars, current, nCalls, isRunning, flagVars, ownerPc,
                 lateStarts>>

\* worker() returns.
AsyncWorkerReturn ==
  /\ workerPc = "worker"
  /\ workerPc' = IF HasOutput THEN "put" ELSE "stats"
  /\ UNCHANGED <<queueVars, current, nCalls, isRunning, flagVars, ownerPc,
                 lateStarts>>

PutOutput ==
  /\ workerPc = "put"
  /\ outQueue' = Append(outQueue, current)
  /\ workerPc' = "stats"
  /\ UNCHANGED <<inQueue, fed, delivered, current, nCalls, isRunning, flagVars,
                 ownerPc, lateStarts>>

\* statData.update() under statsMutex; optData goes out of scope.
UpdateStats ==
  /\ workerPc = "stats"
  /\ nCalls' = nCalls + 1
  /\ current' = 0
  /\ workerPc' = "while"
  /\ UNCHANGED <<queueVars, isRunning, flagVars, ownerPc, lateStarts>>

-----------------------------------------------------------------------------
(* Other threads.                                                          *)

Feed ==
  /\ fed < MaxInputs
  /\ fed' = fed + 1
  /\ inQueue' = Append(inQueue, fed + 1)
  /\ UNCHANGED <<outQueue, delivered, current, nCalls, workerPc, isRunning,
                 flagVars, ownerPc, lateStarts>>

Collect ==
  /\ outQueue # <<>>
  /\ delivered' = Append(delivered, Head(outQueue))
  /\ outQueue' = Tail(outQueue)
  /\ UNCHANGED <<inQueue, fed, current, nCalls, workerPc, isRunning, flagVars,
                 ownerPc, lateStarts>>

Suspend ==
  /\ ownerPc # "joining"
  /\ suspendRequested' = TRUE
  /\ lateStarts' = 0
  /\ UNCHANGED <<queueVars, current, nCalls, workerPc, isRunning, joinRequested,
                 ownerPc>>

Resume ==
  /\ ownerPc # "joining"
  /\ suspendRequested' = FALSE
  /\ lateStarts' = 0
  /\ UNCHANGED <<queueVars, current, nCalls, workerPc, isRunning, joinRequested,
                 ownerPc>>

\* join() and the destructor, unless the thread has been joined before.
Join ==
  /\ ownerPc = "free"
  /\ joinRequested' = TRUE
  /\ ownerPc' = "joining"
  /\ UNCHANGED <<queueVars, current, nCalls, workerPc, isRunning,
                 suspendRequested, lateStarts>>

AsyncJoinReturn ==
  /\ ownerPc = "joining" /\ workerPc = "end"
  /\ ownerPc' = "joined"
  /\ UNCHANGED <<queueVars, current, nCalls, workerPc, isRunning, flagVars,
                 lateStarts>>

AsyncStep ==
  \/ While \/ SetRunning \/ Sleep \/ Take \/ Preempt
  \/ AsyncWorkerReturn \/ PutOutput \/ UpdateStats

AsyncNext ==
  \/ AsyncStep
  \/ Feed \/ Collect \/ Suspend \/ Resume \/ Join \/ AsyncJoinReturn

AsyncSpec == AsyncInit /\ [][AsyncNext]_asyncVars

\* The worker thread is scheduled, worker() and the sleep return, a queue that
\* stays empty makes get() time out, and join() returns from an ended thread.
AsyncFairness == WF_asyncVars(AsyncStep) /\ WF_asyncVars(AsyncJoinReturn)
FairAsyncSpec == AsyncSpec /\ AsyncFairness

-----------------------------------------------------------------------------
(* Properties.                                                             *)

AsyncTypeOK ==
  /\ inQueue \in Seq(1..MaxInputs) /\ outQueue \in Seq(1..MaxInputs)
  /\ delivered \in Seq(1..MaxInputs)
  /\ fed \in 0..MaxInputs /\ current \in 0..MaxInputs /\ nCalls \in Nat
  /\ workerPc \in AsyncPcs
  /\ isRunning \in BOOLEAN /\ joinRequested \in BOOLEAN
  /\ suspendRequested \in BOOLEAN
  /\ ownerPc \in {"free", "joining", "joined"}
  /\ lateStarts \in Nat

\* The inputs the worker thread has taken.
taken == fed - Len(inQueue)
\* The outputs it has put.
produced == Len(delivered) + Len(outQueue)

\* An input is in worker() or on its way to the output queue.
inHand == IF workerPc \in {"worker", "put"} THEN 1 ELSE 0

IsRun(s, from) == \A k \in DOMAIN s : s[k] = from + k

\* "Each input element produces exactly one output element", in the order of
\* the inputs, whenever suspend(), resume() or join() are called: the outputs
\* so far belong to inputs 1, 2, ..., the inputs not taken follow without gap.
ExactlyOneOutput ==
  /\ IsRun(delivered, 0)
  /\ IsRun(outQueue, Len(delivered))
  /\ IsRun(inQueue, taken)
  /\ HasOutput => produced = taken - inHand

\* An input that has been taken is in worker() or on its way to the output;
\* in particular join() loses none.
NothingDropped == ownerPc = "joined" /\ HasOutput => produced = taken

\* When running() is FALSE worker() is not being executed and will not be
\* before resume().
NotRunningMeansQuiet ==
  ~isRunning => workerPc \in {"while", "state", "sleep", "end"}

\* After suspend() at most one more input is taken, that of a get() already
\* under way.
AtMostOneLate == lateStarts <= 1

\* What the owner is told by running(), and what suspend() promises, hold while
\* the worker thread reads the flags at one place and acts at another.
SuspendIsSafe == NotRunningMeansQuiet /\ AtMostOneLate

\* An input is taken sooner or later unless the worker is suspended or joined.
InputsProcessed ==
  \A n \in 1..MaxInputs :
    fed >= n ~> taken >= n \/ suspendRequested \/ joinRequested

\* suspend() takes effect unless it is taken back or the worker is joined, and
\* join() returns, suspended or not, with or without input.
OwnerServed ==
  /\ suspendRequested ~> ~isRunning \/ ~suspendRequested \/ joinRequested
  /\ ownerPc = "joining" ~> ownerPc = "joined"

\* Neither an input nor the owner waits for ever.
InputsServed == InputsProcessed /\ OwnerServed
=============================================================================
