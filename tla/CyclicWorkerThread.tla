------------------------- MODULE CyclicWorkerThread -------------------------
(***************************************************************************)
(* Sloppy::CyclicWorkerThread (CyclicWorkerThread.h/.cpp): a thread that   *)
(* calls worker() once per cycle and whose life cycle is driven by         *)
(* requests of controller threads.                                         *)
(*                                                                         *)
(* stateMutex is not a variable: the worker thread holds it exactly while  *)
(* wpc is in LockedPcs, and the locked body of every controller method is  *)
(* one step taken while the mutex is free.  The unlocked accesses of the   *)
(* code (the early test of isTransitionPending, the polling loop of        *)
(* waitForStateChange, the destructor's write of forceQuitThreadFromDtor)  *)
(* are steps of their own.                                                 *)
(***************************************************************************)
EXTENDS Integers

CONSTANTS Controllers,      \* threads that call the public methods
          WorkerCycle_ms    \* the constructor's minWorkerCycle_ms

ASSUME CycleAssumption == WorkerCycle_ms \in Int

VARIABLES
  curState, reqState,       \* current and requested CyclicWorkerThreadState
  isTransitionPending,      \* std::atomic<bool>
  forceQuitThreadFromDtor,  \* plain bool, written without the mutex
  isNewWorkerCycle,         \* local of mainLoop()
  elapsed,                  \* t.getTime__ms() >= workerCycle_ms in this cycle
  notified,                 \* cvState has been signalled during this wait
  wpc,                      \* where the worker thread is
  joinable,                 \* workerThread.joinable()
  cpc                       \* where each controller thread is

objVars == <<curState, reqState, isTransitionPending>>
workerVars == <<isNewWorkerCycle, elapsed, wpc>>
vars == <<curState, reqState, isTransitionPending, forceQuitThreadFromDtor,
          isNewWorkerCycle, elapsed, notified, wpc, joinable, cpc>>

StableStates == {"Initialized", "Running", "Suspended", "Finished"}
HookStates == {"Preparing", "Suspending", "Resuming", "Terminating"}
States == StableStates \cup HookStates

LockedPcs == {"loop", "sm1", "time", "sm2"}   \* worker thread owns stateMutex
HookPcs == {"hook1", "hook2"}                 \* inside a virtual on...() hook
WorkerPcs == LockedPcs \cup HookPcs
             \cup {"start", "worker", "wait", "done", "crashed"}

Requests == {"run", "pause", "resume"}
CallPcs == Requests \cup {"terminate", "terminateAndJoin"}  \* about to lock
ControllerPcs == CallPcs
    \cup {"idle", "waitForStateChange", "join", "dtorJoin", "destroyed"}

NoCycleTime == WorkerCycle_ms <= 0     \* remainTime is never positive
MutexFree == wpc \notin LockedPcs

Init ==
  /\ curState = "Initialized"
  /\ reqState = "Initialized"
  /\ isTransitionPending = FALSE
  /\ forceQuitThreadFromDtor = FALSE
  /\ isNewWorkerCycle = TRUE
  /\ elapsed = NoCycleTime
  /\ notified = FALSE
  /\ wpc = "start"
  /\ joinable = TRUE
  /\ cpc = [c \in Controllers |-> "idle"]

-----------------------------------------------------------------------------
(* The worker thread: mainLoop() and doStateMachine().                     *)

\* The thread has started and takes the mutex for the first time.
StartThread ==
  /\ wpc = "start"
  /\ wpc' = "loop"
  /\ UNCHANGED <<objVars, forceQuitThreadFromDtor, isNewWorkerCycle, elapsed,
                 notified, joinable, cpc>>

\* The loop condition, t.restart() and the decision to call worker(), for
\* which the mutex is released.
LoopHead ==
  /\ wpc = "loop"
  /\ wpc' = IF forceQuitThreadFromDtor \/ curState = "Finished" THEN "done"
            ELSE IF reqState = "Running" /\ isNewWorkerCycle THEN "worker"
            ELSE "sm1"
  /\ elapsed' = IF isNewWorkerCycle /\ wpc' # "done" THEN NoCycleTime
                ELSE elapsed
  /\ UNCHANGED <<objVars, forceQuitThreadFromDtor, isNewWorkerCycle, notified,
                 joinable, cpc>>

\* Slip: after worker() the state machine is left to the notifications.
WorkerReturnAwaitsNotify ==
  /\ wpc = "worker"
  /\ wpc' = IF forceQuitThreadFromDtor \/ curState = "Finished" THEN "done"
            ELSE "time"
  /\ UNCHANGED <<objVars, forceQuitThreadFromDtor, isNewWorkerCycle, elapsed,
                 notified, joinable, cpc>>

\* worker() returns, the mutex is taken again, the early exits are tested.
WorkerReturn ==
  /\ wpc = "worker"
  /\ wpc' = IF forceQuitThreadFromDtor \/ curState = "Finished" THEN "done"
            ELSE "sm1"
  /\ UNCHANGED <<objVars, forceQuitThreadFromDtor, isNewWorkerCycle, elapsed,
                 notified, joinable, cpc>>

\* Slip: the hook of a termination requested before the first run is onFirstRun.
HookStateByCurrent(cur, req) ==
  CASE cur = "Initialized"                   -> "Preparing"
    [] cur = "Running" /\ req = "Suspended"  -> "Suspending"
    [] cur = "Suspended" /\ req = "Running"  -> "Resuming"
    [] OTHER                                 -> "Terminating"

\* The state entered before the hook of a transition runs; "inconsistent" is
\* the std::runtime_error at the end of doStateMachine().
HookState(cur, req) ==
  CASE req = "Finished"                             -> "Terminating"
    [] cur = "Initialized" /\ req = "Running"       -> "Preparing"
    [] cur = "Running" /\ req = "Suspended"         -> "Suspending"
    [] cur = "Suspended" /\ req = "Running"         -> "Resuming"
    [] OTHER                                        -> "inconsistent"

\* Leaving doStateMachine(): the first call of an iteration is followed by
\* the computation of remainTime; the second one follows a wake-up that was
\* no timeout, which makes isNewWorkerCycle false.
LeaveStateMachine(first) ==
  IF first THEN wpc' = "time" /\ UNCHANGED isNewWorkerCycle
           ELSE wpc' = "loop" /\ isNewWorkerCycle' = FALSE

\* doStateMachine() up to the release of the mutex around the hook.
DoStateMachine ==
  /\ wpc \in {"sm1", "sm2"}
  /\ IF reqState = curState
     THEN LeaveStateMachine(wpc = "sm1") /\ UNCHANGED curState
     ELSE LET next == HookState(curState, reqState) IN
          /\ UNCHANGED isNewWorkerCycle
          /\ IF next = "inconsistent"
             THEN wpc' = "crashed" /\ UNCHANGED curState
             ELSE /\ wpc' = IF wpc = "sm1" THEN "hook1" ELSE "hook2"
                  /\ curState' = next
  /\ UNCHANGED <<reqState, isTransitionPending, forceQuitThreadFromDtor,
                 elapsed, notified, joinable, cpc>>

StateAfterHook(s) ==
  CASE s = "Terminating" -> "Finished"
    [] s = "Suspending"  -> "Suspended"
    [] OTHER             -> "Running"     \* Preparing and Resuming

\* The hook returns and the mutex is taken again; whatever was requested
\* while the hook ran, the transition is reported as complete.
HookReturn ==
  /\ wpc \in HookPcs
  /\ curState' = StateAfterHook(curState)
  /\ isTransitionPending' = FALSE
  /\ LeaveStateMachine(wpc = "hook1")
  /\ UNCHANGED <<reqState, forceQuitThreadFromDtor, elapsed, notified,
                 joinable, cpc>>

\* remainTime > 0: wait_for() on cvState, which releases the mutex.
BeginWait ==
  /\ wpc = "time" /\ ~elapsed
  /\ wpc' = "wait"
  /\ notified' = FALSE
  /\ UNCHANGED <<objVars, forceQuitThreadFromDtor, isNewWorkerCycle, elapsed,
                 joinable, cpc>>

\* remainTime <= 0: the next iteration starts without releasing the mutex.
SkipWait ==
  /\ wpc = "time" /\ elapsed
  /\ wpc' = "loop"
  /\ isNewWorkerCycle' = TRUE
  /\ UNCHANGED <<objVars, forceQuitThreadFromDtor, elapsed, notified,
                 joinable, cpc>>

\* wait_for() returns with the mutex held.  Its status is computed from the
\* clock after the mutex is re-acquired, so it is cv_status::timeout whenever
\* the deadline has passed, even after a notification.
WakeByTimeout ==
  /\ wpc = "wait" /\ elapsed
  /\ wpc' = "loop"
  /\ isNewWorkerCycle' = TRUE
  /\ UNCHANGED <<objVars, forceQuitThreadFromDtor, elapsed, notified,
                 joinable, cpc>>

WakeByNotify ==
  /\ wpc = "wait" /\ ~elapsed /\ notified
  /\ wpc' = "sm2"
  /\ UNCHANGED <<objVars, forceQuitThreadFromDtor, isNewWorkerCycle, elapsed,
                 notified, joinable, cpc>>

SpuriousWakeUp ==
  /\ wpc = "wait" /\ ~elapsed /\ ~notified
  /\ wpc' = "sm2"
  /\ UNCHANGED <<objVars, forceQuitThreadFromDtor, isNewWorkerCycle, elapsed,
                 notified, joinable, cpc>>

\* Time passes while the worker thread works or waits.  Between two releases of
\* the mutex it may stand still: a deadline missed there is a wait that times
\* out before any controller has taken the mutex.
Elapse ==
  /\ wpc \in HookPcs \cup {"worker", "wait"}
  /\ ~elapsed
  /\ elapsed' = TRUE
  /\ UNCHANGED <<objVars, forceQuitThreadFromDtor, isNewWorkerCycle, notified,
                 wpc, joinable, cpc>>

-----------------------------------------------------------------------------
(* The controller threads.                                                 *)

ObjectAlive == \A c \in Controllers : cpc[c] \notin {"dtorJoin", "destroyed"}
NobodyJoins == \A c \in Controllers : cpc[c] \notin {"terminateAndJoin", "join"}

Goto(c, pc) == cpc' = [cpc EXCEPT ![c] = pc]

\* run(), pause() and resume() test isTransitionPending before they lock the
\* mutex; a call that finds it set returns false and changes nothing.
CallRequest(c, op) ==
  /\ cpc[c] = "idle" /\ ObjectAlive
  /\ ~isTransitionPending
  /\ Goto(c, op)
  /\ UNCHANGED <<objVars, forceQuitThreadFromDtor, workerVars, notified,
                 joinable>>

CallTerminate(c) ==
  /\ cpc[c] = "idle" /\ ObjectAlive
  /\ Goto(c, "terminate")
  /\ UNCHANGED <<objVars, forceQuitThreadFromDtor, workerVars, notified,
                 joinable>>

\* Two concurrent joins of one std::thread are outside the class's contract.
CallTerminateAndJoin(c) ==
  /\ cpc[c] = "idle" /\ ObjectAlive /\ NobodyJoins
  /\ joinable
  /\ Goto(c, "terminateAndJoin")
  /\ UNCHANGED <<objVars, forceQuitThreadFromDtor, workerVars, notified,
                 joinable>>

\* reqState := target, isTransitionPending := true, cvState.notify_one().
Request(target) ==
  /\ reqState' = target
  /\ isTransitionPending' = TRUE
  /\ notified' = (notified \/ wpc = "wait")
  /\ UNCHANGED curState

\* Slip: only the target state is refused.
AcceptedInAllOthers(op) ==
  States \ {IF op = "pause" THEN "Suspended" ELSE "Running"}

\* The states from which each request is accepted.
AcceptedIn(op) == CASE op = "run"    -> {"Initialized", "Suspended"}
                    [] op = "pause"  -> {"Running"}
                    [] op = "resume" -> {"Suspended"}

\* Slip: pause() asks for the transitional state.
TargetOfTransitional(op) == IF op = "pause" THEN "Suspending" ELSE "Running"
TargetOf(op) == IF op = "pause" THEN "Suspended" ELSE "Running"

\* The part of run(), pause() and resume() under the lock: a call in the
\* target state or in a state the request is invalid in changes nothing.
RequestBody(c) ==
  /\ cpc[c] \in Requests /\ MutexFree
  /\ IF curState \in AcceptedIn(cpc[c])
     THEN Request(TargetOf(cpc[c]))
     ELSE UNCHANGED <<objVars, notified>>
  /\ Goto(c, "idle")
  /\ UNCHANGED <<forceQuitThreadFromDtor, workerVars, joinable>>

\* terminate(), also as the first half of terminateAndJoin().
TerminateBody(c) ==
  /\ cpc[c] \in {"terminate", "terminateAndJoin"} /\ MutexFree
  /\ IF curState = "Finished"
     THEN UNCHANGED <<objVars, notified>>
     ELSE Request("Finished")
  /\ Goto(c, IF cpc[c] = "terminate" THEN "idle" ELSE "join")
  /\ UNCHANGED <<forceQuitThreadFromDtor, workerVars, joinable>>

\* waitForStateChange(): polls the atomic flag without the mutex.
CallWait(c) ==
  /\ cpc[c] = "idle" /\ ObjectAlive
  /\ Goto(c, "waitForStateChange")
  /\ UNCHANGED <<objVars, forceQuitThreadFromDtor, workerVars, notified,
                 joinable>>

WaitReturn(c) ==
  /\ cpc[c] = "waitForStateChange"
  /\ ~isTransitionPending
  /\ Goto(c, "idle")
  /\ UNCHANGED <<objVars, forceQuitThreadFromDtor, workerVars, notified,
                 joinable>>

\* The destructor runs when no other call on the object is in progress.
Dtor(c) ==
  /\ \A d \in Controllers : cpc[d] = "idle"
  /\ IF joinable
     THEN forceQuitThreadFromDtor' = TRUE /\ Goto(c, "dtorJoin")
     ELSE UNCHANGED forceQuitThreadFromDtor /\ Goto(c, "destroyed")
  /\ UNCHANGED <<objVars, workerVars, notified, joinable>>

JoinReturn(c) ==
  /\ cpc[c] \in {"join", "dtorJoin"}
  /\ wpc = "done"
  /\ joinable' = FALSE
  /\ Goto(c, IF cpc[c] = "join" THEN "idle" ELSE "destroyed")
  /\ UNCHANGED <<objVars, forceQuitThreadFromDtor, workerVars, notified>>

\* The program is over once the object is gone.
Terminated ==
  /\ \E c \in Controllers : cpc[c] = "destroyed"
  /\ UNCHANGED vars

-----------------------------------------------------------------------------
WorkerStep ==
  \/ StartThread \/ LoopHead \/ WorkerReturn \/ DoStateMachine \/ HookReturn
  \/ BeginWait \/ SkipWait \/ WakeByTimeout \/ WakeByNotify

LockedBody(c) == RequestBody(c) \/ TerminateBody(c)

ControllerStep(c) ==
  \/ \E op \in Requests : CallRequest(c, op)
  \/ CallTerminate(c) \/ CallTerminateAndJoin(c) \/ CallWait(c) \/ Dtor(c)
  \/ LockedBody(c) \/ WaitReturn(c) \/ JoinReturn(c)

Next ==
  \/ WorkerStep \/ SpuriousWakeUp \/ Elapse
  \/ \E c \in Controllers : ControllerStep(c)
  \/ Terminated

Spec == Init /\ [][Next]_vars

(* The worker thread is scheduled, hooks and worker() return, time passes, *)
(* and a started call is continued.  A lock of stateMutex is obtained if   *)
(* the mutex is free again and again (strong fairness); nobody is forced   *)
(* to call a method, and no wake-up is forced to be spurious.              *)
CallFairness ==
  /\ WF_vars(Elapse)
  /\ \A c \in Controllers :
       SF_vars(LockedBody(c)) /\ WF_vars(WaitReturn(c)) /\ WF_vars(JoinReturn(c))

Fairness == WF_vars(WorkerStep) /\ CallFairness
FairSpec == Spec /\ Fairness

-----------------------------------------------------------------------------
(* Properties.                                                             *)

TypeOK ==
  /\ curState \in States
  /\ reqState \in StableStates
  /\ wpc \in WorkerPcs
  /\ cpc \in [Controllers -> ControllerPcs]
  /\ isTransitionPending \in BOOLEAN /\ forceQuitThreadFromDtor \in BOOLEAN
  /\ isNewWorkerCycle \in BOOLEAN /\ elapsed \in BOOLEAN
  /\ notified \in BOOLEAN /\ joinable \in BOOLEAN

\* The exception at the end of doStateMachine() ("we should never reach this
\* point") is never thrown, however the requests of several controllers
\* interleave with their early, unlocked tests of isTransitionPending.
NoInconsistency == wpc # "crashed"

\* A cleared isTransitionPending means that nothing is outstanding, except a
\* termination that was requested while a hook was running.
PendingSettled ==
  ~isTransitionPending => reqState \in {curState, "Finished"}

\* worker() runs in state Running, or ahead of a pending transition to it:
\* never during or after a termination, and never during another hook.
WorkerGate ==
  wpc = "worker" =>
    \/ curState = "Running"
    \/ curState \in {"Initialized", "Suspended"} /\ isTransitionPending

\* The thread ends only after onTerminate() has been called, unless the
\* destructor forced it to end: terminateAndJoin() returns in state Finished.
EndsFinished == wpc = "done" => curState = "Finished" \/ forceQuitThreadFromDtor

\* The two threads agree on the state: however the unlocked tests of several
\* controllers, the hooks and the wake-ups interleave, the state machine finds
\* a transition for every request, worker() runs only if it was asked for, and
\* the thread ends only after onTerminate().
StateMachineSafe ==
  NoInconsistency /\ PendingSettled /\ WorkerGate /\ EndsFinished

\* Once onTerminate() has been called it is not called again, and neither
\* worker() nor another hook is called any more.
TerminationIsFinal ==
  [][(curState \in {"Terminating", "Finished"}) =>
       curState' \in {curState, "Finished"} /\ wpc' # "worker"]_vars

\* A call that waits for the mutex obtains it: run() and terminate() return.
LocksObtained ==
  \A c \in Controllers : cpc[c] \in CallPcs ~> cpc[c] \notin CallPcs

\* waitForStateChange() polls for ever only if other controllers go on asking
\* for further transitions.
WaitReturns ==
  \A c \in Controllers :
    cpc[c] = "waitForStateChange" ~>
      \/ cpc[c] = "idle"
      \/ \E d \in Controllers \ {c} : cpc[d] \in CallPcs

\* The join() of the destructor returns, and so does that of
\* terminateAndJoin() unless another controller replaces the request for
\* termination by its own.
JoinsReturn ==
  \A c \in Controllers :
    /\ cpc[c] = "dtorJoin" ~> cpc[c] # "dtorJoin"
    /\ cpc[c] = "join" ~> cpc[c] # "join" \/ reqState # "Finished"

\* Every call returns, whatever the worker thread is doing and whatever other
\* controllers call.
CallsReturn == LocksObtained /\ WaitReturns /\ JoinsReturn

\* An accepted request that no later request replaces is carried out, unless
\* the destructor stops the thread.
RequestsServed ==
  \A s \in StableStates :
    reqState = s ~> curState = s \/ reqState # s \/ forceQuitThreadFromDtor

\* Nothing waits for ever: neither a caller for its call nor a request for
\* being carried out.
Served == CallsReturn /\ RequestsServed

\* run(): "the onFirstRun() [or onResume()] hook is executed and immediately
\* afterwards the worker is called"; state Suspended: "execution of the worker is
\* currently suspended".  The code does not keep this: mainLoop() calls worker()
\* as soon as Running is requested, and the hook when worker() has returned.
HookBeforeWorker == wpc = "worker" => curState = "Running"

\* "A request for termination will always succeed, regardless of the current
\* state": a terminate() that has returned leads to Finished.
TerminateSucceeds ==
  reqState = "Finished" ~> curState = "Finished" \/ forceQuitThreadFromDtor

\* The documented life cycle, see WorkerLifecycle, is kept by all hooks, by every
\* change of the state and by every execution of worker() in state Running.  The
\* executions ahead of the hook, which HookBeforeWorker is about and no documented
\* life cycle has, are not executions in this sense.
Lifecycle == INSTANCE WorkerLifecycle WITH
  st <- curState, target <- reqState,
  working <- wpc = "worker" /\ curState = "Running",
  alive <- wpc # "done"
LifecycleSafety == Lifecycle!Spec
=============================================================================
