---------------------- MODULE CyclicWorkerThread_proofs ----------------------
(***************************************************************************)
(* Theorems about CyclicWorkerThread for any set of controllers and any    *)
(* cycle time.  The inductive invariant IInv adds to the checked           *)
(* properties which requests can be outstanding in which state, and that   *)
(* the state is a transitional one exactly while a hook runs.              *)
(***************************************************************************)
EXTENDS CyclicWorkerThread, TLAPS

\* The requests that can be outstanding in state s.
Outstanding(s) ==
  CASE s = "Initialized" -> {"Initialized", "Running", "Finished"}
    [] s = "Running"     -> {"Running", "Suspended", "Finished"}
    [] s = "Suspended"   -> {"Running", "Suspended", "Finished"}
    [] s = "Preparing"   -> {"Running", "Finished"}
    [] s = "Resuming"    -> {"Running", "Finished"}
    [] s = "Suspending"  -> {"Suspended", "Finished"}
    [] OTHER             -> {"Finished"}

HookInv == curState \in HookStates <=> wpc \in HookPcs

RequestInv == reqState \in Outstanding(curState)

IInv ==
  /\ TypeOK
  /\ RequestInv /\ HookInv /\ PendingSettled
  /\ NoInconsistency /\ WorkerGate /\ EndsFinished

-----------------------------------------------------------------------------
\* Type correctness.
LEMMA HookStateType ==
  ASSUME NEW cur, NEW req
  PROVE  HookState(cur, req) \in HookStates \cup {"inconsistent"}
BY DEF HookState, HookStates

LEMMA NoCycleTimeType == NoCycleTime \in BOOLEAN
BY DEF NoCycleTime

LEMMA TypeStep == TypeOK /\ [Next]_vars => TypeOK'
<1> SUFFICES ASSUME TypeOK, [Next]_vars PROVE TypeOK'
  OBVIOUS
<1> USE DEF TypeOK, States, StableStates, HookStates, WorkerPcs, LockedPcs,
            HookPcs, ControllerPcs, CallPcs, Requests
<1>1. CASE StartThread
  BY <1>1 DEF StartThread, objVars
<1>2. CASE LoopHead
  <2>1. elapsed' \in BOOLEAN
    BY <1>2, NoCycleTimeType, Zenon DEF LoopHead
  <2> QED
    BY <1>2, <2>1 DEF LoopHead, objVars
<1>3. CASE WorkerReturn
  BY <1>3 DEF WorkerReturn, objVars
<1>4. CASE DoStateMachine
  <2>1. curState' \in States
    BY <1>4, HookStateType DEF DoStateMachine
  <2>2. wpc' \in WorkerPcs
    BY <1>4 DEF DoStateMachine, LeaveStateMachine
  <2>3. isNewWorkerCycle' \in BOOLEAN
    BY <1>4, Zenon DEF DoStateMachine, LeaveStateMachine
  <2> QED
    BY <1>4, <2>1, <2>2, <2>3 DEF DoStateMachine
<1>5. CASE HookReturn
  BY <1>5 DEF HookReturn, LeaveStateMachine, StateAfterHook
<1>6. CASE BeginWait \/ SkipWait \/ WakeByTimeout
  <2>1. CASE BeginWait
    BY <2>1 DEF BeginWait, objVars
  <2>2. CASE SkipWait
    BY <2>2 DEF SkipWait, objVars
  <2>3. CASE WakeByTimeout
    BY <2>3 DEF WakeByTimeout, objVars
  <2> QED
    BY <1>6, <2>1, <2>2, <2>3
<1>7. CASE WakeByNotify \/ SpuriousWakeUp \/ Elapse
  <2>1. CASE WakeByNotify
    BY <2>1 DEF WakeByNotify, objVars
  <2>2. CASE SpuriousWakeUp
    BY <2>2 DEF SpuriousWakeUp, objVars
  <2>3. CASE Elapse
    BY <2>3 DEF Elapse, objVars
  <2> QED
    BY <1>7, <2>1, <2>2, <2>3
<1>8. ASSUME NEW c \in Controllers, ControllerStep(c) PROVE TypeOK'
  <2>1. CASE \E op \in Requests : CallRequest(c, op)
    BY <2>1 DEF CallRequest, Goto, objVars, workerVars
  <2>2. CASE CallTerminate(c) \/ CallTerminateAndJoin(c) \/ CallWait(c)
    BY <2>2 DEF CallTerminate, CallTerminateAndJoin, CallWait, Goto, objVars,
                workerVars
  <2>3. CASE Dtor(c)
    <3>1. forceQuitThreadFromDtor' \in BOOLEAN
      BY <2>3, Zenon DEF Dtor
    <3>2. cpc' \in [Controllers -> ControllerPcs]
      BY <2>3 DEF Dtor, Goto
    <3> QED
      BY <2>3, <3>1, <3>2 DEF Dtor, objVars, workerVars
  <2>4. ASSUME NEW target \in StableStates, Request(target)
        PROVE  /\ curState' \in States /\ reqState' \in StableStates
               /\ isTransitionPending' \in BOOLEAN /\ notified' \in BOOLEAN
    <3>1. notified' \in BOOLEAN
      BY <2>4, Zenon DEF Request
    <3> QED
      BY <2>4, <3>1 DEF Request
  <2>5. CASE RequestBody(c)
    <3>1. TargetOf(cpc[c]) \in StableStates
      BY DEF TargetOf
    <3>2. /\ curState' \in States /\ reqState' \in StableStates
          /\ isTransitionPending' \in BOOLEAN /\ notified' \in BOOLEAN
      BY <2>4, <2>5, <3>1 DEF RequestBody, objVars
    <3> QED
      BY <2>5, <3>2 DEF RequestBody, Goto, workerVars
  <2>6. CASE TerminateBody(c)
    <3>1. /\ curState' \in States /\ reqState' \in StableStates
          /\ isTransitionPending' \in BOOLEAN /\ notified' \in BOOLEAN
      BY <2>4, <2>6 DEF TerminateBody, objVars
    <3> QED
      BY <2>6, <3>1 DEF TerminateBody, Goto, workerVars
  <2>7. CASE WaitReturn(c)
    BY <2>7 DEF WaitReturn, Goto, objVars, workerVars
  <2>8. CASE JoinReturn(c)
    BY <2>8 DEF JoinReturn, Goto, objVars, workerVars
  <2> QED
    BY <1>8, <2>1, <2>2, <2>3, <2>5, <2>6, <2>7, <2>8
       DEF ControllerStep, LockedBody
<1>9. CASE Terminated \/ UNCHANGED vars
  BY <1>9 DEF Terminated, vars
<1> HIDE DEF TypeOK
<1> QED
  BY <1>1, <1>2, <1>3, <1>4, <1>5, <1>6, <1>7, <1>8, <1>9
     DEF Next, WorkerStep

\* Every reachable state is type correct.
THEOREM TypeCorrect == Spec => []TypeOK
<1>1. Init => TypeOK
  <2>1. Init => elapsed \in BOOLEAN
    BY NoCycleTimeType DEF Init
  <2> QED
    BY <2>1 DEF Init, TypeOK, States, StableStates, WorkerPcs, ControllerPcs
<1> QED
  BY <1>1, TypeStep, PTL DEF Spec

-----------------------------------------------------------------------------
\* The inductive invariant.
LEMMA InvInit == Init => IInv
<1> SUFFICES ASSUME Init PROVE IInv
  OBVIOUS
<1>1. TypeOK
  BY NoCycleTimeType DEF Init, TypeOK, States, StableStates, WorkerPcs,
                         ControllerPcs
<1> QED
  BY <1>1 DEF Init, IInv, RequestInv, Outstanding, HookInv, HookStates, HookPcs,
              PendingSettled, NoInconsistency, WorkerGate, EndsFinished

\* A request that run(), pause(), resume() or terminate() stores is one that
\* can be outstanding, so it disturbs no part of the invariant.
LEMMA RequestStep ==
  ASSUME IInv, NEW target, Request(target),
         target \in Outstanding(curState),
         UNCHANGED <<forceQuitThreadFromDtor, workerVars, joinable>>
  PROVE  /\ RequestInv' /\ HookInv' /\ PendingSettled'
         /\ NoInconsistency' /\ WorkerGate' /\ EndsFinished'
BY DEF Request, IInv, RequestInv, Outstanding, HookInv, PendingSettled,
       NoInconsistency, WorkerGate, EndsFinished, workerVars

\* doStateMachine() finds a transition for every outstanding request.
LEMMA HookFound ==
  ASSUME NEW cur \in StableStates, NEW req \in Outstanding(cur), req # cur
  PROVE  /\ HookState(cur, req) \in HookStates
         /\ req \in Outstanding(HookState(cur, req))
         /\ HookState(cur, req) = "Terminating" => req = "Finished"
BY DEF StableStates, Outstanding, HookState, HookStates

LEMMA InvStep == IInv /\ [Next]_vars => IInv'
<1> SUFFICES ASSUME IInv, [Next]_vars PROVE IInv'
  OBVIOUS
<1>0. TypeOK /\ TypeOK'
  BY TypeStep DEF IInv
<1> DEFINE Rest == /\ RequestInv /\ HookInv /\ PendingSettled
                   /\ NoInconsistency /\ WorkerGate /\ EndsFinished
<1> USE DEF IInv, RequestInv, HookInv, PendingSettled, NoInconsistency,
            WorkerGate, EndsFinished
<1> SUFFICES Rest'
  BY <1>0
<1>1. CASE StartThread
  BY <1>1 DEF StartThread, objVars, HookPcs
<1>2. CASE LoopHead
  BY <1>0, <1>2 DEF LoopHead, objVars, HookPcs, TypeOK, States, StableStates,
                    Outstanding
<1>3. CASE WorkerReturn
  BY <1>3 DEF WorkerReturn, objVars, HookPcs
<1>4. CASE DoStateMachine
  <2>1. CASE reqState = curState
    BY <1>4, <2>1 DEF DoStateMachine, LeaveStateMachine, HookPcs
  <2>2. CASE reqState # curState
    <3>1. curState \in StableStates
      BY <1>0, <1>4 DEF DoStateMachine, TypeOK, States, HookPcs
    <3> DEFINE next == HookState(curState, reqState)
    <3>2. /\ next \in HookStates
          /\ reqState \in Outstanding(next)
          /\ next = "Terminating" => reqState = "Finished"
      BY <2>2, <3>1, HookFound
    <3>3. next # "inconsistent"
      BY <3>2 DEF HookStates
    <3>4. /\ curState' = next /\ wpc' \in HookPcs
          /\ UNCHANGED <<reqState, isTransitionPending>>
      BY <1>4, <2>2, <3>3 DEF DoStateMachine, HookPcs
    <3>5. PendingSettled'
      BY <2>2, <3>4
    <3> QED
      BY <3>2, <3>4, <3>5 DEF HookPcs
  <2> QED
    BY <2>1, <2>2
<1>5. CASE HookReturn
  BY <1>0, <1>5 DEF HookReturn, LeaveStateMachine, StateAfterHook, HookStates,
                    HookPcs, Outstanding
<1>6. CASE BeginWait \/ SkipWait \/ WakeByTimeout \/ WakeByNotify
           \/ SpuriousWakeUp \/ Elapse
  BY <1>6 DEF BeginWait, SkipWait, WakeByTimeout, WakeByNotify,
              SpuriousWakeUp, Elapse, objVars, HookPcs
<1>7. ASSUME NEW c \in Controllers, ControllerStep(c) PROVE Rest'
  <2>1. CASE \/ \E op \in Requests : CallRequest(c, op)
             \/ CallTerminate(c) \/ CallTerminateAndJoin(c) \/ CallWait(c)
             \/ WaitReturn(c) \/ JoinReturn(c)
    BY <2>1 DEF CallRequest, CallTerminate, CallTerminateAndJoin, CallWait,
                WaitReturn, JoinReturn, objVars, workerVars
  <2>2. CASE Dtor(c)
    BY <2>2 DEF Dtor, objVars, workerVars
  <2>3. CASE RequestBody(c)
    <3>1. CASE curState \in AcceptedIn(cpc[c])
      <4>1. TargetOf(cpc[c]) \in Outstanding(curState)
        BY <2>3, <3>1 DEF RequestBody, Requests, AcceptedIn, TargetOf,
                          Outstanding
      <4> QED
        BY <2>3, <3>1, <4>1, RequestStep DEF RequestBody
    <3>2. CASE curState \notin AcceptedIn(cpc[c])
      BY <2>3, <3>2 DEF RequestBody, objVars, workerVars
    <3> QED
      BY <3>1, <3>2
  <2>4. CASE TerminateBody(c)
    <3>1. CASE curState = "Finished"
      BY <2>4, <3>1 DEF TerminateBody, objVars, workerVars
    <3>2. CASE curState # "Finished"
      <4>1. "Finished" \in Outstanding(curState)
        BY DEF Outstanding
      <4> QED
        BY <2>4, <3>2, <4>1, RequestStep DEF TerminateBody
    <3> QED
      BY <3>1, <3>2
  <2> QED
    BY <1>7, <2>1, <2>2, <2>3, <2>4 DEF ControllerStep, LockedBody
<1>8. CASE Terminated \/ UNCHANGED vars
  BY <1>8 DEF Terminated, vars
<1> QED
  BY <1>1, <1>2, <1>3, <1>4, <1>5, <1>6, <1>7, <1>8 DEF Next, WorkerStep

\* The inductive invariant holds in every reachable state.
THEOREM Invariant == Spec => []IInv
BY InvInit, InvStep, PTL DEF Spec

\* doStateMachine() never throws, for any number of controllers.
THEOREM NeverInconsistent == Spec => []NoInconsistency
<1>1. IInv => NoInconsistency
  BY DEF IInv
<1> QED
  BY <1>1, Invariant, PTL

\* Without a pending transition nothing but a termination is outstanding.
THEOREM SettledWithoutPending == Spec => []PendingSettled
<1>1. IInv => PendingSettled
  BY DEF IInv
<1> QED
  BY <1>1, Invariant, PTL

\* worker() runs only in Running or ahead of a transition to it.
THEOREM WorkerOnlyWhenAsked == Spec => []WorkerGate
<1>1. IInv => WorkerGate
  BY DEF IInv
<1> QED
  BY <1>1, Invariant, PTL

\* The thread never ends without onTerminate() unless the destructor forces it.
THEOREM EndsAfterOnTerminate == Spec => []EndsFinished
<1>1. IInv => EndsFinished
  BY DEF IInv
<1> QED
  BY <1>1, Invariant, PTL

-----------------------------------------------------------------------------
\* onTerminate() is the last thing the thread calls.
LEMMA FinalStep ==
  ASSUME IInv, [Next]_vars, curState \in {"Terminating", "Finished"}
  PROVE  curState' \in {curState, "Finished"} /\ wpc' # "worker"
<1>1. reqState = "Finished" /\ wpc # "worker"
  BY DEF IInv, RequestInv, Outstanding, WorkerGate
<1>2. CASE WorkerStep
  <2>1. CASE DoStateMachine
    <3>1. curState = "Finished"
      BY <2>1 DEF DoStateMachine, IInv, HookInv, HookPcs, HookStates
    <3> QED
      BY <1>1, <2>1, <3>1 DEF DoStateMachine, LeaveStateMachine
  <2>2. CASE HookReturn
    BY <2>2 DEF HookReturn, StateAfterHook, LeaveStateMachine, IInv, HookInv,
                HookStates
  <2> QED
    BY <1>1, <1>2, <2>1, <2>2
       DEF WorkerStep, StartThread, LoopHead, WorkerReturn, BeginWait,
           SkipWait, WakeByTimeout, WakeByNotify, objVars
<1>3. CASE SpuriousWakeUp \/ Elapse \/ Terminated \/ UNCHANGED vars
  BY <1>1, <1>3 DEF SpuriousWakeUp, Elapse, Terminated, vars, objVars
<1>4. ASSUME NEW c \in Controllers, ControllerStep(c)
      PROVE  UNCHANGED <<curState, wpc>>
  BY <1>4 DEF ControllerStep, CallRequest, CallTerminate, CallTerminateAndJoin,
              CallWait, Dtor, LockedBody, RequestBody, TerminateBody, Request,
              WaitReturn, JoinReturn, objVars, workerVars
<1> QED
  BY <1>1, <1>2, <1>3, <1>4 DEF Next

\* Once Terminating, the state moves on to Finished only, and worker() is not
\* called again.
THEOREM TerminatesForGood == Spec => TerminationIsFinal
<1>1. IInv /\ [Next]_vars =>
        [(curState \in {"Terminating", "Finished"}) =>
           curState' \in {curState, "Finished"} /\ wpc' # "worker"]_vars
  BY FinalStep
<1> QED
  BY <1>1, Invariant, PTL DEF Spec, TerminationIsFinal

-----------------------------------------------------------------------------
\* Refinement: every step is a step of the life cycle or leaves it unchanged.
LEMMA LifecycleStep ==
  ASSUME IInv, [Next]_vars
  PROVE  [Lifecycle!Next]_(Lifecycle!vars)
<1> USE DEF Lifecycle!Next, Lifecycle!vars, Lifecycle!Stable
<1>1. CASE StartThread \/ BeginWait \/ SkipWait \/ WakeByTimeout
           \/ WakeByNotify \/ SpuriousWakeUp \/ Elapse
  BY <1>1 DEF StartThread, BeginWait, SkipWait, WakeByTimeout, WakeByNotify,
              SpuriousWakeUp, Elapse, objVars
<1>2. CASE LoopHead
  <2>0. curState \in StableStates
    BY <1>2 DEF LoopHead, IInv, HookInv, HookPcs, TypeOK, States
  <2>1. CASE forceQuitThreadFromDtor \/ curState = "Finished"
    BY <1>2, <2>0, <2>1 DEF LoopHead, objVars, Lifecycle!End, StableStates
  <2>2. CASE ~forceQuitThreadFromDtor /\ curState # "Finished"
    <3>1. CASE curState = "Running"
      BY <1>2, <2>2, <3>1 DEF LoopHead, objVars, Lifecycle!StartWork
    <3>2. CASE curState # "Running"
      BY <1>2, <2>2, <3>2 DEF LoopHead, objVars
    <3> QED
      BY <3>1, <3>2
  <2> QED
    BY <2>1, <2>2
<1>3. CASE WorkerReturn
  <2>1. CASE curState = "Running"
    BY <1>3, <2>1 DEF WorkerReturn, objVars, Lifecycle!EndWork
  <2>2. CASE curState # "Running"
    \* an execution of worker() ahead of the hook is over
    BY <1>3, <2>2 DEF WorkerReturn, objVars, Lifecycle!End, IInv, WorkerGate
  <2> QED
    BY <2>1, <2>2
<1>4. CASE DoStateMachine
  <2>1. CASE reqState = curState
    BY <1>4, <2>1 DEF DoStateMachine, LeaveStateMachine
  <2>2. CASE reqState # curState
    <3>1. curState \in StableStates /\ reqState \in Outstanding(curState)
      BY <1>4 DEF DoStateMachine, IInv, RequestInv, HookInv, HookPcs, TypeOK,
                  States
    <3>2. HookState(curState, reqState) # "inconsistent"
      BY <2>2, <3>1, HookFound DEF HookStates
    <3>3. /\ curState' = HookState(curState, reqState)
          /\ reqState' = reqState
          /\ wpc \in {"sm1", "sm2"} /\ wpc' \in HookPcs
      BY <1>4, <2>2, <3>2 DEF DoStateMachine, HookPcs
    <3>4. Lifecycle!BeginTransition
      BY <2>2, <3>1, <3>3 DEF HookState, Outstanding, StableStates, HookPcs,
           Lifecycle!BeginTransition, Lifecycle!Begin
    <3> QED
      BY <3>4
  <2> QED
    BY <2>1, <2>2
<1>5. CASE HookReturn
  BY <1>5 DEF HookReturn, StateAfterHook, LeaveStateMachine, IInv, HookInv,
              HookPcs, HookStates, Lifecycle!CompleteTransition,
              Lifecycle!Complete
<1>6. ASSUME NEW c \in Controllers, ControllerStep(c)
      PROVE  [Lifecycle!Next]_(Lifecycle!vars)
  <2>1. CASE RequestBody(c)
    BY <2>1 DEF RequestBody, Requests, AcceptedIn, TargetOf, Request, objVars,
                workerVars, Lifecycle!Ask
  <2>2. CASE TerminateBody(c)
    BY <2>2 DEF TerminateBody, Request, objVars, workerVars, Lifecycle!Ask
  <2>3. CASE ~LockedBody(c)
    BY <1>6, <2>3 DEF ControllerStep, CallRequest, CallTerminate,
      CallTerminateAndJoin, CallWait, Dtor, WaitReturn, JoinReturn, objVars,
      workerVars
  <2> QED
    BY <2>1, <2>2, <2>3 DEF LockedBody
<1>7. CASE Terminated \/ UNCHANGED vars
  BY <1>7 DEF Terminated, vars
<1> QED
  BY <1>1, <1>2, <1>3, <1>4, <1>5, <1>6, <1>7 DEF Next, WorkerStep

\* CyclicWorkerThread implements the life cycle its header documents, but for
\* the executions of worker() ahead of a hook (HookBeforeWorker): states, hooks,
\* requests and the executions of worker() in state Running follow it.
THEOREM ImplementsLifecycle == Spec => LifecycleSafety
<1>1. Init => Lifecycle!Init
  BY DEF Init, Lifecycle!Init
<1>2. IInv /\ [Next]_vars => [Lifecycle!Next]_(Lifecycle!vars)
  BY LifecycleStep
<1> QED
  BY <1>1, <1>2, Invariant, PTL DEF Spec, LifecycleSafety, Lifecycle!Spec

\* The state machine is sound for any number of controllers and any cycle time:
\* it cannot reach its exception, run the worker unasked or end unannounced.
THEOREM StateMachineIsSafe == Spec => []StateMachineSafe
<1>1. NoInconsistency /\ PendingSettled /\ WorkerGate /\ EndsFinished
        => StateMachineSafe
  BY DEF StateMachineSafe
<1> QED
  BY <1>1, NeverInconsistent, SettledWithoutPending, WorkerOnlyWhenAsked,
     EndsAfterOnTerminate, PTL
=============================================================================
