--------------------- MODULE ThreadSafeQueuePipe_proofs ---------------------
(***************************************************************************)
(* Theorems about ThreadSafeQueuePipe for any finite set of writers, any   *)
(* capacity of the pipe and any number of elements.                        *)
(***************************************************************************)
EXTENDS ThreadSafeQueuePipe, TLAPS

LEMMA TailOfQueue ==
  ASSUME queue \in Seq(Elements), queue # <<>>
  PROVE  /\ Head(queue) \in Elements /\ Tail(queue) \in Seq(Elements)
         /\ Len(Tail(queue)) = Len(queue) - 1
OBVIOUS

\* At most the owner of the mutex is between its push and its token.
OwnerInv ==
  /\ owner # Free => writerPc[owner] = "write" /\ queue # <<>>
  /\ \A w \in Writers : writerPc[w] = "write" => owner = w

\* The part of the queue that holds with clear() and signals, too.
BaseInv == TypeOK /\ OwnerInv /\ NoElementUnannounced /\ ReadNeverBlocks

LEMMA BaseStep == BaseInv /\ [Next]_vars => BaseInv'
<1> SUFFICES ASSUME BaseInv, [Next]_vars PROVE BaseInv'
  OBVIOUS
<1> USE PipeAssumption
    DEF BaseInv, TypeOK, OwnerInv, NoElementUnannounced, Announced,
        ReadNeverBlocks, ReaderPcs, Modes, Free
<1>1. ASSUME NEW w \in Writers, CallPut(w) PROVE BaseInv'
  BY <1>1 DEF CallPut
<1>2. ASSUME NEW w \in Writers, Push(w) PROVE BaseInv'
  BY <1>2 DEF Push
<1>3. ASSUME NEW w \in Writers, Notify(w) \/ NotifyFails(w) PROVE BaseInv'
  <2>1. owner = w /\ w # "free"
    BY <1>3 DEF Notify, NotifyFails
  <2>2. CASE Notify(w)
    BY <2>1, <2>2 DEF Notify
  <2>3. CASE NotifyFails(w)
    BY <2>1, <2>3 DEF NotifyFails
  <2> QED
    BY <1>3, <2>2, <2>3
<1>4. CASE Clear \/ CallQuery \/ QueryReturn \/ \E m \in Modes : CallGet(m)
  <2>1. CASE Clear
    BY <2>1 DEF Clear
  <2>2. CASE CallQuery \/ QueryReturn
    BY <2>2 DEF CallQuery, QueryReturn
  <2>3. ASSUME NEW m \in Modes, CallGet(m) PROVE BaseInv'
    <3>1. timeUp' \in BOOLEAN
      BY <2>3, Zenon DEF CallGet
    <3> QED
      BY <2>3, <3>1 DEF CallGet
  <2> QED
    BY <1>4, <2>1, <2>2, <2>3
<1>5. CASE Expire
  BY <1>5 DEF Expire
<1>6. CASE Epoll \/ Interrupt
  BY <1>6 DEF Epoll, Interrupt, NoData
<1>7. CASE ReadToken
  BY <1>7 DEF ReadToken
<1>8. CASE Pop
  <2>1. CASE queue = <<>>
    BY <1>8, <2>1 DEF Pop
  <2>2. CASE queue # <<>>
    <3>1. /\ Head(queue) \in Elements /\ Tail(queue) \in Seq(Elements)
          /\ Len(Tail(queue)) = Len(queue) - 1
      BY <2>2, TailOfQueue
    <3> QED
      BY <1>8, <2>2, <3>1 DEF Pop
  <2> QED
    BY <2>1, <2>2
<1>9. CASE UNCHANGED vars
  BY <1>9 DEF vars
<1> QED
  BY <1>1, <1>2, <1>3, <1>4, <1>5, <1>6, <1>7, <1>8, <1>9 DEF Next, Get

LEMMA BaseInit == Init => BaseInv
<1> SUFFICES ASSUME Init PROVE BaseInv
  OBVIOUS
<1>1. TypeOK
  <2>1. tokens \in 0..Capacity /\ queue \in Seq(Elements)
    BY PipeAssumption DEF Init
  <2>2. writerPc \in [Writers -> {"idle", "lock", "write"}]
    BY DEF Init
  <2>3. lostTokens \in Nat /\ disturbed \subseteq {"clear", "signal"}
    BY DEF Init
  <2> QED
    BY <2>1, <2>2, <2>3, Zenon DEF Init, TypeOK, ReaderPcs, Modes
<1>2. OwnerInv
  BY DEF Init, OwnerInv
<1>3. NoElementUnannounced /\ ReadNeverBlocks
  BY DEF Init, NoElementUnannounced, Announced, ReadNeverBlocks
<1> QED
  BY <1>1, <1>2, <1>3 DEF BaseInv

LEMMA Base == Spec => []BaseInv
BY BaseInit, BaseStep, PTL DEF Spec

\* Every reachable state is type correct.
THEOREM TypeCorrect == Spec => []TypeOK
<1>1. BaseInv => TypeOK
  BY DEF BaseInv
<1> QED
  BY <1>1, Base, PTL

\* No element is ever without a token but those whose write() was interrupted,
\* whatever is called.
THEOREM NothingStaysBehind == Spec => []NoElementUnannounced
<1>1. BaseInv => NoElementUnannounced
  BY DEF BaseInv
<1> QED
  BY <1>1, Base, PTL

-----------------------------------------------------------------------------
LEMMA TokenStep ==
  ASSUME BaseInv, TokenPerElement, [Next]_vars
  PROVE  TokenPerElement'
<1> USE DEF BaseInv, TypeOK, OwnerInv, TokenPerElement, Announced, Cleared
<1>1. ASSUME NEW w \in Writers, CallPut(w) \/ Push(w) \/ Notify(w) \/ NotifyFails(w)
      PROVE  TokenPerElement'
  <2>1. w # Free
    BY PipeAssumption DEF Free
  <2> QED
    BY <1>1, <2>1 DEF CallPut, Push, Notify, NotifyFails
<1>2. CASE \/ CallQuery \/ QueryReturn \/ Expire \/ Interrupt \/ Epoll
           \/ \E m \in Modes : CallGet(m)
  BY <1>2 DEF CallQuery, QueryReturn, CallGet, Expire, Epoll, Interrupt, NoData
<1>3. CASE ReadToken
  BY <1>3 DEF ReadToken
<1>4. CASE Pop
  BY <1>4 DEF Pop
<1>5. CASE Clear
  BY <1>5 DEF Clear
<1>6. CASE UNCHANGED vars
  BY <1>6 DEF vars
<1> QED
  BY <1>1, <1>2, <1>3, <1>4, <1>5, <1>6 DEF Next, Get

\* Until clear() removes elements the pipe holds one token for each of them, but
\* for those whose write() was interrupted.
THEOREM OneTokenPerElement == Spec => []TokenPerElement
<1>1. Init => TokenPerElement
  BY DEF Init, TokenPerElement, Announced
<1>2. BaseInv /\ TokenPerElement /\ [Next]_vars => TokenPerElement'
  BY TokenStep
<1> QED
  BY <1>1, <1>2, Base, PTL DEF Spec

\* As long as clear() removes nothing and no signal arrives, get() neither pops
\* an empty deque nor dereferences a nullopt.
THEOREM GetIsDefined == Spec => []NeverUndefined
<1> DEFINE Inv == NeverUndefined /\ (mode = "blocking" => ~timeUp)
<1>1. Init => Inv
  BY DEF Init, NeverUndefined
<1>2. BaseInv /\ TokenPerElement /\ Inv /\ [Next]_vars => Inv'
  <2> SUFFICES ASSUME BaseInv, TokenPerElement, Inv, [Next]_vars PROVE Inv'
    OBVIOUS
  <2> USE DEF NeverUndefined
  <2>1. CASE Pop
    BY <2>1 DEF Pop, BaseInv, TypeOK, TokenPerElement, Announced, Cleared
  <2>2. CASE \E w \in Writers :
                CallPut(w) \/ Push(w) \/ Notify(w) \/ NotifyFails(w)
    BY <2>2 DEF CallPut, Push, Notify, NotifyFails
  <2>3. ASSUME NEW m \in Modes, CallGet(m) PROVE Inv'
    BY <2>3 DEF CallGet
  <2>4. CASE Epoll
    BY <2>4 DEF Epoll, NoData
  <2>5. CASE Interrupt
    BY <2>5 DEF Interrupt
  <2>6. CASE \/ Clear \/ CallQuery \/ QueryReturn \/ ReadToken \/ Expire
             \/ UNCHANGED vars
    BY <2>6 DEF Clear, CallQuery, QueryReturn, ReadToken, Expire, vars
  <2> QED
    BY <2>1, <2>2, <2>3, <2>4, <2>5, <2>6 DEF Next, Get
<1>3. Inv => NeverUndefined
  OBVIOUS
<1> QED
  BY <1>1, <1>2, <1>3, Base, OneTokenPerElement, PTL DEF Spec

-----------------------------------------------------------------------------
\* A writer that holds the mutex waits in write() only when there are more
\* elements than the pipe has room for, which is what keeps put() and get()
\* from waiting for each other; and the reader finds every token it was told of.
THEOREM NobodyBlocks == Spec => []BlocksOnlyWhenFull
<1>1. BaseInv /\ TokenPerElement => BlocksOnlyWhenFull
  BY PipeAssumption
     DEF BaseInv, TypeOK, TokenPerElement, Announced, BlocksOnlyWhenFull,
         ReadNeverBlocks, WriteFindsRoom
<1> QED
  BY <1>1, Base, OneTokenPerElement, PTL

\* Tokens and elements match but for the tokens that were lost, and no call meets
\* an undefined state or blocks before the pipe is full, for any number of
\* writers and any capacity.
THEOREM PipeStaysInStep == Spec => []PipeInStep
<1>1. TokenPerElement /\ NoElementUnannounced /\ NeverUndefined /\ BlocksOnlyWhenFull
        => PipeInStep
  BY DEF PipeInStep
<1> QED
  BY <1>1, OneTokenPerElement, NothingStaysBehind, GetIsDefined, NobodyBlocks, PTL

-----------------------------------------------------------------------------
\* Refinement of the abstract queue.
\* What the first n elements of a queue are when one is added at the end, when
\* one more is counted, and when the first one is removed.
LEMMA AddedBehind ==
  ASSUME NEW s \in Seq(Elements), NEW e \in Elements, NEW n \in 0..Len(s)
  PROVE  SubSeq(Append(s, e), 1, n) = SubSeq(s, 1, n)
OBVIOUS

LEMMA WholeQueue ==
  ASSUME NEW s \in Seq(Elements)
  PROVE  SubSeq(s, 1, Len(s)) = s
OBVIOUS

LEMMA OneMore ==
  ASSUME NEW s \in Seq(Elements), NEW n \in Nat, n < Len(s)
  PROVE  /\ SubSeq(s, 1, n + 1) = Append(SubSeq(s, 1, n), s[n + 1])
         /\ s[n + 1] \in Elements
OBVIOUS

LEMMA FirstTaken ==
  ASSUME NEW s \in Seq(Elements), NEW n \in 1..Len(s)
  PROVE  /\ SubSeq(s, 1, n) # <<>>
         /\ Head(SubSeq(s, 1, n)) = Head(s)
         /\ Tail(SubSeq(s, 1, n)) = SubSeq(Tail(s), 1, n - 1)
OBVIOUS

LEMMA NoneVisible ==
  ASSUME NEW s \in Seq(Elements)
  PROVE  SubSeq(s, 1, 0) = <<>>
OBVIOUS

LEMMA OneMoreToken ==
  ASSUME NEW k \in Nat
  PROVE  k + 1 \in Nat /\ k + 0 \in Nat
OBVIOUS

LEMMA FifoStep ==
  ASSUME BaseInv, [Next]_vars
  PROVE  [Fifo!Next]_(Fifo!vars)
<1> DEFINE n == IF Visible < Len(queue) THEN Visible ELSE Len(queue)
           Items == SubSeq(queue, 1, n)
<1> USE DEF Fifo!Next, Fifo!vars
<1>a. /\ queue \in Seq(Elements) /\ tokens \in Nat
      /\ Visible \in Nat /\ n \in 0..Len(queue)
  BY PipeAssumption DEF BaseInv, TypeOK, Visible
<1>b. queue' \in Seq(Elements) /\ Visible' \in Nat /\ n' \in 0..Len(queue')
  <2>1. queue' \in Seq(Elements)
    BY BaseStep DEF BaseInv, TypeOK
  <2>2. Visible' \in Nat
    <3>1. tokens' \in Nat
      BY BaseStep, PipeAssumption DEF BaseInv, TypeOK
    <3>2. tokens' + 1 \in Nat /\ tokens' + 0 \in Nat
      BY <3>1, OneMoreToken, Zenon
    <3> QED
      BY <3>2, Zenon DEF Visible
  <2>3. Len(queue') \in Nat
    BY <2>1
  <2> QED
    BY <2>1, <2>2, <2>3
<1>1. ASSUME NEW w \in Writers, CallPut(w) \/ NotifyFails(w)
      PROVE  [Fifo!Next]_(Fifo!vars)
  BY <1>1 DEF CallPut, NotifyFails, Visible
<1>2. ASSUME NEW w \in Writers, Push(w) PROVE [Fifo!Next]_(Fifo!vars)
  <2>1. PICK e \in Elements : queue' = Append(queue, e)
    BY <1>2 DEF Push
  <2>2. Visible' = Visible /\ Len(queue') = Len(queue) + 1
    BY <1>2, <2>1, <1>a DEF Push, Visible
  <2>3. CASE Visible <= Len(queue)
    <3>1. n' = n
      BY <2>2, <2>3, <1>a
    <3>2. Items' = Items
      BY <2>1, <3>1, <1>a, AddedBehind
    <3> QED
      BY <1>2, <3>2 DEF Push
  <2>4. CASE ~(Visible <= Len(queue))
    \* a stale token announces the element at once
    <3>1. n = Len(queue) /\ n' = Len(queue')
      BY <2>2, <2>4, <1>a
    <3>2. Items = queue /\ Items' = Append(queue, e)
      BY <2>1, <3>1, <1>a, <1>b, WholeQueue
    <3>3. Fifo!Put(e)
      BY <1>2, <3>2 DEF Push, Fifo!Put
    <3> QED
      BY <3>3
  <2> QED
    BY <2>3, <2>4
<1>3. ASSUME NEW w \in Writers, Notify(w) PROVE [Fifo!Next]_(Fifo!vars)
  <2>1. queue' = queue /\ Visible' = Visible + 1
    BY <1>3, <1>a DEF Notify, Visible
  <2>2. CASE Visible < Len(queue)
    <3>1. n' = n + 1 /\ n \in Nat /\ n < Len(queue)
      BY <2>1, <2>2, <1>a
    <3>2. Items' = Append(Items, queue[n + 1]) /\ queue[n + 1] \in Elements
      BY <2>1, <3>1, <1>a, OneMore
    <3>3. Fifo!Put(queue[n + 1])
      BY <1>3, <3>2 DEF Notify, Fifo!Put
    <3> QED
      BY <3>2, <3>3
  <2>3. CASE ~(Visible < Len(queue))
    <3>1. Items' = Items
      BY <2>1, <2>3, <1>a
    <3> QED
      BY <1>3, <3>1 DEF Notify
  <2> QED
    BY <2>2, <2>3
<1>4. CASE Clear
  <2>1. Items' = <<>>
    BY <1>4, <1>b, NoneVisible DEF Clear
  <2> QED
    BY <1>4, <2>1 DEF Clear, Fifo!Clear
<1>5. ASSUME NEW m \in Modes, CallGet(m) PROVE [Fifo!Next]_(Fifo!vars)
  <2>1. Items' = Items
    BY <1>5 DEF CallGet, Visible
  <2> QED
    BY <1>5, <2>1 DEF CallGet, Fifo!CallGet
<1>6. CASE Epoll \/ Interrupt
  <2>1. Items' = Items
    BY <1>6 DEF Epoll, Interrupt, NoData, Visible
  <2>2. CASE tokens = 0 /\ mode # "blocking" /\ NoData
    <3>1. Visible = 0
      BY <1>6, <2>2 DEF Epoll, Interrupt, Visible
    <3>2. Items = <<>>
      BY <3>1, <1>a, NoneVisible
    <3> QED
      BY <1>6, <2>1, <2>2, <3>2 DEF Epoll, Interrupt, NoData, Fifo!GiveUp
  <2>3. CASE ~(tokens = 0 /\ mode # "blocking" /\ NoData)
    BY <1>6, <2>1, <2>3 DEF Epoll, Interrupt, NoData
  <2> QED
    BY <2>2, <2>3
<1>7. CASE CallQuery \/ QueryReturn \/ Expire \/ ReadToken
  <2>1. Visible' = Visible /\ queue' = queue
    BY <1>7, <1>a DEF CallQuery, QueryReturn, Expire, ReadToken, Visible
  <2> QED
    BY <1>7, <2>1 DEF CallQuery, QueryReturn, Expire, ReadToken
<1>8. CASE Pop
  <2>1. CASE queue = <<>>
    <3>1. Items = <<>> /\ Items' = <<>>
      BY <1>8, <2>1, <1>a, <1>b, NoneVisible DEF Pop
    <3> QED
      BY <1>8, <2>1, <3>1 DEF Pop
  <2>2. CASE queue # <<>>
    <3>0. /\ Visible = tokens + 1 /\ queue' = Tail(queue)
          /\ Visible' = tokens + 0
      BY <1>8, <2>2 DEF Pop, Visible
    <3>1. /\ Visible' = Visible - 1
          /\ Len(queue') = Len(queue) - 1 /\ Len(queue) \in Nat /\ Len(queue) > 0
      BY <3>0, <2>2, <1>a, TailOfQueue
    <3>2. n \in 1..Len(queue) /\ n' = n - 1
      BY <3>0, <3>1, <1>a
    <3>3. /\ Items # <<>> /\ Head(Items) = Head(queue)
          /\ Items' = Tail(Items)
      BY <3>0, <3>1, <3>2, <1>a, FirstTaken
    <3>4. Fifo!Deliver
      BY <1>8, <2>2, <3>3 DEF Pop, Fifo!Deliver
    <3> QED
      BY <3>4
  <2> QED
    BY <2>1, <2>2
<1>9. CASE UNCHANGED vars
  BY <1>9 DEF vars, Visible
<1> QED
  BY <1>1, <1>2, <1>3, <1>4, <1>5, <1>6, <1>7, <1>8, <1>9 DEF Next, Get

\* Deque and pipe together implement the FIFO queue of the elements that have a
\* token, for any capacity, with clear(), signals and failing write() calls at any
\* moment: an element is put by the token that announces it, and no get() sees the
\* time between push_back() and write().  A get() whose behaviour is undefined
\* never returns here; GetIsDefined says when there is none.
THEOREM ImplementsFifo == Spec => FifoSafety
<1>1. Init => Fifo!Init
  <2> SUFFICES ASSUME Init PROVE Fifo!Init
    OBVIOUS
  <2>1. queue = <<>> /\ Len(queue) = 0 /\ Visible = 0
    BY DEF Init, Visible
  <2>2. SubSeq(<<>>, 1, 0) = <<>>
    BY NoneVisible
  <2> QED
    BY <2>1, <2>2 DEF Init, Fifo!Init
<1>2. BaseInv /\ [Next]_vars => [Fifo!Next]_(Fifo!vars)
  BY FifoStep
<1> QED
  BY <1>1, <1>2, Base, PTL DEF Spec, FifoSafety, Fifo!Spec
=============================================================================
