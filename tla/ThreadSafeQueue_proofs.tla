----------------------- MODULE ThreadSafeQueue_proofs -----------------------
(***************************************************************************)
(* Theorems about ThreadSafeQueue for any set of writers and any number of *)
(* elements.  Those that need that clear() is called by the reading thread *)
(* only say so.                                                            *)
(***************************************************************************)
EXTENDS ThreadSafeQueue, TLAPS

LEMMA TypeStep == QueueTypeOK /\ [QueueNext]_syncVars => QueueTypeOK'
<1> SUFFICES ASSUME QueueTypeOK, [QueueNext]_syncVars PROVE QueueTypeOK'
  OBVIOUS
<1> USE BoundAssumption DEF QueueTypeOK, ReaderPcs, Modes
<1>1. ASSUME NEW w \in Writers, Put(w) PROVE QueueTypeOK'
  <2>1. [by |-> w, nr |-> sent[w] + 1] \in Elements
    BY <1>1 DEF Put, Elements
  <2>2. queue' \in Seq(Elements)
    BY <1>1, <2>1 DEF Put
  <2>3. sent' \in [Writers -> 0..MaxPuts]
    BY <1>1 DEF Put
  <2> QED
    BY <1>1, <2>2, <2>3 DEF Put, Notify
<1>2. CASE Clear
  BY <1>2 DEF Clear, readerVars
<1>3. CASE \E m \in Modes : CallGet(m)
  BY <1>3 DEF CallGet
<1>4. CASE WaitForData
  BY <1>4 DEF WaitForData, Finish
<1>5. CASE Expire \/ SpuriousReaderWakeUp
  BY <1>5 DEF Expire, SpuriousReaderWakeUp
<1>6. CASE Pop
  <2>1. CASE queue = <<>>
    BY <1>6, <2>1 DEF Pop
  <2>2. CASE queue # <<>>
    <3>1. Head(queue) \in Elements /\ Tail(queue) \in Seq(Elements)
      BY <2>2
    <3>2. Head(queue).by \in Writers
      BY <3>1 DEF Elements
    <3>3. gone' \in [Writers -> Nat]
      BY <1>6, <2>2, <3>2 DEF Pop
    <3>4. queue' = Tail(queue) /\ result' = Head(queue) /\ readerPc' = "idle"
      BY <1>6, <2>2 DEF Pop, Finish
    <3> QED
      BY <1>6, <3>1, <3>3, <3>4 DEF Pop
  <2> QED
    BY <2>1, <2>2
<1>7. CASE UNCHANGED syncVars
  BY <1>7 DEF syncVars, readerVars
<1> QED
  BY <1>1, <1>2, <1>3, <1>4, <1>5, <1>6, <1>7 DEF QueueNext

\* Every reachable state is type correct.
THEOREM TypeCorrect == QueueSpec => []QueueTypeOK
<1>1. QueueInit => QueueTypeOK
  <2>1. 0 \in 0..MaxPuts
    BY BoundAssumption
  <2>2. QueueInit => queue \in Seq(Elements)
    BY DEF QueueInit
  <2>3. QueueInit => sent \in [Writers -> 0..MaxPuts] /\ gone \in [Writers -> Nat]
    BY <2>1 DEF QueueInit
  <2> QED
    BY <2>2, <2>3 DEF QueueInit, QueueTypeOK, ReaderPcs, Modes
<1> QED
  BY <1>1, TypeStep, PTL DEF QueueSpec

-----------------------------------------------------------------------------
\* The reader never sleeps beside an element: no wake-up is lost.
THEOREM WakeUpsArrive == QueueSpec => []NoLostWakeUp
<1>1. QueueInit => NoLostWakeUp
  BY DEF QueueInit, NoLostWakeUp
<1>2. NoLostWakeUp /\ [QueueNext]_syncVars => NoLostWakeUp'
  BY DEF NoLostWakeUp, QueueNext, Put, Notify, Clear, CallGet, WaitForData, Finish,
         Expire, SpuriousReaderWakeUp, Pop, readerVars, syncVars
<1> QED
  BY <1>1, <1>2, PTL DEF QueueSpec

\* The data that waitForData() has seen is still there when get() takes it.
PopInv == NeverPopEmpty /\ (readerPc = "pop" => queue # <<>>)

LEMMA PopStep ==
  ASSUME ~ClearByOthers, QueueTypeOK, PopInv, [QueueNext]_syncVars
  PROVE  PopInv'
<1> USE DEF PopInv, NeverPopEmpty
<1>1. ASSUME NEW w \in Writers, Put(w) PROVE PopInv'
  <2>1. queue' # <<>>
    BY <1>1 DEF Put, QueueTypeOK
  <2> QED
    BY <1>1, <2>1 DEF Put, Notify
<1>2. CASE \/ Clear \/ WaitForData \/ Expire \/ SpuriousReaderWakeUp \/ Pop
           \/ \E m \in Modes : CallGet(m)
  BY <1>2 DEF Clear, CallGet, WaitForData, Finish, Expire, SpuriousReaderWakeUp, Pop,
              readerVars
<1>3. CASE UNCHANGED syncVars
  BY <1>3 DEF syncVars
<1> QED
  BY <1>1, <1>2, <1>3 DEF QueueNext

\* With one reader, and clear() left to it, get() never pops an empty deque.
THEOREM PopsAreSafe ==
  ASSUME ~ClearByOthers
  PROVE  QueueSpec => []NeverPopEmpty
<1>1. QueueInit => PopInv
  BY DEF QueueInit, PopInv, NeverPopEmpty
<1>2. QueueTypeOK /\ PopInv /\ [QueueNext]_syncVars => PopInv'
  BY PopStep
<1>3. PopInv => NeverPopEmpty
  BY DEF PopInv
<1> QED
  BY <1>1, <1>2, <1>3, TypeCorrect, PTL DEF QueueSpec

-----------------------------------------------------------------------------
\* Order and completeness.
LEMMA OrderStep ==
  ASSUME QueueTypeOK, ExactlyOnceInOrder, [QueueNext]_syncVars
  PROVE  ExactlyOnceInOrder'
<1> USE DEF ExactlyOnceInOrder, InOrder, NothingLost
<1>1. ASSUME NEW w \in Writers, Put(w) PROVE ExactlyOnceInOrder'
  <2> DEFINE e == [by |-> w, nr |-> sent[w] + 1]
             n == Len(queue)
  <2>1. /\ sent[w] \in 0..MaxPuts /\ sent[w] < MaxPuts /\ MaxPuts \in Nat
        /\ n \in Nat /\ DOMAIN queue = 1..n
    BY <1>1, BoundAssumption DEF Put, QueueTypeOK
  <2>2. e \in Elements
    BY <2>1 DEF Elements
  <2>3. /\ DOMAIN queue' = 1..(n + 1)
        /\ queue'[n + 1] = e
        /\ \A k \in 1..n : queue'[k] = queue[k]
    BY <1>1, <2>1, <2>2 DEF Put, QueueTypeOK
  <2>4. /\ sent'[w] = sent[w] + 1
        /\ \A v \in Writers \ {w} : sent'[v] = sent[v]
        /\ gone' = gone /\ gone \in [Writers -> Nat]
        /\ sent \in [Writers -> 0..MaxPuts]
    BY <1>1 DEF Put, QueueTypeOK
  <2>5. \A k \in 1..n : queue[k] \in Elements
    BY <2>1 DEF QueueTypeOK
  <2>6. \A k \in 1..n : queue[k].by = w => queue[k].nr <= sent[w]
    <3> SUFFICES ASSUME NEW k \in 1..n, queue[k].by = w
                 PROVE  queue[k].nr <= sent[w]
      OBVIOUS
    <3>1. queue[k] = [by |-> w, nr |-> queue[k].nr] /\ queue[k].nr \in 1..MaxPuts
      BY <2>5 DEF Elements
    <3>2. queue[k].nr \in gone[w] + 1..sent[w]
      BY <2>1, <3>1
    <3> QED
      BY <2>1, <2>4, <3>2
  <2>7. InOrder'
    <3> SUFFICES ASSUME NEW j \in 1..(n + 1), NEW k \in 1..(n + 1), j < k,
                        queue'[j].by = queue'[k].by
                 PROVE  queue'[j].nr < queue'[k].nr
      BY <2>3
    <3>1. CASE k = n + 1
      <4>1. j \in 1..n /\ queue'[j] = queue[j] /\ queue[j].by = w
        BY <2>1, <2>3, <3>1
      <4>2. queue[j].nr <= sent[w] /\ queue[j].nr \in 1..MaxPuts
        BY <2>5, <2>6, <4>1 DEF Elements
      <4> QED
        BY <2>1, <2>3, <3>1, <4>1, <4>2
    <3>2. CASE k # n + 1
      BY <2>1, <2>3, <3>2
    <3> QED
      BY <3>1, <3>2
  <2>8. NothingLost'
    <3> SUFFICES ASSUME NEW v \in Writers
                 PROVE  /\ gone[v] <= sent'[v]
                        /\ \A i \in 1..MaxPuts :
                             (i \in gone[v] + 1..sent'[v])
                               <=> (\E k \in 1..(n + 1) :
                                      queue'[k] = [by |-> v, nr |-> i])
      BY <2>3, <2>4
    <3>1. gone[v] <= sent'[v]
      BY <2>1, <2>4
    <3>2. ASSUME NEW i \in 1..MaxPuts
          PROVE  (i \in gone[v] + 1..sent'[v])
                   <=> (\E k \in 1..(n + 1) : queue'[k] = [by |-> v, nr |-> i])
      <4> DEFINE d == [by |-> v, nr |-> i]
      <4>1. (\E k \in 1..(n + 1) : queue'[k] = d)
              <=> (\E k \in 1..n : queue[k] = d) \/ e = d
        BY <2>1, <2>3
      <4>2. (\E k \in 1..n : queue[k] = d) <=> i \in gone[v] + 1..sent[v]
        BY <2>1
      <4>3. e = d <=> v = w /\ i = sent[w] + 1
        OBVIOUS
      <4>4. i \in gone[v] + 1..sent'[v]
              <=> i \in gone[v] + 1..sent[v] \/ (v = w /\ i = sent[w] + 1)
        BY <2>1, <2>4
      <4> QED
        BY <4>1, <4>2, <4>3, <4>4
    <3> QED
      BY <3>1, <3>2
  <2> QED
    BY <2>7, <2>8
<1>2. CASE Clear
  <2>1. queue' = <<>> /\ gone' = sent /\ sent' = sent
    BY <1>2 DEF Clear
  <2>2. \A w \in Writers : sent[w] \in Nat
    BY BoundAssumption DEF QueueTypeOK
  <2> QED
    BY <2>1, <2>2, BoundAssumption
<1>3. CASE Pop
  <2>1. CASE queue = <<>>
    BY <1>3, <2>1 DEF Pop
  <2>2. CASE queue # <<>>
    <3> DEFINE h == Head(queue)
               n == Len(queue)
    <3>1. /\ n \in Nat /\ n >= 1 /\ DOMAIN queue = 1..n
          /\ h = queue[1] /\ h \in Elements
          /\ \A k \in 1..n : queue[k] \in Elements
      BY <2>2 DEF QueueTypeOK
    <3>2. queue' = Tail(queue) /\ gone' = [gone EXCEPT ![h.by] = @ + 1]
          /\ sent' = sent
      BY <1>3, <2>2 DEF Pop
    <3>3. /\ DOMAIN queue' = 1..(n - 1)
          /\ \A k \in 1..(n - 1) : queue'[k] = queue[k + 1]
      BY <2>2, <3>1, <3>2 DEF QueueTypeOK
    <3>4. /\ h.by \in Writers /\ h.nr \in 1..MaxPuts
          /\ h = [by |-> h.by, nr |-> h.nr]
      BY <3>1 DEF Elements
    <3>5. /\ gone \in [Writers -> Nat] /\ sent \in [Writers -> 0..MaxPuts]
          /\ MaxPuts \in Nat
      BY BoundAssumption DEF QueueTypeOK
    <3> HIDE DEF h
    <3>9. h.nr \in gone[h.by] + 1..sent[h.by]
      <4>1. \E k \in DOMAIN queue : queue[k] = [by |-> h.by, nr |-> h.nr]
        BY <3>1, <3>4
      <4> QED
        BY <3>4, <4>1
    \* The front element is the oldest one of its writer.
    <3>6. h.nr = gone[h.by] + 1
      <4>2. gone[h.by] + 1 \in 1..MaxPuts
        BY <3>4, <3>5, <3>9
      <4>3. PICK k \in 1..n : queue[k] = [by |-> h.by, nr |-> gone[h.by] + 1]
        BY <3>1, <3>4, <3>5, <3>9, <4>2
      <4>4. k # 1 => h.nr < gone[h.by] + 1
        BY <3>1, <4>3
      <4> QED
        BY <3>1, <3>4, <3>5, <3>9, <4>3, <4>4
    <3>7. InOrder'
      BY <3>1, <3>3
    <3>8. NothingLost'
      <4> SUFFICES ASSUME NEW v \in Writers
                   PROVE  /\ gone'[v] <= sent[v]
                          /\ \A i \in 1..MaxPuts :
                               (i \in gone'[v] + 1..sent[v])
                                 <=> (\E k \in 1..(n - 1) :
                                        queue[k + 1] = [by |-> v, nr |-> i])
        <5> DEFINE q == queue'
        <5>1. \A d : (\E k \in DOMAIN q : q[k] = d)
                <=> (\E k \in 1..(n - 1) : queue[k + 1] = d)
          BY <3>3
        <5> HIDE DEF q
        <5> QED
          BY <3>2, <5>1 DEF q
      <4>2. gone'[v] = IF v = h.by THEN gone[v] + 1 ELSE gone[v]
        BY <3>2, <3>4, <3>5
      <4>3. gone'[v] <= sent[v]
        BY <3>4, <3>5, <3>9, <4>2
      <4>4. ASSUME NEW i \in 1..MaxPuts
            PROVE  (i \in gone'[v] + 1..sent[v])
                     <=> (\E k \in 1..(n - 1) :
                            queue[k + 1] = [by |-> v, nr |-> i])
        <5> DEFINE d == [by |-> v, nr |-> i]
        <5>1. (i \in gone[v] + 1..sent[v]) <=> (\E k \in 1..n : queue[k] = d)
          BY <3>1
        <5>2. (\E k \in 1..n : queue[k] = d)
                <=> d = h \/ (\E k \in 1..(n - 1) : queue[k + 1] = d)
          <6>1. ASSUME NEW k \in 1..n, queue[k] = d, d # h
                PROVE  \E l \in 1..(n - 1) : queue[l + 1] = d
            <7>1. k - 1 \in 1..(n - 1) /\ queue[(k - 1) + 1] = d
              BY <3>1, <6>1
            <7> QED
              BY <7>1
          <6>2. ASSUME NEW k \in 1..(n - 1), queue[k + 1] = d
                PROVE  \E l \in 1..n : queue[l] = d
            <7>1. k + 1 \in 1..n
              BY <3>1
            <7> QED
              BY <6>2, <7>1
          <6>3. d = h => \E l \in 1..n : queue[l] = d
            BY <3>1
          <6> QED
            BY <6>1, <6>2, <6>3
        <5>3. d = h <=> v = h.by /\ i = gone[v] + 1
          BY <3>4, <3>6
        <5>4. d = h => ~ \E k \in 1..(n - 1) : queue[k + 1] = d
          <6> SUFFICES ASSUME d = h, NEW k \in 1..(n - 1), queue[k + 1] = d
                       PROVE  FALSE
            OBVIOUS
          <6>1. k + 1 \in 1..n /\ 1 \in 1..n /\ 1 < k + 1
            BY <3>1
          <6>2. queue[1].nr < queue[k + 1].nr
            BY <3>1, <6>1
          <6> QED
            BY <3>1, <3>4, <6>2
        <5>5. (i \in gone'[v] + 1..sent[v])
                <=> (i \in gone[v] + 1..sent[v]) /\ ~(v = h.by /\ i = gone[v] + 1)
          BY <3>5, <4>2
        <5> QED
          BY <5>1, <5>2, <5>3, <5>4, <5>5
      <4> QED
        BY <4>3, <4>4
    <3> QED
      BY <3>7, <3>8
  <2> QED
    BY <2>1, <2>2
<1>4. CASE WaitForData \/ Expire \/ SpuriousReaderWakeUp \/ UNCHANGED syncVars
           \/ \E m \in Modes : CallGet(m)
  <2>1. UNCHANGED <<queue, sent, gone>>
    BY <1>4 DEF WaitForData, Expire, SpuriousReaderWakeUp, CallGet, syncVars
  <2> QED
    BY <2>1
<1> QED
  BY <1>1, <1>2, <1>3, <1>4 DEF QueueNext

\* Nothing is lost, duplicated or overtaken by an element of its own writer.
THEOREM KeepsOrder == QueueSpec => []ExactlyOnceInOrder
<1>1. QueueInit => ExactlyOnceInOrder
  BY BoundAssumption
     DEF QueueInit, ExactlyOnceInOrder, InOrder, NothingLost
<1>2. QueueTypeOK /\ ExactlyOnceInOrder /\ [QueueNext]_syncVars => ExactlyOnceInOrder'
  BY OrderStep
<1> QED
  BY <1>1, <1>2, TypeCorrect, PTL DEF QueueSpec

-----------------------------------------------------------------------------
\* Refinement of the abstract queue.
LEMMA FifoStep ==
  ASSUME QueueTypeOK, PopInv, [QueueNext]_syncVars
  PROVE  [Fifo!Next]_(Fifo!vars)
<1> USE DEF Fifo!Next, Fifo!vars
<1>1. ASSUME NEW w \in Writers, Put(w) PROVE [Fifo!Next]_(Fifo!vars)
  <2>1. [by |-> w, nr |-> sent[w] + 1] \in Elements
    BY <1>1, BoundAssumption DEF Put, QueueTypeOK, Elements
  <2>2. Fifo!Put([by |-> w, nr |-> sent[w] + 1])
    BY <1>1 DEF Put, Notify, Fifo!Put
  <2> QED
    BY <2>1, <2>2
<1>2. CASE Clear
  BY <1>2 DEF Clear, readerVars, Fifo!Clear
<1>3. ASSUME NEW m \in Modes, CallGet(m) PROVE [Fifo!Next]_(Fifo!vars)
  BY <1>3 DEF CallGet, Fifo!CallGet
<1>4. CASE WaitForData
  <2>1. CASE queue = <<>> /\ GiveUpNow /\ Finish(None)
    BY <1>4, <2>1 DEF WaitForData, GiveUpNow, Finish, Fifo!GiveUp
  <2>2. CASE ~(queue = <<>> /\ GiveUpNow /\ Finish(None))
    BY <1>4, <2>2 DEF WaitForData
  <2> QED
    BY <2>1, <2>2
<1>5. CASE Expire \/ SpuriousReaderWakeUp
  BY <1>5 DEF Expire, SpuriousReaderWakeUp
<1>6. CASE Pop
  BY <1>6 DEF Pop, PopInv, Finish, Fifo!Deliver
<1>7. CASE UNCHANGED syncVars
  BY <1>7 DEF syncVars, readerVars
<1> QED
  BY <1>1, <1>2, <1>3, <1>4, <1>5, <1>6, <1>7 DEF QueueNext

\* The queue implements the FIFO queue: get() is as good as one atomic step,
\* although it locks the mutex twice.
THEOREM ImplementsFifo ==
  ASSUME ~ClearByOthers
  PROVE  QueueSpec => FifoSafety
<1>1. QueueInit => Fifo!Init
  BY DEF QueueInit, Fifo!Init
<1>2. QueueInit => PopInv
  BY DEF QueueInit, PopInv, NeverPopEmpty
<1>3. QueueTypeOK /\ PopInv /\ [QueueNext]_syncVars => PopInv'
  BY PopStep
<1>4. QueueTypeOK /\ PopInv /\ [QueueNext]_syncVars => [Fifo!Next]_(Fifo!vars)
  BY FifoStep
<1> QED
  BY <1>1, <1>2, <1>3, <1>4, TypeCorrect, PTL DEF QueueSpec, FifoSafety, Fifo!Spec

\* Both locked sections of get() see a queue they can deal with, if clear() is
\* left to the reading thread.
THEOREM GetsAreSafe ==
  ASSUME ~ClearByOthers
  PROVE  QueueSpec => []GetIsSafe
<1>1. NeverPopEmpty /\ NoLostWakeUp => GetIsSafe
  BY DEF GetIsSafe
<1> QED
  BY <1>1, PopsAreSafe, WakeUpsArrive, PTL
=============================================================================
