-------------------------- MODULE ThreadSafeQueue --------------------------
(***************************************************************************)
(* Sloppy::ThreadSafeQueue<T> (ThreadSafeQueue.h), the queue whose reader  *)
(* is notified through a condition variable: "one thread for reading and   *)
(* one or more for writing".                                               *)
(*                                                                         *)
(* A section of code under listMutex that does not wait is one step.  What *)
(* is not under one lock is not one step: get() first waits for data and   *)
(* releases the mutex, then locks it again and takes the front element     *)
(* without looking whether there still is one.                             *)
(***************************************************************************)
EXTENDS Naturals, Sequences, FiniteSets

CONSTANTS Writers,
          MaxPuts,         \* bound: elements put by each writer
          ClearByOthers,   \* clear() is called by others than the reader, too
          None             \* std::nullopt

ASSUME BoundAssumption == MaxPuts \in Nat /\ ClearByOthers \in BOOLEAN

VARIABLES
  queue,      \* std::deque<T>
  readerPc,   \* where the reading thread is in get()
  mode,       \* its timeout_ms: < 0, = 0 or > 0
  expired,    \* Timer t of a positive timeout has elapsed
  result,     \* what the last get() returned
  sent,       \* elements put by each writer so far
  gone        \* how many of them have left the queue again

readerVars == <<readerPc, mode, expired, result>>
syncVars == <<queue, readerPc, mode, expired, result, sent, gone>>

Modes == {"forever", "zero", "timed"}
ReaderPcs == {"idle", "test", "asleep", "awake", "pop", "undefined"}
Elements == [by : Writers, nr : 1..MaxPuts]

QueueInit ==
  /\ queue = <<>>
  /\ readerPc = "idle" /\ mode = "zero" /\ expired = FALSE /\ result = None
  /\ sent = [w \in Writers |-> 0]
  /\ gone = [w \in Writers |-> 0]

-----------------------------------------------------------------------------

\* cv.notify_one()
Notify == readerPc' = IF readerPc = "asleep" THEN "awake" ELSE readerPc

\* Slip: the same element is put again and again.
PutTwice(w) ==
  /\ sent[w] < MaxPuts
  /\ queue' = Append(queue, [by |-> w, nr |-> sent[w]])
  /\ sent' = [sent EXCEPT ![w] = @ + 1]
  /\ Notify
  /\ UNCHANGED <<mode, expired, result, gone>>

\* put(): push_back() and notify() under the lock.
Put(w) ==
  /\ sent[w] < MaxPuts
  /\ queue' = Append(queue, [by |-> w, nr |-> sent[w] + 1])
  /\ sent' = [sent EXCEPT ![w] = @ + 1]
  /\ Notify
  /\ UNCHANGED <<mode, expired, result, gone>>

\* clear(), called by the reading thread outside get() or by another thread.
Clear ==
  /\ readerPc = "idle" \/ ClearByOthers
  /\ readerPc # "undefined"
  /\ queue' = <<>>
  /\ gone' = sent
  /\ UNCHANGED <<readerVars, sent>>

\* get(timeout_ms)
CallGet(m) ==
  /\ readerPc = "idle"
  /\ readerPc' = "test"
  /\ mode' = m
  /\ expired' = FALSE
  /\ UNCHANGED <<queue, result, sent, gone>>

Finish(value) == readerPc' = "idle" /\ result' = value

\* Slip: a wake-up without data ends a get() that has a timeout.
GiveUpOnWakeUp == mode = "zero" \/ (mode = "timed" /\ readerPc = "awake")

\* An empty queue ends get() now.
GiveUpNow == mode = "zero" \/ (mode = "timed" /\ expired)

\* Slip: the wait has no predicate, a wake-up is taken for data.
WaitForDataBlindAfterWakeUp ==
  /\ readerPc \in {"test", "awake"}
  /\ \/ (queue # <<>> \/ readerPc = "awake") /\ readerPc' = "pop"
        /\ UNCHANGED result
     \/ queue = <<>> /\ GiveUpNow /\ Finish(None)
     \/ queue = <<>> /\ readerPc = "test" /\ ~GiveUpNow /\ readerPc' = "asleep"
        /\ UNCHANGED result
  /\ UNCHANGED <<queue, mode, expired, sent, gone>>

\* waitForData(): the predicate is evaluated under the lock at the first test
\* and after every wake-up.  When it holds, the lock is released and get()
\* goes on; else get() returns nullopt if its time is over, or sleeps.
WaitForData ==
  /\ readerPc \in {"test", "awake"}
  /\ \/ queue # <<>> /\ readerPc' = "pop" /\ UNCHANGED result
     \/ queue = <<>> /\ GiveUpNow /\ Finish(None)
     \/ queue = <<>> /\ ~GiveUpNow /\ readerPc' = "asleep" /\ UNCHANGED result
  /\ UNCHANGED <<queue, mode, expired, sent, gone>>

\* wait_for() times out; the timer runs while get() sleeps or wakes up.
Expire ==
  /\ mode = "timed" /\ readerPc \in {"asleep", "awake"} /\ ~expired
  /\ expired' = TRUE
  /\ readerPc' = "awake"
  /\ UNCHANGED <<queue, mode, result, sent, gone>>

SpuriousReaderWakeUp ==
  /\ readerPc = "asleep"
  /\ readerPc' = "awake"
  /\ UNCHANGED <<queue, mode, expired, result, sent, gone>>

\* Slip: the element is copied from the front and removed at the back.
PopBack ==
  /\ readerPc = "pop"
  /\ IF queue = <<>>
     THEN readerPc' = "undefined" /\ UNCHANGED <<queue, result, gone>>
     ELSE /\ Finish(Head(queue))
          /\ queue' = SubSeq(queue, 1, Len(queue) - 1)
          /\ gone' = [gone EXCEPT ![Head(queue).by] = @ + 1]
  /\ UNCHANGED <<mode, expired, sent>>

\* The second locked section of get(): front() and pop_front().
Pop ==
  /\ readerPc = "pop"
  /\ IF queue = <<>>
     THEN readerPc' = "undefined" /\ UNCHANGED <<queue, result, gone>>
     ELSE /\ Finish(Head(queue))
          /\ queue' = Tail(queue)
          /\ gone' = [gone EXCEPT ![Head(queue).by] = @ + 1]
  /\ UNCHANGED <<mode, expired, sent>>

QueueNext ==
  \/ \E w \in Writers : Put(w)
  \/ Clear
  \/ \E m \in Modes : CallGet(m)
  \/ WaitForData \/ Expire \/ SpuriousReaderWakeUp \/ Pop

QueueSpec == QueueInit /\ [][QueueNext]_syncVars

\* A reading thread inside get() goes on, and time passes.
QueueFairness == WF_syncVars(WaitForData) /\ WF_syncVars(Pop) /\ WF_syncVars(Expire)
FairQueueSpec == QueueSpec /\ QueueFairness

-----------------------------------------------------------------------------
(* Properties.                                                             *)

QueueTypeOK ==
  /\ queue \in Seq(Elements)
  /\ readerPc \in ReaderPcs /\ mode \in Modes /\ expired \in BOOLEAN
  /\ result \in Elements \cup {None}
  /\ sent \in [Writers -> 0..MaxPuts]
  /\ gone \in [Writers -> Nat]

\* front() and pop_front() are never called on an empty deque, although get()
\* does not look again after it has released the mutex.
NeverPopEmpty == readerPc # "undefined"

\* No wake-up is lost: the reader does not sleep while there is an element,
\* whichever writer put it at whichever moment.
NoLostWakeUp == readerPc = "asleep" => queue = <<>>

\* get() releases the mutex between being told of an element and taking it:
\* it always meets the element it was told of, and never sleeps beside one.
GetIsSafe == NeverPopEmpty /\ NoLostWakeUp

\* Elements of one writer stay in the order they were put in, and the queue
\* holds exactly those that are put and not gone: none is lost or duplicated.
InOrder ==
  \A j, k \in DOMAIN queue :
    j < k /\ queue[j].by = queue[k].by => queue[j].nr < queue[k].nr
NothingLost ==
  \A w \in Writers :
    /\ gone[w] <= sent[w]
    /\ \A i \in 1..MaxPuts :
         (i \in gone[w] + 1..sent[w])
           <=> (\E k \in DOMAIN queue : queue[k] = [by |-> w, nr |-> i])
ExactlyOnceInOrder == InOrder /\ NothingLost

\* get(timeout) does not give up before its timeout, whatever wakes it up.
TimeoutRespected ==
  [][(readerPc \in {"test", "awake"} /\ readerPc' = "idle") =>
       mode = "zero" \/ expired]_syncVars

\* The queue is a FIFO queue: see FifoQueue.
Fifo == INSTANCE FifoQueue WITH
  items <- queue, waiting <- readerPc # "idle", patient <- mode = "forever",
  got <- result
FifoSafety == Fifo!Spec
FifoLiveness == Fifo!Fairness

\* A get() answers neither before its time is over nor never: it gives up only
\* at its timeout, and returns if there is an element or the timeout passes.
AnswersInTime == TimeoutRespected /\ FifoLiveness
=============================================================================
