------------------------ MODULE ThreadSafeQueuePipe ------------------------
(***************************************************************************)
(* Sloppy::ThreadSafeQueue_PipeSynced<T> (ThreadSafeQueue.h): the queue    *)
(* whose reader is notified through a pipe "that contains one token for    *)
(* each element put into the queue".  Deque and pipe are two queues that   *)
(* no lock covers together; that they are one FIFO queue to the outside is *)
(* the subject of FifoQueue.                                               *)
(*                                                                         *)
(* put() writes its token while it holds listMutex, and a write() to a     *)
(* full pipe blocks; so the owner of the mutex is part of the state.  The  *)
(* result of that write() is ignored, and a signal that arrives while it   *)
(* blocks makes it fail: the element stays, its token is lost.             *)
(***************************************************************************)
EXTENDS Naturals, Sequences, SequencesExt, FiniteSets

CONSTANTS Writers,
          Elements,     \* the values that are put
          None,         \* std::nullopt
          Capacity,     \* bytes that fit into the pipe
          MaxElems      \* bound: elements in the queue or being put

ASSUME PipeAssumption ==
  /\ IsFiniteSet(Writers) /\ "free" \notin Writers
  /\ Capacity \in Nat \ {0} /\ MaxElems \in Nat

VARIABLES
  queue,      \* std::deque<T>
  tokens,     \* number of bytes in the pipe
  owner,      \* the writer that holds listMutex across its steps, or "free"
  writerPc,   \* where each writer is in put()
  readerPc,   \* where the reader is
  mode,       \* timeout of its get(): get(), get(timeout), get(0)
  timeUp,     \* the timeout of epoll_wait() has elapsed
  result,     \* what the last get() returned
  lostTokens, \* history: write() calls that failed since the last clear()
  disturbed   \* history: clear() has removed elements, a signal has hit get()

vars == <<queue, tokens, owner, writerPc, readerPc, mode, timeUp, result,
          lostTokens, disturbed>>

Modes == {"blocking", "timed", "zero"}
ReaderPcs == {"idle", "epoll", "read", "lock", "query", "undefined"}

Free == "free"
InPut == {w \in Writers : writerPc[w] = "lock"}     \* not yet in the deque

Init ==
  /\ queue = <<>> /\ tokens = 0
  /\ owner = Free
  /\ writerPc = [w \in Writers |-> "idle"]
  /\ readerPc = "idle" /\ mode = "zero" /\ timeUp = FALSE /\ result = None
  /\ lostTokens = 0 /\ disturbed = {}

-----------------------------------------------------------------------------
CallPut(w) ==
  /\ writerPc[w] = "idle"
  /\ Len(queue) + Cardinality(InPut) < MaxElems
  /\ writerPc' = [writerPc EXCEPT ![w] = "lock"]
  /\ UNCHANGED <<queue, tokens, owner, readerPc, mode, timeUp, disturbed, result, lostTokens>>

\* put(): the mutex is taken, push_back().
Push(w) ==
  /\ writerPc[w] = "lock" /\ owner = Free
  /\ owner' = w
  /\ \E e \in Elements : queue' = Append(queue, e)
  /\ writerPc' = [writerPc EXCEPT ![w] = "write"]
  /\ UNCHANGED <<tokens, readerPc, mode, timeUp, disturbed, result, lostTokens>>

\* Slip: the write() is not checked for room.
NotifyTwice(w) ==
  /\ writerPc[w] = "write" /\ tokens < Capacity
  /\ tokens' = tokens + 2
  /\ owner' = Free
  /\ writerPc' = [writerPc EXCEPT ![w] = "idle"]
  /\ UNCHANGED <<queue, readerPc, mode, timeUp, disturbed, result, lostTokens>>

\* Slip: an element that finds a token in the pipe adds none.
NotifyIfEmpty(w) ==
  /\ writerPc[w] = "write"
  /\ tokens' = IF tokens = 0 THEN 1 ELSE tokens
  /\ owner' = Free
  /\ writerPc' = [writerPc EXCEPT ![w] = "idle"]
  /\ UNCHANGED <<queue, readerPc, mode, timeUp, disturbed, result, lostTokens>>

\* notify(): the write() returns as soon as there is room; the mutex is
\* released on return from put().
Notify(w) ==
  /\ writerPc[w] = "write" /\ tokens < Capacity
  /\ tokens' = tokens + 1
  /\ owner' = Free
  /\ writerPc' = [writerPc EXCEPT ![w] = "idle"]
  /\ UNCHANGED <<queue, readerPc, mode, timeUp, disturbed, result, lostTokens>>

\* A signal interrupts the write() that waits for room in the pipe.  Its result
\* is ignored: put() returns, and its element is in the deque without a token.
NotifyFails(w) ==
  /\ writerPc[w] = "write" /\ tokens = Capacity
  /\ lostTokens' = lostTokens + 1
  /\ owner' = Free
  /\ writerPc' = [writerPc EXCEPT ![w] = "idle"]
  /\ UNCHANGED <<queue, tokens, readerPc, mode, timeUp, disturbed, result>>

\* clear(): the deque is emptied, the pipe is not; it may be the call of any
\* thread that is in no other method of the queue.
Clear ==
  /\ owner = Free /\ readerPc # "undefined"
  /\ queue' = <<>> /\ lostTokens' = 0
  /\ disturbed' = IF queue = <<>> THEN disturbed ELSE disturbed \cup {"clear"}
  /\ UNCHANGED <<tokens, owner, writerPc, readerPc, mode, timeUp, result>>

\* size(), empty() and hasData() by the reading thread.
CallQuery ==
  /\ readerPc = "idle"
  /\ readerPc' = "query"
  /\ UNCHANGED <<queue, tokens, owner, writerPc, mode, timeUp, disturbed, result, lostTokens>>

QueryReturn ==
  /\ readerPc = "query" /\ owner = Free
  /\ readerPc' = "idle"
  /\ UNCHANGED <<queue, tokens, owner, writerPc, mode, timeUp, disturbed, result, lostTokens>>

CallGet(m) ==
  /\ readerPc = "idle"
  /\ readerPc' = "epoll"
  /\ mode' = m
  /\ timeUp' = (m = "zero")
  /\ UNCHANGED <<queue, tokens, owner, writerPc, disturbed, result, lostTokens>>

Expire ==
  /\ readerPc = "epoll" /\ mode = "timed" /\ ~timeUp
  /\ timeUp' = TRUE
  /\ UNCHANGED <<queue, tokens, owner, writerPc, readerPc, mode, disturbed, result, lostTokens>>

\* waitForData() returns false and get(timeout_ms) a nullopt, which get()
\* dereferences.
NoData ==
  IF mode = "blocking"
  THEN readerPc' = "undefined" /\ UNCHANGED result
  ELSE readerPc' = "idle" /\ result' = None

\* epoll_wait() reports the pipe or a timeout.
Epoll ==
  /\ readerPc = "epoll"
  /\ \/ tokens > 0 /\ readerPc' = "read" /\ UNCHANGED result
     \/ tokens = 0 /\ timeUp /\ NoData
  /\ UNCHANGED <<queue, tokens, owner, writerPc, mode, timeUp, disturbed, lostTokens>>

\* A signal ends epoll_wait() with EINTR, which is taken for a timeout.
Interrupt ==
  /\ readerPc = "epoll" /\ tokens = 0 /\ mode # "zero"
  /\ NoData
  /\ disturbed' = disturbed \cup {"signal"}
  /\ UNCHANGED <<queue, tokens, owner, writerPc, mode, timeUp, lostTokens>>

\* Slip: waitForData() leaves the token in the pipe.
ReadNothing ==
  /\ readerPc = "read" /\ tokens > 0
  /\ readerPc' = "lock"
  /\ UNCHANGED <<queue, tokens, owner, writerPc, mode, timeUp, disturbed, result, lostTokens>>

ReadToken ==
  /\ readerPc = "read" /\ tokens > 0
  /\ tokens' = tokens - 1
  /\ readerPc' = "lock"
  /\ UNCHANGED <<queue, owner, writerPc, mode, timeUp, disturbed, result, lostTokens>>

\* The locked part of get(): front() and pop_front().
Pop ==
  /\ readerPc = "lock" /\ owner = Free
  /\ IF queue = <<>>
     THEN readerPc' = "undefined" /\ UNCHANGED <<queue, result>>
     ELSE readerPc' = "idle" /\ result' = Head(queue) /\ queue' = Tail(queue)
  /\ UNCHANGED <<tokens, owner, writerPc, mode, timeUp, disturbed, lostTokens>>

Get == Epoll \/ ReadToken \/ Pop

Next ==
  \/ \E w \in Writers : CallPut(w) \/ Push(w) \/ Notify(w) \/ NotifyFails(w)
  \/ Clear \/ CallQuery \/ QueryReturn
  \/ \E m \in Modes : CallGet(m)
  \/ Get \/ Expire \/ Interrupt

Spec == Init /\ [][Next]_vars

\* Started calls go on; listMutex is obtained if it is free again and again.
Fairness ==
  /\ \A w \in Writers : SF_vars(Push(w)) /\ WF_vars(Notify(w))
  /\ SF_vars(QueryReturn \/ Pop)
  /\ WF_vars(Epoll \/ ReadToken) /\ WF_vars(Expire)

FairSpec == Spec /\ Fairness

-----------------------------------------------------------------------------
(* Properties.                                                             *)

TypeOK ==
  /\ queue \in Seq(Elements) /\ tokens \in 0..Capacity
  /\ owner \in Writers \cup {Free}
  /\ writerPc \in [Writers -> {"idle", "lock", "write"}]
  /\ readerPc \in ReaderPcs /\ mode \in Modes /\ timeUp \in BOOLEAN
  /\ result \in Elements \cup {None}
  /\ lostTokens \in Nat /\ disturbed \subseteq {"clear", "signal"}

Cleared == "clear" \in disturbed

\* "one token for each element put into the queue", until clear() removes
\* elements: the two differ by the element a writer has pushed but not announced,
\* by the one the reader has been told of but not taken, and by the elements
\* whose write() was interrupted.
Announced == tokens + (IF owner = Free THEN 0 ELSE 1)
                    + (IF readerPc = "lock" THEN 1 ELSE 0)
TokenPerElement == ~Cleared => Len(queue) = Announced + lostTokens

\* Even with clear() and signals no element is without a token but those whose
\* write() was interrupted: no other one stays behind while the reader waits.
NoElementUnannounced == Len(queue) <= Announced + lostTokens

\* get() neither pops an empty deque nor dereferences a nullopt, unless clear()
\* has left tokens without elements or a signal has interrupted epoll_wait().
NeverUndefined == readerPc = "undefined" => disturbed # {}

\* The read() after epoll_wait() finds its token: it never blocks, clear() or
\* not.  The write() under the mutex blocks only when there are more elements
\* than the pipe has room for, unless clear() has left stale tokens in it.
ReadNeverBlocks == readerPc = "read" => tokens > 0
WriteFindsRoom ==
  owner # Free /\ Len(queue) <= Capacity /\ ~Cleared => tokens < Capacity
BlocksOnlyWhenFull == ReadNeverBlocks /\ WriteFindsRoom

\* Deque and pipe, which no lock covers together, stay in step: no element is
\* without a token unless the write() of its token failed, and neither get() nor
\* put() meets a state it cannot handle.
PipeInStep ==
  TokenPerElement /\ NoElementUnannounced /\ NeverUndefined /\ BlocksOnlyWhenFull

\* To the outside this is a FIFO queue of the elements the pipe has tokens for:
\* an element is put by the next token, which is its own one unless a write()
\* has failed or clear() has left stale ones.  Until then a get() may miss it.
Visible == tokens + (IF readerPc = "lock" THEN 1 ELSE 0)
Fifo == INSTANCE FifoQueue WITH
  items <- SubSeq(queue, 1, IF Visible < Len(queue) THEN Visible ELSE Len(queue)),
  waiting <- readerPc \notin {"idle", "query"},
  patient <- mode = "blocking",
  got <- result
FifoSafety == Fifo!Spec

\* A writer waits, with the mutex, for room in the pipe; and the reader, who
\* would make room, waits for that mutex: then only a signal helps.
Jammed == owner # Free /\ tokens = Capacity
Deadlocked == Jammed /\ readerPc \in {"lock", "query"}

\* A get() returns if there are elements that have not lost their token, and with
\* a timeout anyway.
GetReturns ==
  /\ readerPc \in {"read", "lock"} ~>
       readerPc \notin {"read", "lock"} \/ Deadlocked
  /\ (readerPc = "epoll" /\ (mode # "blocking" \/ Len(queue) > lostTokens)) ~>
       readerPc # "epoll"

\* put() returns, unless the pipe is full.
PutReturns ==
  \A w \in Writers : writerPc[w] # "idle" ~> writerPc[w] = "idle" \/ Jammed

\* Every call returns that is not caught in a full pipe.
CallsReturn == GetReturns /\ PutReturns

\* "returns / removes the oldest data entry in the queue": what a get() returns is
\* the oldest element, or nothing if no element has a token and it has a timeout,
\* whatever the order of push_back(), write(), epoll_wait(), read() and
\* pop_front(), of clear() and signals; and the calls do return.
DeliversInOrder == FifoSafety /\ CallsReturn
=============================================================================
