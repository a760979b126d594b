----------------------------- MODULE FifoQueue -----------------------------
(***************************************************************************)
(* What the queues of ThreadSafeQueue.h promise to their threads: first in *)
(* first out, one reading thread, and a get() that returns the oldest      *)
(* element or, if it has a timeout, gives up on an empty queue.            *)
(***************************************************************************)
EXTENDS Sequences

CONSTANTS Elements,   \* the values that are put
          None        \* std::nullopt

VARIABLES items,      \* the elements in the queue
          waiting,    \* the reading thread is in get()
          patient,    \* that get() has no timeout
          got         \* what the last get() returned

vars == <<items, waiting, patient, got>>

Init ==
  /\ items = <<>> /\ waiting = FALSE /\ patient \in BOOLEAN /\ got = None

Put(e) ==
  /\ items' = Append(items, e)
  /\ UNCHANGED <<waiting, patient, got>>

Clear ==
  /\ items' = <<>>
  /\ UNCHANGED <<waiting, patient, got>>

CallGet ==
  /\ ~waiting /\ waiting' = TRUE
  /\ patient' \in BOOLEAN
  /\ UNCHANGED <<items, got>>

Deliver ==
  /\ waiting /\ items # <<>>
  /\ got' = Head(items)
  /\ items' = Tail(items)
  /\ waiting' = FALSE
  /\ UNCHANGED patient

GiveUp ==
  /\ waiting /\ ~patient /\ items = <<>>
  /\ got' = None
  /\ waiting' = FALSE
  /\ UNCHANGED <<items, patient>>

Next ==
  \/ \E e \in Elements : Put(e)
  \/ Clear \/ CallGet \/ Deliver \/ GiveUp

Spec == Init /\ [][Next]_vars

\* A get() returns if there is an element or if it has a timeout.
Fairness == WF_vars(Deliver \/ GiveUp)
=============================================================================
