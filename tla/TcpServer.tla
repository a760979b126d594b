----------------------------- MODULE TcpServer -----------------------------
(***************************************************************************)
(* TcpServerWrapper and AbstractWorker (Net/TcpClientServer): one thread   *)
(* accepts connections, gives each a worker with a thread of its own, and  *)
(* joins and deletes the workers that are done; a stop request ends it     *)
(* after all its workers.  What a worker does is left to the module that   *)
(* extends this one: it reads preemption (ps) whenever it waits for data.  *)
(***************************************************************************)
EXTENDS Sequences, Integers

CONSTANTS
  Connections,     \* the connections that clients ever open
  maxConCount      \* listen(): connections that wait to be accepted

ASSUME ServerAssumption == maxConCount \in Nat \ {0}

VARIABLES
  mainLoop,        \* where mainLoop() is
  at,              \* its position in the list of workers
  backlog,         \* connections that wait to be accepted
  workers,         \* workerObjects and workerThreads, in parallel
  isStopRequested,
  ws,              \* per connection the status of its worker and thread
  ps               \* per connection what its worker is asked to do

serverVars == <<mainLoop, at, backlog, workers, isStopRequested, ws, ps>>

ServerTypeOK ==
  /\ mainLoop \in {"accept", "sweep", "quit", "join", "ended", "terminated"}
  /\ at \in Nat \ {0}
  /\ {backlog, workers} \subseteq Seq(Connections)
  /\ Len(backlog) <= maxConCount
  /\ isStopRequested \in BOOLEAN
  /\ ws \in [Connections -> {"None", "Refused", "Ready", "Running", "Done",
                             "Exited", "Deleted"}]
  /\ ps \in [Connections -> {"Continue", "Quit"}]

ServerInit ==
  /\ mainLoop = "accept" /\ at = 1
  /\ backlog = <<>> /\ workers = <<>>
  /\ isStopRequested = FALSE
  /\ ws = [k \in Connections |-> "None"]
  /\ ps = [k \in Connections |-> "Continue"]

-----------------------------------------------------------------------------
(* A new thread takes its worker from a variable of the accepting thread,  *)
(* captured by reference.  ASSUMED, as nothing in the code makes sure of   *)
(* it: it has done so before the variable is written again, by the next    *)
(* connection.  Left out are a factory and a start of a thread that throw. *)
ThreadsHaveStarted == \A k \in Connections : ws[k] # "Ready"

(* The slip that counts from zero.                                         *)
GoToZero(place) == mainLoop' = place /\ at' = 0
GoTo(place) == mainLoop' = place /\ at' = 1

(* acceptNext(): a connection, for which the factory has a worker or not,  *)
(* or none within the cycle time.                                          *)
Accept ==
  /\ mainLoop = "accept" /\ backlog # <<>> /\ ThreadsHaveStarted
  /\ LET k == Head(backlog) IN
       \/ /\ ws' = [ws EXCEPT ![k] = "Ready"]
          /\ workers' = Append(workers, k)
       \/ /\ ws' = [ws EXCEPT ![k] = "Refused"]
          /\ UNCHANGED workers
  /\ backlog' = Tail(backlog)
  /\ GoTo("sweep")
  /\ UNCHANGED <<isStopRequested, ps>>

AcceptTimeout ==
  /\ mainLoop = "accept" /\ backlog = <<>>
  /\ GoTo("sweep")
  /\ UNCHANGED <<backlog, workers, isStopRequested, ws, ps>>

(* The clean-up after every cycle: a worker that is done is deleted when   *)
(* its thread has ended, which join() waits for.                           *)
Joined(k) == ws[k] = "Exited"

SweepNext ==
  /\ mainLoop = "sweep" /\ at <= Len(workers)
  /\ IF ws[workers[at]] \in {"Done", "Exited"}
       THEN /\ Joined(workers[at])
            /\ ws' = [ws EXCEPT ![workers[at]] = "Deleted"]
            /\ workers' = SubSeq(workers, 1, at - 1) \o SubSeq(workers, at + 1, Len(workers))
            /\ UNCHANGED at
       ELSE /\ at' = at + 1
            /\ UNCHANGED <<ws, workers>>
  /\ UNCHANGED <<mainLoop, backlog, isStopRequested, ps>>

SweepEnds ==
  /\ mainLoop = "sweep" /\ at > Len(workers)
  /\ GoTo(IF isStopRequested THEN "quit" ELSE "accept")
  /\ UNCHANGED <<backlog, workers, isStopRequested, ws, ps>>

(* The slip of a stop that does not ask the workers.                       *)
JoinWithoutAsking ==
  /\ mainLoop = "quit"
  /\ GoTo("join")
  /\ UNCHANGED <<backlog, workers, isStopRequested, ws, ps>>

(* After a stop request all workers are asked to quit, then joined.        *)
RequestQuit ==
  /\ mainLoop = "quit"
  /\ IF at <= Len(workers)
       THEN /\ ps' = [ps EXCEPT ![workers[at]] = "Quit"]
            /\ at' = at + 1 /\ UNCHANGED mainLoop
       ELSE GoTo("join") /\ UNCHANGED ps
  /\ UNCHANGED <<backlog, workers, isStopRequested, ws>>

JoinAll ==
  /\ mainLoop = "join"
  /\ IF at <= Len(workers)
       THEN /\ Joined(workers[at])
            /\ at' = at + 1 /\ UNCHANGED <<mainLoop, workers, ws>>
       ELSE /\ GoTo("ended")
            /\ workers' = <<>>
            /\ ws' = [k \in Connections |-> IF ws[k] = "Exited" THEN "Deleted" ELSE ws[k]]
  /\ UNCHANGED <<backlog, isStopRequested, ps>>

MainLoop == Accept \/ AcceptTimeout \/ SweepNext \/ SweepEnds \/ RequestQuit \/ JoinAll

RequestStop ==
  /\ ~isStopRequested
  /\ isStopRequested' = TRUE
  /\ UNCHANGED <<mainLoop, at, backlog, workers, ws, ps>>

-----------------------------------------------------------------------------
(* run(), in the thread of a worker: the status before and after the work, *)
(* and the end of the thread.                                              *)
Running(k) == ws[k] = "Running" /\ mainLoop # "terminated"

SetStatus(k, from, to) ==
  /\ mainLoop # "terminated"
  /\ ws[k] = from
  /\ ws' = [ws EXCEPT ![k] = to]
  /\ UNCHANGED <<mainLoop, at, backlog, workers, isStopRequested, ps>>

RunBegins(k) == SetStatus(k, "Ready", "Running")
RunEnds(k) == SetStatus(k, "Running", "Done")
ThreadExits(k) == SetStatus(k, "Done", "Exited")

(* An exception that leaves run() ends the process: nothing catches it.    *)
Terminate ==
  /\ mainLoop' = "terminated"
  /\ UNCHANGED <<at, backlog, workers, isStopRequested, ws, ps>>
-----------------------------------------------------------------------------
(* The accepting thread forgets no worker and keeps none twice: until it   *)
(* ends every thread it has started is in its list, once, until it has     *)
(* been joined; it joins the rest only when all of them have been asked to *)
(* quit; and when it ends, which deletes the workers, no thread is left    *)
(* that may still use one.                                                 *)
HasThread(k) == ws[k] \in {"Ready", "Running", "Done", "Exited"}

KeptOnce ==
  mainLoop # "ended" =>
    /\ \A k \in Connections : HasThread(k) <=> \E i \in DOMAIN workers : workers[i] = k
    /\ \A i, j \in DOMAIN workers : workers[i] = workers[j] => i = j
AskedFirst == mainLoop = "join" => \A i \in DOMAIN workers : ps[workers[i]] = "Quit"
NoneLeft == mainLoop = "ended" => \A k \in Connections : ~HasThread(k)
=============================================================================
