----------------------- MODULE ManagedFileDescriptor -----------------------
(***************************************************************************)
(* Sloppy::ManagedFileDescriptor: objects that own file descriptors and    *)
(* serialise read(), write(), poll(), close() and the move operations on   *)
(* them with one mutex per object, used by several threads.                *)
(*                                                                         *)
(* The bytes the peer of a descriptor sends are numbered 1, 2, 3, ...; so  *)
(* a read is described by the numbers of the bytes it got.  What is        *)
(* written is described by the calls the bytes belong to.                  *)
(***************************************************************************)
EXTENDS Integers, Sequences

CONSTANTS
  Threads, Objects, Fds,
  Nil,             \* no thread, no descriptor
  InitFd,          \* the descriptor given to each constructor, or Nil
  ReadChunkSize,   \* the default read buffer size
  ReadSizes,       \* the <<minLen, maxLen>> passed to blockingRead()
  Timeouts,        \* the timeouts passed: "zero", "finite", "infinite"
  MovePairs,       \* the <<source, target>> of move operations
  WriteLen,        \* bytes passed to blockingWrite()
  MaxBytes,        \* bound: bytes sent by the peer of each descriptor
  CallBound,        \* bound: calls made by all threads
  Errors           \* TRUE if system calls may fail or be interrupted

ASSUME NilAssumption == Nil \notin Threads \cup Fds
ASSUME InitFdAssumption ==
  /\ InitFd \in [Objects -> Fds \cup {Nil}]
  /\ \A o, p \in Objects : InitFd[o] = InitFd[p] /\ InitFd[o] # Nil => o = p
ASSUME SizesAssumption ==
  /\ ReadChunkSize \in Nat /\ ReadSizes \subseteq Nat \X Nat
  /\ WriteLen \in Nat /\ MaxBytes \in [Fds -> Nat] /\ CallBound \in Nat
ASSUME CallsAssumption ==
  /\ Timeouts \subseteq {"zero", "finite", "infinite"}
  /\ MovePairs \subseteq {m \in Objects \X Objects : m[1] # m[2]}
  /\ Errors \in BOOLEAN

VARIABLES
  fd,          \* per object: the descriptor it owns, or Nil (-1)
  st,          \* per object: the atomic state
  mutex,       \* per object: the thread that holds fdMutex, or Nil
  alive,       \* the objects that have not been destroyed
  open,        \* the descriptors that are open
  released,    \* the descriptors handed back by releaseDescriptor()
  sent,        \* per descriptor: bytes sent by the peer
  taken,       \* per descriptor: bytes read from the kernel
  hungUp,      \* per descriptor: the peer has closed its end
  output,      \* per descriptor: the threads that wrote the bytes so far
  count,       \* calls made
  pc, call,    \* per thread: where it is and what it has called
  got,         \* per thread: the bytes collected in the result buffer
  wrote,       \* per thread: the bytes written by the current call
  expired      \* per thread: the time limit of its call is over

objVars == <<fd, st, mutex, alive>>
kernelVars == <<open, released, sent, taken, hungUp, output>>
threadVars == <<count, pc, call, got, wrote, expired>>
fdVars == <<objVars, kernelVars, threadVars>>

States == {"Idle", "Reading", "Writing", "Polling", "Closed"}
Pcs == {"idle", "lock", "lock2", "writing", "reading", "readPoll", "readCall",
        "readDone", "polling"}
NoCall == [op |-> "none"]

\* A default-constructed object has no read buffer size.
defaultReadBufSize(o) == IF InitFd[o] = Nil THEN 0 ELSE ReadChunkSize

\* A minimum of zero asks for at least one byte, too.
AtLeastOne(n) == IF n = 0 THEN 1 ELSE n

\* The size of the result buffer blockingRead() allocates.
ResultBufSize(o, minLen, maxLen) ==
  LET size == IF minLen = maxLen THEN minLen ELSE defaultReadBufSize(o)
  IN IF maxLen > 0 /\ maxLen < size THEN maxLen ELSE size

Calls ==
  [op : {"write", "close", "release"}, obj : Objects]
  \cup [op : {"poll"}, obj : Objects, tmo : Timeouts]
  \cup [op : {"read"}, obj : Objects, size : ReadSizes, tmo : Timeouts]
  \cup {[op |-> "move", src |-> m[1], obj |-> m[2]] : m \in MovePairs}

minLen(t) == AtLeastOne(call[t].size[1])
bufLen(t) == ResultBufSize(call[t].obj, minLen(t), call[t].size[2])

FdInit ==
  /\ fd = InitFd
  /\ st = [o \in Objects |-> IF InitFd[o] = Nil THEN "Closed" ELSE "Idle"]
  /\ mutex = [o \in Objects |-> Nil]
  /\ alive = Objects
  /\ open = Fds /\ released = {f \in Fds : \A o \in Objects : InitFd[o] # f}
  /\ sent = [f \in Fds |-> 0] /\ taken = [f \in Fds |-> 0]
  /\ hungUp = [f \in Fds |-> FALSE] /\ output = [f \in Fds |-> <<>>]
  /\ count = 0
  /\ pc = [t \in Threads |-> "idle"]
  /\ call = [t \in Threads |-> NoCall]
  /\ got = [t \in Threads |-> <<>>] /\ wrote = [t \in Threads |-> 0]
  /\ expired = [t \in Threads |-> FALSE]

-----------------------------------------------------------------------------
(* Small steps shared by the operations.                                   *)

Goto(t, where) == pc' = [pc EXCEPT ![t] = where]

\* The call of t ends; whether it returns a value or throws an exception makes
\* no difference to what happens next.
Finish(t) ==
  /\ Goto(t, "idle")
  /\ call' = [call EXCEPT ![t] = NoCall]
  /\ got' = [got EXCEPT ![t] = <<>>] /\ wrote' = [wrote EXCEPT ![t] = 0]
  /\ expired' = [expired EXCEPT ![t] = FALSE]
  /\ UNCHANGED count

\* The call of t goes on.
GoOn(t, where) ==
  /\ Goto(t, where)
  /\ UNCHANGED <<count, call, got, wrote, expired>>

SetState(o, s) == st' = [st EXCEPT ![o] = s]
Release(o) == mutex' = [mutex EXCEPT ![o] = Nil]

\* The call of t uses object o.
Uses(t, o) ==
  /\ pc[t] # "idle"
  /\ call[t].obj = o \/ (call[t].op = "move" /\ call[t].src = o)

-----------------------------------------------------------------------------
(* Calls.                                                                  *)

\* A thread calls a method.  blockingRead() throws on contradicting sizes.
Start(t, c) ==
  /\ pc[t] = "idle" /\ count < CallBound
  /\ c.obj \in alive /\ (c.op = "move" => c.src \in alive)
  /\ c.op = "read" => c.size[2] = 0 \/ AtLeastOne(c.size[1]) <= c.size[2]
  /\ count' = count + 1
  /\ call' = [call EXCEPT ![t] = c]
  /\ Goto(t, "lock")
  /\ UNCHANGED <<objVars, kernelVars, got, wrote, expired>>

\* The time limit of a call passes, whatever it is doing.  To poll() zero is a
\* limit like any other, over when the mutex took a millisecond; to
\* blockingRead() it is none.
LimitPasses(t) ==
  /\ pc[t] # "idle" /\ ~expired[t]
  /\ \/ call[t].op \in {"read", "poll"} /\ call[t].tmo = "finite"
     \/ call[t].op = "poll" /\ call[t].tmo = "zero"
  /\ expired' = [expired EXCEPT ![t] = TRUE]
  /\ UNCHANGED <<objVars, kernelVars, count, pc, call, got, wrote>>

-----------------------------------------------------------------------------
(* blockingWrite(), blockingRead() and poll() lock the mutex and give up    *)
(* at once if the state is not Idle.                                       *)

NotIdle(t) ==
  LET o == call[t].obj
  IN /\ pc[t] = "lock" /\ call[t].op \in {"write", "read", "poll"}
     /\ mutex[o] = Nil /\ st[o] # "Idle"
     /\ Finish(t)
     /\ UNCHANGED <<objVars, kernelVars>>

\* The operation begins: the thread keeps the mutex, the state says why.
TakeUp(t, op, state, where) ==
  LET o == call[t].obj
  IN /\ pc[t] = "lock" /\ call[t].op = op
     /\ mutex[o] = Nil /\ st[o] = "Idle"
     /\ mutex' = [mutex EXCEPT ![o] = t]
     /\ SetState(o, state)
     /\ GoOn(t, where)
     /\ UNCHANGED <<fd, alive, kernelVars>>

\* The operation ends with state Idle.
End(t) ==
  LET o == call[t].obj
  IN /\ SetState(o, "Idle") /\ Release(o)
     /\ Finish(t)
     /\ UNCHANGED <<fd, alive, kernelVars>>

BeginWrite(t) == TakeUp(t, "write", "Writing", "writing")

\* The kernel accepts a byte of the write() call.
WriteByte(t) ==
  LET o == call[t].obj
  IN /\ pc[t] = "writing" /\ fd[o] # Nil /\ wrote[t] < WriteLen
     /\ wrote' = [wrote EXCEPT ![t] = @ + 1]
     /\ output' = [output EXCEPT ![fd[o]] = Append(@, t)]
     /\ UNCHANGED <<objVars, open, released, sent, taken, hungUp, count, pc,
                    call, got, expired>>

\* write() returns, or ends with an error or with less than all.
WriteReturn(t) ==
  /\ pc[t] = "writing"
  /\ wrote[t] = WriteLen \/ Errors \/ fd[call[t].obj] = Nil
  /\ End(t)

-----------------------------------------------------------------------------
(* blockingRead(): the state is Idle again after the first poll.           *)

BeginRead(t) == TakeUp(t, "read", "Reading", "reading")

\* Slip: the time limit counts for the first bytes only.
OverdueBeforeFirstByte(t) == call[t].tmo = "finite" /\ expired[t] /\ got[t] = <<>>

Overdue(t) == call[t].tmo = "finite" /\ expired[t]

\* The head of the loop: ReadTimeout is thrown.
ReadTimesOut(t) == pc[t] = "reading" /\ Overdue(t) /\ End(t)

\* readSingleShot() with a full buffer, where more than its size is asked for,
\* throws std::out_of_range and leaves the state as it is; what it has read is
\* lost.
ReadOutOfRange(t) ==
  /\ pc[t] = "reading" /\ ~Overdue(t) /\ Len(got[t]) >= bufLen(t)
  /\ Release(call[t].obj)
  /\ Finish(t)
  /\ UNCHANGED <<fd, st, alive, kernelVars>>

\* poll_internal_noMutex() in readSingleShot().
ReadPoll(t) ==
  /\ pc[t] = "reading" /\ ~Overdue(t) /\ Len(got[t]) < bufLen(t)
  /\ SetState(call[t].obj, "Polling")
  /\ GoOn(t, "readPoll")
  /\ UNCHANGED <<fd, mutex, alive, kernelVars>>

Pending(f) == f # Nil /\ sent[f] > taken[f]
AtEnd(f) == f # Nil /\ sent[f] = taken[f] /\ hungUp[f]

\* poll() reports input: read() follows.
ReadPollInput(t) ==
  LET o == call[t].obj
  IN /\ pc[t] = "readPoll" /\ Pending(fd[o])
     /\ SetState(o, "Idle") /\ GoOn(t, "readCall")
     /\ UNCHANGED <<fd, mutex, alive, kernelVars>>

\* poll() has nothing to report within its time, or only the end of the data.
PollsInVain(t) ==
  LET o == call[t].obj
  IN /\ pc[t] = "readPoll" /\ ~Pending(fd[o])
     /\ AtEnd(fd[o]) \/ call[t].tmo = "zero" \/ expired[t]

\* Slip: the mutex is given back while no bytes are there.
ReadPollNothingUnlocks(t) ==
  LET o == call[t].obj
  IN /\ PollsInVain(t)
     /\ SetState(o, "Idle") /\ Release(o) /\ GoOn(t, "reading")
     /\ UNCHANGED <<fd, alive, kernelVars>>

\* No bytes: the loop goes on, also when the peer has closed the connection.
ReadPollNothing(t) ==
  /\ PollsInVain(t)
  /\ SetState(call[t].obj, "Idle") /\ GoOn(t, "reading")
  /\ UNCHANGED <<fd, mutex, alive, kernelVars>>

\* poll() or read() fails with an IOError; what the call has read is lost.
ReadFails(t) == pc[t] \in {"readPoll", "readCall"} /\ Errors /\ End(t)

\* The bytes read() returns: what is there, as far as it fits.
Chunk(t, f) ==
  LET room == bufLen(t) - Len(got[t])
      avail == sent[f] - taken[f]
  IN [k \in 1..(IF avail < room THEN avail ELSE room) |-> taken[f] + k]

\* bytesRead >= minLen
Enough(t, n) == n >= minLen(t)

\* read() returns; it would block without data.
ReadCall(t) ==
  LET f == fd[call[t].obj]
      chunk == Chunk(t, f)
      bytesRead == Len(got[t]) + Len(chunk)
  IN /\ pc[t] = "readCall" /\ Pending(f)
     /\ got' = [got EXCEPT ![t] = @ \o chunk]
     /\ taken' = [taken EXCEPT ![f] = @ + Len(chunk)]
     /\ Goto(t, IF Enough(t, bytesRead) THEN "readDone" ELSE "reading")
     /\ UNCHANGED <<objVars, open, released, sent, hungUp, output, count, call,
                    wrote, expired>>

ReadReturn(t) == pc[t] = "readDone" /\ End(t)

-----------------------------------------------------------------------------
(* poll() and waitForInput(), close(), releaseDescriptor(), destructor.    *)

\* A negative time limit, or one that is over when the mutex is obtained,
\* ends the call without a poll.
PollTooLate(t) ==
  LET o == call[t].obj
  IN /\ pc[t] = "lock" /\ call[t].op = "poll"
     /\ mutex[o] = Nil /\ st[o] = "Idle"
     /\ call[t].tmo = "infinite" \/ expired[t]
     /\ Finish(t)
     /\ UNCHANGED <<objVars, kernelVars>>

BeginPoll(t) ==
  /\ call[t].op = "poll" => call[t].tmo # "infinite" /\ ~expired[t]
  /\ TakeUp(t, "poll", "Polling", "polling")

PollReturn(t) ==
  LET f == fd[call[t].obj]
  IN /\ pc[t] = "polling"
     /\ Pending(f) \/ AtEnd(f) \/ call[t].tmo = "zero" \/ expired[t] \/ Errors
     /\ End(t)

\* close(): the descriptor is gone even if the system call reports an error,
\* which leaves the state as it was.
Close(t) ==
  LET o == call[t].obj
  IN /\ pc[t] = "lock" /\ call[t].op = "close" /\ mutex[o] = Nil
     /\ fd' = [fd EXCEPT ![o] = Nil]
     /\ open' = open \ {fd[o]}
     /\ \/ fd[o] # Nil /\ SetState(o, "Closed")
        \/ (fd[o] = Nil \/ Errors) /\ UNCHANGED st
     /\ Finish(t)
     /\ UNCHANGED <<mutex, alive, released, sent, taken, hungUp, output>>

\* Slip: an object that owns nothing hands out its -1 like a descriptor.
ReleaseInvalid(t) ==
  LET o == call[t].obj
  IN /\ pc[t] = "lock" /\ call[t].op = "release" /\ mutex[o] = Nil
     /\ IF st[o] # "Idle" THEN UNCHANGED <<fd, released>>
        ELSE fd' = [fd EXCEPT ![o] = Nil] /\ released' = released \cup {fd[o]}
     /\ Finish(t)
     /\ UNCHANGED <<st, mutex, alive, open, sent, taken, hungUp, output>>

\* releaseDescriptor(): the state remains Idle.
ReleaseDescriptor(t) ==
  LET o == call[t].obj
  IN /\ pc[t] = "lock" /\ call[t].op = "release" /\ mutex[o] = Nil
     /\ IF st[o] # "Idle" THEN UNCHANGED <<fd, released>>
        ELSE /\ fd' = [fd EXCEPT ![o] = Nil]
             /\ released' = released \cup ({fd[o]} \ {Nil})
     /\ Finish(t)
     /\ UNCHANGED <<st, mutex, alive, open, sent, taken, hungUp, output>>

\* Slip: the destructor closes what is Idle.
DestroyIfIdle(o) ==
  /\ o \in alive /\ (\A t \in Threads : ~Uses(t, o))
  /\ alive' = alive \ {o}
  /\ open' = IF st[o] = "Idle" THEN open \ {fd[o]} ELSE open
  /\ fd' = [fd EXCEPT ![o] = Nil]
  /\ UNCHANGED <<st, mutex, released, sent, taken, hungUp, output, threadVars>>

\* The destructor, when no call on the object is in progress.
Destroy(o) ==
  /\ o \in alive /\ (\A t \in Threads : ~Uses(t, o))
  /\ alive' = alive \ {o}
  /\ open' = IF st[o] # "Closed" THEN open \ {fd[o]} ELSE open
  /\ fd' = [fd EXCEPT ![o] = Nil]
  /\ UNCHANGED <<st, mutex, released, sent, taken, hungUp, output, threadVars>>

-----------------------------------------------------------------------------
(* Move construction (into a default-constructed object) and assignment:   *)
(* the source is locked first, then the target.                            *)

LockSource(t) ==
  /\ pc[t] = "lock" /\ call[t].op = "move" /\ mutex[call[t].src] = Nil
  /\ mutex' = [mutex EXCEPT ![call[t].src] = t]
  /\ GoOn(t, "lock2")
  /\ UNCHANGED <<fd, st, alive, kernelVars>>

\* The target closes what it owns; if that fails nothing is transferred.
Move(t) ==
  LET o == call[t].obj
      s == call[t].src
  IN /\ pc[t] = "lock2" /\ mutex[o] = Nil
     /\ open' = open \ {fd[o]}
     /\ \/ /\ fd' = [fd EXCEPT ![o] = fd[s], ![s] = Nil]
           /\ st' = [st EXCEPT ![o] = st[s], ![s] = "Closed"]
        \/ /\ Errors /\ fd[o] # Nil
           /\ fd' = [fd EXCEPT ![o] = Nil] /\ UNCHANGED st
     /\ Release(s) /\ Finish(t)
     /\ UNCHANGED <<alive, released, sent, taken, hungUp, output>>

-----------------------------------------------------------------------------
(* The peers.                                                              *)

PeerSend(f) ==
  /\ f \in open /\ ~hungUp[f] /\ sent[f] < MaxBytes[f]
  /\ sent' = [sent EXCEPT ![f] = @ + 1]
  /\ UNCHANGED <<objVars, open, released, taken, hungUp, output, threadVars>>

PeerHangUp(f) ==
  /\ f \in open /\ ~hungUp[f]
  /\ hungUp' = [hungUp EXCEPT ![f] = TRUE]
  /\ UNCHANGED <<objVars, open, released, sent, taken, output, threadVars>>

-----------------------------------------------------------------------------
Locking(t) ==
  \/ NotIdle(t) \/ BeginWrite(t) \/ BeginRead(t) \/ PollTooLate(t) \/ BeginPoll(t)
  \/ Close(t) \/ ReleaseDescriptor(t) \/ LockSource(t) \/ Move(t)

CallSteps(t) ==
  \/ WriteByte(t) \/ WriteReturn(t)
  \/ ReadTimesOut(t) \/ ReadOutOfRange(t) \/ ReadPoll(t) \/ ReadPollInput(t)
  \/ ReadPollNothing(t) \/ ReadFails(t) \/ ReadCall(t) \/ ReadReturn(t)
  \/ PollReturn(t)

FdNext ==
  \/ \E t \in Threads :
       \/ \E c \in Calls : Start(t, c)
       \/ LimitPasses(t) \/ Locking(t) \/ CallSteps(t)
  \/ \E o \in Objects : Destroy(o)
  \/ \E f \in Fds : PeerSend(f) \/ PeerHangUp(f)

FdSpec == FdInit /\ [][FdNext]_fdVars

\* A thread is scheduled, time passes, the kernel accepts what is written, and
\* a mutex that stays free is obtained.
FdFairness ==
  \A t \in Threads :
    WF_fdVars(LimitPasses(t)) /\ WF_fdVars(Locking(t) \/ CallSteps(t))
FairFdSpec == FdSpec /\ FdFairness

-----------------------------------------------------------------------------
(* Properties.                                                             *)

FdTypeOK ==
  /\ fd \in [Objects -> Fds \cup {Nil}]
  /\ st \in [Objects -> States]
  /\ mutex \in [Objects -> Threads \cup {Nil}]
  /\ alive \subseteq Objects
  /\ open \subseteq Fds /\ released \subseteq Fds
  /\ sent \in [Fds -> Nat] /\ taken \in [Fds -> Nat]
  /\ hungUp \in [Fds -> BOOLEAN]
  /\ output \in [Fds -> Seq(Threads)]
  /\ count \in Nat
  /\ pc \in [Threads -> Pcs]
  /\ call \in [Threads -> Calls \cup {NoCall}]
  /\ got \in [Threads -> Seq(Nat)]
  /\ wrote \in [Threads -> Nat]
  /\ expired \in [Threads -> BOOLEAN]

\* Every open descriptor has exactly one owner, an object or the caller of
\* releaseDescriptor(): none leaks, none is closed twice or used by two.
OneOwner ==
  /\ \A o, p \in Objects : fd[o] = fd[p] /\ fd[o] # Nil => o = p
  /\ \A o \in Objects : fd[o] # Nil => fd[o] \in open \ released
  /\ \A f \in open : f \in released \/ \E o \in alive : fd[o] = f

\* The objects without a read buffer size, and those that moves lead to from
\* them: a move takes the state of the source along.
MayBeStuck(o) ==
  \A S \in SUBSET Objects :
    /\ {p \in Objects : defaultReadBufSize(p) = 0} \subseteq S
    /\ \A m \in MovePairs : m[1] \in S => m[2] \in S
    => o \in S

\* Idle or Closed; the one exception is what a failed read leaves behind on an
\* object that was default-constructed before it became the target of a move.
NotBusy(o) == st[o] \in {"Idle", "Closed"} \/ (st[o] = "Reading" /\ MayBeStuck(o))

\* Between the calls no object is busy.
UnlockedNotBusy == \A o \in Objects : mutex[o] = Nil => NotBusy(o)

\* The bytes of one read follow one another in the stream, even if they come
\* in several chunks and other threads read, too.
ReadsContiguous ==
  \A t \in Threads : \A k \in DOMAIN got[t] : got[t][k] = got[t][1] + k - 1

\* The bytes of one write are not mixed with those of another.
WritesContiguous ==
  \A t \in Threads : pc[t] = "writing" /\ wrote[t] > 0 =>
    \E f \in Fds :
      /\ f = fd[call[t].obj]
      /\ \A k \in 0..(wrote[t] - 1) : output[f][Len(output[f]) - k] = t

\* A read that succeeds delivers minLen bytes or more, and at most maxLen.
ReadDelivers ==
  \A t \in Threads : pc[t] = "readDone" =>
    /\ Len(got[t]) >= minLen(t)
    /\ call[t].size[2] > 0 => Len(got[t]) <= call[t].size[2]

\* What has been read last from a descriptor is in the buffer of the read that
\* goes on: between its chunks no byte of the stream goes elsewhere.
ReadsKeep ==
  \A t \in Threads : got[t] # <<>> =>
    LET f == fd[call[t].obj] IN f # Nil /\ got[t][Len(got[t])] = taken[f]

\* Several threads share a stream in either direction: their data is not mixed
\* and none is skipped.  That a read which fails half way (ReadFails,
\* ReadOutOfRange) loses what it had is no part of this.
DataKeptTogether == ReadsContiguous /\ ReadsKeep /\ WritesContiguous /\ ReadDelivers

\* The read of t goes on until there is data, however long that takes.  The code
\* has two such reads: one without a time limit, and one with limit zero.
ReadsForEver(t) ==
  /\ pc[t] \in {"reading", "readPoll"} /\ call[t].tmo # "finite"
  /\ ~Pending(fd[call[t].obj])

\* A call returns unless a read that waits for data keeps the mutex.
FdCallsReturn ==
  \A t \in Threads :
    pc[t] # "idle" ~> pc[t] = "idle" \/ \E u \in Threads : ReadsForEver(u)

\* blockingRead(), "timeout (0 = return immediatly, even if no data is avail)": a
\* read with time limit zero returns when it has polled.  The code does not keep
\* this: its loop goes round until there is data, with the mutex held.
ZeroReturnsAtOnce ==
  \A t \in Threads :
    pc[t] = "readPoll" /\ call[t].tmo = "zero" ~> pc[t] # "readPoll" /\ pc[t] # "reading"

\* An object stays usable: no call leaves it busy for ever, neither by keeping
\* its mutex nor by leaving its state behind when it gives the mutex back.
StaysUsable == []UnlockedNotBusy /\ FdCallsReturn
=============================================================================
