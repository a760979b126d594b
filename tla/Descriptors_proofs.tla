------------------------ MODULE Descriptors_proofs ------------------------
(***************************************************************************)
(* Theorems about what works on descriptors: ManagedFileDescriptor, for    *)
(* any threads, objects, descriptors, buffer sizes and time limits, and    *)
(* SubProcess, for any set of commands, any pipe capacity and any read     *)
(* buffer size.  The two specifications share nothing.                     *)
(***************************************************************************)
EXTENDS ManagedFileDescriptor, SubProcess, TLAPS

ReadPcs == {"reading", "readPoll", "readCall", "readDone"}
BusyPcs == ReadPcs \cup {"writing", "polling"}   \* the object's mutex is held

\* A call in progress is one of Calls, on objects that live, and is where its
\* operation leads.
CallInv ==
  \A t \in Threads : pc[t] # "idle" =>
    /\ call[t] \in Calls
    /\ call[t].obj \in alive /\ (call[t].op = "move" => call[t].src \in alive)
    /\ pc[t] \in ReadPcs => call[t].op = "read"
    /\ pc[t] = "writing" => call[t].op = "write"
    /\ pc[t] = "polling" => call[t].op = "poll"
    /\ pc[t] = "lock2" => call[t].op = "move"

\* A closed object owns nothing, a destroyed one neither; every descriptor has
\* one owner.
OwnerInv ==
  /\ \A o \in Objects : fd[o] # Nil => st[o] # "Closed" /\ o \in alive
  /\ OneOwner

\* A running operation holds the mutex of its object, a move half way that of
\* its source.
MutexInv ==
  \A t \in Threads :
    /\ pc[t] \in BusyPcs => mutex[call[t].obj] = t
    /\ pc[t] = "lock2" => mutex[call[t].src] = t

\* The bytes collected are those taken last; what poll() reported is there.
ReadInvOf(t) ==
  /\ \A k \in DOMAIN got[t] : got[t][k] = got[t][1] + k - 1
  /\ pc[t] \notin ReadPcs => got[t] = <<>>
  /\ pc[t] \in ReadPcs /\ got[t] # <<>> =>
       LET f == fd[call[t].obj] IN f # Nil /\ got[t][Len(got[t])] = taken[f]
  /\ pc[t] \in {"readPoll", "readCall"} => Len(got[t]) < bufLen(t)
  /\ pc[t] = "readCall" => Pending(fd[call[t].obj])

ReadInv == \A t \in Threads : ReadInvOf(t)

IInv == FdTypeOK /\ CallInv /\ OwnerInv /\ MutexInv /\ ReadInv

\* What the fields of a call contain.
LEMMA CallFields ==
  ASSUME NEW c \in Calls
  PROVE  /\ c.obj \in Objects
         /\ c.op \in {"write", "close", "release", "poll", "read", "move"}
         /\ c.op = "move" => c.src \in Objects /\ c.src # c.obj
         /\ c.op = "read" => c.size \in Nat \X Nat
BY CallsAssumption, SizesAssumption DEF Calls

\* The steps of the threads, with the call of the thread spelled out.
LEMMA Cases ==
  ASSUME [FdNext]_fdVars, CallInv
  PROVE  \/ \E t \in Threads, c \in Calls : Start(t, c)
         \/ \E t \in Threads :
              /\ pc[t] # "idle" /\ call[t] \in Calls /\ call[t].obj \in alive
              /\ LimitPasses(t) \/ Locking(t) \/ CallSteps(t)
         \/ \E o \in Objects : Destroy(o)
         \/ \E f \in Fds : PeerSend(f) \/ PeerHangUp(f)
         \/ UNCHANGED fdVars
<1>1. ASSUME NEW t \in Threads, LimitPasses(t) \/ Locking(t) \/ CallSteps(t)
      PROVE  pc[t] # "idle" /\ call[t] \in Calls /\ call[t].obj \in alive
  <2>1. pc[t] # "idle"
    BY <1>1 DEF LimitPasses, Locking, CallSteps, NotIdle, BeginWrite, BeginRead, PollTooLate,
       BeginPoll, TakeUp, Close, ReleaseDescriptor, LockSource, Move, WriteByte,
       WriteReturn, ReadTimesOut, ReadOutOfRange, ReadPoll, ReadPollInput,
       ReadPollNothing, PollsInVain, ReadFails, ReadCall, ReadReturn, PollReturn
  <2> QED
    BY <2>1 DEF CallInv
<1> QED
  BY <1>1 DEF FdNext

LEMMA FinishType ==
  ASSUME FdTypeOK, NEW t \in Threads, Finish(t)
  PROVE  /\ count' \in Nat /\ pc' \in [Threads -> Pcs]
         /\ call' \in [Threads -> Calls \cup {NoCall}]
         /\ got' \in [Threads -> Seq(Nat)] /\ wrote' \in [Threads -> Nat]
         /\ expired' \in [Threads -> BOOLEAN]
<1>1. got' \in [Threads -> Seq(Nat)] /\ wrote' \in [Threads -> Nat]
  BY DEF Finish, FdTypeOK
<1>2. expired' \in [Threads -> BOOLEAN]
  BY DEF Finish, FdTypeOK
<1> QED
  BY <1>1, <1>2 DEF Finish, FdTypeOK, Goto, Pcs

LEMMA BeginType ==
  ASSUME FdTypeOK, NEW t \in Threads, call[t].obj \in Objects,
         NEW op, NEW state \in States, NEW where \in Pcs, TakeUp(t, op, state, where)
  PROVE  FdTypeOK'
BY DEF TakeUp, SetState, GoOn, Goto, FdTypeOK, kernelVars

\* The bytes of a chunk: there is at least one, and they follow one another.
LEMMA ChunkIsRun ==
  ASSUME NEW t \in Threads, NEW f \in Fds, FdTypeOK, Pending(f),
         bufLen(t) \in Nat, Len(got[t]) < bufLen(t)
  PROVE  /\ Chunk(t, f) \in Seq(Nat) /\ Len(Chunk(t, f)) \in Nat \ {0}
         /\ \A k \in 1..Len(Chunk(t, f)) : Chunk(t, f)[k] = taken[f] + k
         /\ taken[f] + Len(Chunk(t, f)) <= sent[f]
         /\ Len(got[t]) + Len(Chunk(t, f)) <= bufLen(t)
<1> DEFINE room == bufLen(t) - Len(got[t])
           avail == sent[f] - taken[f]
           n == IF avail < room THEN avail ELSE room
<1>1. room \in Nat \ {0} /\ avail \in Nat \ {0} /\ taken[f] \in Nat
  BY DEF FdTypeOK, Pending
<1>2. n \in Nat \ {0} /\ n <= room /\ n <= avail
  BY <1>1
<1>3. Chunk(t, f) = [k \in 1..n |-> taken[f] + k]
  BY DEF Chunk
<1>4. Len(got[t]) \in Nat /\ sent[f] \in Nat
  BY DEF FdTypeOK
<1> HIDE DEF n
<1>5. Chunk(t, f) \in Seq(Nat) /\ Len(Chunk(t, f)) = n
  BY <1>1, <1>2, <1>3
<1> QED
  BY <1>1, <1>2, <1>3, <1>4, <1>5

\* The size of a result buffer is a number.
LEMMA BufLenNat ==
  ASSUME NEW t \in Threads, call[t] \in Calls, call[t].op = "read"
  PROVE  bufLen(t) \in Nat /\ minLen(t) \in Nat \ {0}
BY CallFields, SizesAssumption
   DEF bufLen, minLen, AtLeastOne, ResultBufSize, defaultReadBufSize

LEMMA TypeStep == IInv /\ [FdNext]_fdVars => FdTypeOK'
<1> SUFFICES ASSUME IInv, [FdNext]_fdVars PROVE FdTypeOK'
  OBVIOUS
<1> USE DEF IInv
<1>1. ASSUME NEW t \in Threads, NEW c \in Calls, Start(t, c) PROVE FdTypeOK'
  BY <1>1 DEF Start, FdTypeOK, objVars, kernelVars, Goto, Pcs
<1>2. ASSUME NEW t \in Threads, call[t] \in Calls, LimitPasses(t) PROVE FdTypeOK'
  BY <1>2 DEF LimitPasses, FdTypeOK, objVars, kernelVars
<1>3. ASSUME NEW t \in Threads, call[t] \in Calls, Locking(t) PROVE FdTypeOK'
  <2> DEFINE o == call[t].obj
  <2>0. o \in Objects
    BY <1>3, CallFields
  <2>1. CASE NotIdle(t) \/ PollTooLate(t)
    <3>1. Finish(t) /\ UNCHANGED <<objVars, kernelVars>>
      BY <2>1 DEF NotIdle, PollTooLate
    <3> QED
      BY <3>1, FinishType DEF FdTypeOK, objVars, kernelVars
  <2>2. CASE BeginWrite(t) \/ BeginRead(t) \/ BeginPoll(t)
    BY <2>0, <2>2, BeginType DEF BeginWrite, BeginRead, BeginPoll, Pcs, States
  <2>3. CASE Close(t)
    <3>1. Finish(t)
      BY <2>3 DEF Close
    <3>2. fd' \in [Objects -> Fds \cup {Nil}] /\ st' \in [Objects -> States]
          /\ open' \subseteq Fds
      BY <2>0, <2>3 DEF Close, FdTypeOK, SetState, States
    <3> QED
      BY <2>3, <3>1, <3>2, FinishType DEF Close, FdTypeOK
  <2>4. CASE ReleaseDescriptor(t)
    <3>1. Finish(t)
      BY <2>4 DEF ReleaseDescriptor
    <3>2. fd' \in [Objects -> Fds \cup {Nil}] /\ released' \subseteq Fds
      <4>1. CASE st[o] # "Idle"
        BY <2>4, <4>1 DEF ReleaseDescriptor, FdTypeOK
      <4>2. CASE st[o] = "Idle"
        <5>1. /\ fd' = [fd EXCEPT ![o] = Nil]
              /\ released' = released \cup ({fd[o]} \ {Nil})
          BY <2>4, <4>2 DEF ReleaseDescriptor
        <5>2. {fd[o]} \ {Nil} \subseteq Fds
          BY <2>0 DEF FdTypeOK
        <5> QED
          BY <5>1, <5>2 DEF FdTypeOK
      <4> QED
        BY <4>1, <4>2
    <3> QED
      BY <2>4, <3>1, <3>2, FinishType DEF ReleaseDescriptor, FdTypeOK
  <2>5. CASE LockSource(t)
    BY <1>3, <2>5, CallFields DEF LockSource, GoOn, Goto, FdTypeOK, kernelVars, Pcs
  <2>6. CASE Move(t)
    <3>1. call[t].src \in Objects
      BY <1>3, <2>6, CallFields DEF Move, CallInv
    <3> QED
      BY <2>0, <2>6, <3>1, FinishType DEF Move, FdTypeOK, Release, States
  <2> QED
    BY <1>3, <2>1, <2>2, <2>3, <2>4, <2>5, <2>6 DEF Locking
<1>4. ASSUME NEW t \in Threads, call[t] \in Calls, CallSteps(t) PROVE FdTypeOK'
  <2> DEFINE o == call[t].obj
  <2>0. o \in Objects
    BY <1>4, CallFields
  <2>1. ASSUME End(t) PROVE FdTypeOK'
    BY <2>0, <2>1, FinishType DEF End, SetState, Release, FdTypeOK, kernelVars, States
  <2>2. CASE WriteReturn(t) \/ ReadTimesOut(t) \/ ReadFails(t) \/ ReadReturn(t)
             \/ PollReturn(t)
    BY <2>1, <2>2 DEF WriteReturn, ReadTimesOut, ReadFails, ReadReturn, PollReturn
  <2>3. CASE WriteByte(t)
    BY <2>0, <2>3 DEF WriteByte, FdTypeOK, objVars
  <2>4. CASE ReadOutOfRange(t)
    BY <2>0, <2>4, FinishType DEF ReadOutOfRange, Release, FdTypeOK, kernelVars
  <2>5. CASE ReadPoll(t) \/ ReadPollInput(t) \/ ReadPollNothing(t)
    BY <2>0, <2>5 DEF ReadPoll, ReadPollInput, ReadPollNothing, PollsInVain, SetState, GoOn,
       Goto, FdTypeOK, kernelVars, Pcs, States
  <2>6. CASE ReadCall(t)
    <3> DEFINE f == fd[o]
               chunk == Chunk(t, f)
    <3>1. /\ f \in Fds /\ Pending(f) /\ Len(got[t]) < bufLen(t)
          /\ bufLen(t) \in Nat
      BY <2>0, <2>6, BufLenNat
         DEF ReadCall, ReadInv, ReadInvOf, ReadPcs, CallInv, Pending, FdTypeOK
    <3>2. chunk \in Seq(Nat) /\ Len(chunk) \in Nat
      BY <3>1, ChunkIsRun
    <3> HIDE DEF chunk
    <3>3. got' = [got EXCEPT ![t] = @ \o chunk]
          /\ taken' = [taken EXCEPT ![f] = @ + Len(chunk)]
          /\ (Goto(t, "readDone") \/ Goto(t, "reading"))
      BY <2>6 DEF ReadCall, chunk
    <3>4. got[t] \o chunk \in Seq(Nat) /\ taken[f] + Len(chunk) \in Nat
      BY <3>1, <3>2 DEF FdTypeOK
    <3>5. got' \in [Threads -> Seq(Nat)] /\ taken' \in [Fds -> Nat]
      BY <3>1, <3>3, <3>4 DEF FdTypeOK
    <3>6. pc' \in [Threads -> Pcs]
      BY <3>3 DEF FdTypeOK, Goto, Pcs
    <3> QED
      BY <2>6, <3>5, <3>6 DEF ReadCall, FdTypeOK, objVars
  <2> QED
    BY <1>4, <2>2, <2>3, <2>4, <2>5, <2>6 DEF CallSteps
<1>5. ASSUME NEW o \in Objects, Destroy(o) PROVE FdTypeOK'
  BY <1>5 DEF Destroy, FdTypeOK, threadVars
<1>6. ASSUME NEW f \in Fds, PeerSend(f) \/ PeerHangUp(f) PROVE FdTypeOK'
  <2>1. CASE PeerSend(f)
    BY <2>1 DEF PeerSend, FdTypeOK, objVars, threadVars
  <2>2. CASE PeerHangUp(f)
    BY <2>2 DEF PeerHangUp, FdTypeOK, objVars, threadVars
  <2> QED
    BY <1>6, <2>1, <2>2
<1>7. CASE UNCHANGED fdVars
  BY <1>7 DEF fdVars, objVars, kernelVars, threadVars, FdTypeOK
<1> QED
  BY <1>1, <1>2, <1>3, <1>4, <1>5, <1>6, <1>7, Cases

-----------------------------------------------------------------------------

LEMMA CallStep == IInv /\ [FdNext]_fdVars => CallInv'
<1> SUFFICES ASSUME IInv, [FdNext]_fdVars PROVE CallInv'
  OBVIOUS
<1> USE DEF IInv
<1>1. ASSUME NEW t \in Threads, NEW c \in Calls, Start(t, c) PROVE CallInv'
  BY <1>1 DEF Start, CallInv, FdTypeOK, objVars, Goto, ReadPcs
<1>2. ASSUME NEW t \in Threads, LimitPasses(t) PROVE CallInv'
  BY <1>2 DEF LimitPasses, CallInv, objVars
<1>3. ASSUME NEW t \in Threads, Finish(t), alive' = alive PROVE CallInv'
  BY <1>3 DEF Finish, Goto, CallInv, FdTypeOK
<1>4. ASSUME NEW t \in Threads, NEW where, Goto(t, where), alive' = alive,
             call' = call, pc[t] # "idle", where \in Pcs \ {"idle"},
             where \in ReadPcs => call[t].op = "read",
             where = "writing" => call[t].op = "write",
             where = "polling" => call[t].op = "poll",
             where = "lock2" => call[t].op = "move"
      PROVE  CallInv'
  BY <1>4 DEF Goto, CallInv, FdTypeOK
<1> USE DEF Pcs, ReadPcs
<1>5. ASSUME NEW t \in Threads, Locking(t) PROVE CallInv'
  <2>1. CASE NotIdle(t) \/ PollTooLate(t) \/ Close(t) \/ ReleaseDescriptor(t) \/ Move(t)
    BY <1>3, <2>1 DEF NotIdle, PollTooLate, Close, ReleaseDescriptor, Move, objVars
  <2>2. CASE BeginWrite(t)
    BY <1>4, <2>2 DEF BeginWrite, TakeUp, GoOn
  <2>3. CASE BeginRead(t)
    BY <1>4, <2>3 DEF BeginRead, TakeUp, GoOn
  <2>4. CASE BeginPoll(t)
    BY <1>4, <2>4 DEF BeginPoll, TakeUp, GoOn
  <2>5. CASE LockSource(t)
    BY <1>4, <2>5 DEF LockSource, GoOn
  <2> QED
    BY <1>5, <2>1, <2>2, <2>3, <2>4, <2>5 DEF Locking
<1>6. ASSUME NEW t \in Threads, CallSteps(t) PROVE CallInv'
  <2>1. CASE WriteReturn(t) \/ ReadTimesOut(t) \/ ReadFails(t) \/ ReadReturn(t)
             \/ PollReturn(t) \/ ReadOutOfRange(t)
    BY <1>3, <2>1 DEF WriteReturn, ReadTimesOut, ReadFails, ReadReturn, PollReturn, End,
       ReadOutOfRange
  <2>2. CASE WriteByte(t)
    BY <2>2 DEF WriteByte, CallInv, objVars
  <2>3. CASE ReadPoll(t)
    BY <1>4, <2>3 DEF ReadPoll, GoOn, CallInv
  <2>4. CASE ReadPollInput(t)
    BY <1>4, <2>4 DEF ReadPollInput, GoOn, CallInv
  <2>5. CASE ReadPollNothing(t)
    BY <1>4, <2>5 DEF ReadPollNothing, PollsInVain, GoOn, CallInv
  <2>6. CASE ReadCall(t)
    BY <1>4, <2>6 DEF ReadCall, objVars, CallInv
  <2> QED
    BY <1>6, <2>1, <2>2, <2>3, <2>4, <2>5, <2>6 DEF CallSteps
<1>7. ASSUME NEW o \in Objects, Destroy(o) PROVE CallInv'
  BY <1>7 DEF Destroy, Uses, CallInv, threadVars
<1>8. ASSUME NEW f \in Fds, PeerSend(f) \/ PeerHangUp(f) PROVE CallInv'
  BY <1>8 DEF PeerSend, PeerHangUp, CallInv, objVars, threadVars
<1>9. CASE UNCHANGED fdVars
  BY <1>9 DEF fdVars, objVars, threadVars, CallInv
<1> QED
  BY <1>1, <1>2, <1>5, <1>6, <1>7, <1>8, <1>9 DEF FdNext

LEMMA OwnerStep == IInv /\ [FdNext]_fdVars => OwnerInv'
<1> SUFFICES ASSUME IInv, [FdNext]_fdVars PROVE OwnerInv'
  OBVIOUS
<1> USE DEF IInv
\* Steps that transfer nothing.
<1>1. ASSUME UNCHANGED <<fd, alive, open, released>>,
             \A o \in Objects : st'[o] = st[o] \/ st'[o] # "Closed"
      PROVE  OwnerInv'
  BY <1>1 DEF OwnerInv, OneOwner
<1>2. ASSUME UNCHANGED <<objVars, open, released>> PROVE OwnerInv'
  BY <1>1, <1>2 DEF objVars
<1>3. ASSUME NEW o \in Objects, NEW s \in States \ {"Closed"}, SetState(o, s),
             UNCHANGED <<fd, alive, kernelVars>>
      PROVE  OwnerInv'
  BY <1>1, <1>3 DEF SetState, FdTypeOK, kernelVars
\* An object gives up its descriptor, which is closed.
<1>9. ASSUME NEW o \in Objects, fd' = [fd EXCEPT ![o] = Nil],
             open' = open \ {fd[o]}, released' = released,
             alive' = alive \/ alive' = alive \ {o},
             \A p \in Objects \ {o} : st'[p] = st[p]
      PROVE  OwnerInv'
  <2>1. fd'[o] = Nil /\ \A p \in Objects \ {o} : fd'[p] = fd[p]
    BY <1>9 DEF FdTypeOK
  <2>2. \A p, q \in Objects : fd'[p] = fd'[q] /\ fd'[p] # Nil => p = q
    BY <2>1 DEF OwnerInv, OneOwner
  <2>3. \A p \in Objects : fd'[p] # Nil =>
          st'[p] # "Closed" /\ p \in alive' /\ fd'[p] \in open' \ released'
    BY <1>9, <2>1 DEF OwnerInv, OneOwner
  <2>4. \A f \in open' : f \in released' \/ \E p \in alive' : fd'[p] = f
    <3> TAKE f \in open'
    <3>1. f \in open /\ f # fd[o]
      BY <1>9
    <3>2. CASE f \in released
      BY <1>9, <3>2
    <3>3. CASE f \notin released
      <4>1. PICK p \in alive : fd[p] = f
        BY <3>1, <3>3 DEF OwnerInv, OneOwner
      <4> QED
        BY <1>9, <2>1, <3>1, <4>1 DEF FdTypeOK
    <3> QED
      BY <3>2, <3>3
  <2> QED
    BY <2>2, <2>3, <2>4 DEF OwnerInv, OneOwner
<1>4. ASSUME NEW t \in Threads, call[t] \in Calls, call[t].obj \in alive,
             LimitPasses(t) \/ Locking(t) \/ CallSteps(t)
      PROVE  OwnerInv'
  <2> DEFINE o == call[t].obj
  <2>0. o \in Objects
    BY <1>4, CallFields
  <2>1. CASE LimitPasses(t) \/ NotIdle(t) \/ PollTooLate(t) \/ LockSource(t)
    BY <1>1, <2>1 DEF LimitPasses, NotIdle, PollTooLate, LockSource, objVars, kernelVars
  <2>2. CASE BeginWrite(t) \/ BeginRead(t) \/ BeginPoll(t)
    BY <1>3, <2>0, <2>2 DEF BeginWrite, BeginRead, BeginPoll, TakeUp, States
  <2>3. CASE WriteReturn(t) \/ ReadTimesOut(t) \/ ReadFails(t) \/ ReadReturn(t)
             \/ PollReturn(t)
    BY <1>3, <2>0, <2>3 DEF WriteReturn, ReadTimesOut, ReadFails, ReadReturn, PollReturn,
       End, States
  <2>4. CASE ReadPoll(t) \/ ReadPollInput(t) \/ ReadPollNothing(t)
    BY <1>3, <2>0, <2>4 DEF ReadPoll, ReadPollInput, ReadPollNothing, States
  <2>5. CASE WriteByte(t) \/ ReadCall(t) \/ ReadOutOfRange(t)
    BY <1>1, <2>5 DEF WriteByte, ReadCall, ReadOutOfRange, objVars, kernelVars
  <2>6. CASE Close(t)
    <3>1. \A p \in Objects \ {o} : st'[p] = st[p]
      BY <2>0, <2>6 DEF Close, SetState, FdTypeOK
    <3> QED
      BY <1>9, <2>0, <2>6, <3>1 DEF Close
  <2>7. CASE ReleaseDescriptor(t)
    <3>1. CASE st[o] # "Idle"
      BY <1>1, <2>7, <3>1 DEF ReleaseDescriptor
    <3>2. CASE st[o] = "Idle"
      <4>1. /\ fd' = [fd EXCEPT ![o] = Nil]
            /\ released' = released \cup ({fd[o]} \ {Nil})
            /\ UNCHANGED <<st, alive, open>>
        BY <2>7, <3>2 DEF ReleaseDescriptor
      <4>2. fd'[o] = Nil /\ \A p \in Objects \ {o} : fd'[p] = fd[p]
        BY <2>0, <4>1 DEF FdTypeOK
      <4>3. \A p, q \in Objects : fd'[p] = fd'[q] /\ fd'[p] # Nil => p = q
        BY <4>2 DEF OwnerInv, OneOwner
      <4>4. \A p \in Objects : fd'[p] # Nil =>
              st'[p] # "Closed" /\ p \in alive' /\ fd'[p] \in open' \ released'
        BY <2>0, <4>1, <4>2 DEF OwnerInv, OneOwner
      <4>5. \A f \in open' : f \in released' \/ \E p \in alive' : fd'[p] = f
        <5> TAKE f \in open'
        <5>1. CASE f \in released'
          BY <5>1
        <5>2. CASE f \notin released'
          <6>1. f \in open /\ f \notin released /\ f \in Fds
            BY <4>1, <5>2 DEF FdTypeOK
          <6>2. PICK p \in alive : fd[p] = f
            BY <6>1 DEF OwnerInv, OneOwner
          <6>3. p # o
            BY <4>1, <5>2, <6>1, <6>2, NilAssumption
          <6> QED
            BY <4>1, <4>2, <6>2, <6>3 DEF FdTypeOK
        <5> QED
          BY <5>1, <5>2
      <4> QED
        BY <4>3, <4>4, <4>5 DEF OwnerInv, OneOwner
    <3> QED
      BY <3>1, <3>2
  <2>8. CASE Move(t)
    <3> DEFINE s == call[t].src
    <3>1. s \in Objects /\ s # o /\ s \in alive
      BY <1>4, <2>8, CallFields DEF Move, CallInv
    <3>2. /\ fd' \in [Objects -> Fds \cup {Nil}]
          /\ open' = open \ {fd[o]} /\ UNCHANGED <<alive, released>>
      BY <2>0, <2>8, <3>1 DEF Move, FdTypeOK
    <3>3. CASE /\ fd' = [fd EXCEPT ![o] = fd[s], ![s] = Nil]
               /\ st' = [st EXCEPT ![o] = st[s], ![s] = "Closed"]
      <4>1. /\ fd'[o] = fd[s] /\ fd'[s] = Nil /\ st'[o] = st[s]
            /\ \A p \in Objects \ {o, s} : fd'[p] = fd[p] /\ st'[p] = st[p]
        BY <2>0, <3>1, <3>3 DEF FdTypeOK
      <4>2. \A p, q \in Objects : fd'[p] = fd'[q] /\ fd'[p] # Nil => p = q
        BY <2>0, <3>1, <4>1 DEF OwnerInv, OneOwner
      <4>3. \A p \in Objects : fd'[p] # Nil =>
              /\ st'[p] # "Closed" /\ p \in alive'
              /\ fd'[p] \in open' \ released'
        BY <1>4, <2>0, <3>1, <3>2, <4>1 DEF OwnerInv, OneOwner
      <4>4. \A f \in open' : f \in released' \/ \E p \in alive' : fd'[p] = f
        <5> TAKE f \in open'
        <5>1. CASE f \in released
          BY <3>2, <5>1
        <5>2. CASE f \notin released
          <6>1. f \in open /\ f # fd[o]
            BY <3>2
          <6>2. PICK p \in alive : fd[p] = f
            BY <5>2, <6>1 DEF OwnerInv, OneOwner
          <6>3. p \in Objects
            BY <6>2 DEF FdTypeOK
          <6>4. CASE p = s
            BY <1>4, <3>2, <4>1, <6>2, <6>4
          <6>5. CASE p # s
            BY <3>2, <4>1, <6>1, <6>2, <6>3, <6>5
          <6> QED
            BY <6>4, <6>5
        <5> QED
          BY <5>1, <5>2
      <4> QED
        BY <4>2, <4>3, <4>4 DEF OwnerInv, OneOwner
    <3>4. CASE fd' = [fd EXCEPT ![o] = Nil] /\ UNCHANGED st
      BY <1>9, <2>0, <3>2, <3>4
    <3> QED
      BY <2>8, <3>3, <3>4 DEF Move
  <2> QED
    BY <1>4, <2>1, <2>2, <2>3, <2>4, <2>5, <2>6, <2>7, <2>8 DEF Locking, CallSteps
<1>5. ASSUME NEW o \in Objects, Destroy(o) PROVE OwnerInv'
  <2>1. open' = open \ {fd[o]}
    BY <1>5, NilAssumption DEF Destroy, OwnerInv, FdTypeOK
  <2> QED
    BY <1>5, <1>9, <2>1 DEF Destroy
<1>6. ASSUME NEW f \in Fds, PeerSend(f) \/ PeerHangUp(f) PROVE OwnerInv'
  BY <1>2, <1>6 DEF PeerSend, PeerHangUp
<1>7. ASSUME NEW t \in Threads, NEW c \in Calls, Start(t, c) PROVE OwnerInv'
  BY <1>2, <1>7 DEF Start, kernelVars
<1>8. CASE UNCHANGED fdVars
  BY <1>2, <1>8 DEF fdVars, kernelVars
<1> QED
  BY <1>4, <1>5, <1>6, <1>7, <1>8, Cases

-----------------------------------------------------------------------------

LEMMA MutexStep == IInv /\ [FdNext]_fdVars => MutexInv'
<1> SUFFICES ASSUME IInv, [FdNext]_fdVars PROVE MutexInv'
  OBVIOUS
<1> USE DEF IInv
<1> DEFINE Holds == BusyPcs \cup {"lock2"}
\* No thread gets or loses a mutex.
<1>1. ASSUME mutex' = mutex,
             \A u \in Threads : \/ pc'[u] \notin Holds
                                \/ /\ call'[u] = call[u]
                                   /\ \/ pc'[u] = pc[u]
                                      \/ pc'[u] \in BusyPcs /\ pc[u] \in BusyPcs
      PROVE  MutexInv'
  BY <1>1 DEF MutexInv, BusyPcs, ReadPcs
<1>2. ASSUME NEW t \in Threads, Finish(t), mutex' = mutex PROVE MutexInv'
  <2>1. \A u \in Threads : pc'[u] \notin Holds \/ (call'[u] = call[u] /\ pc'[u] = pc[u])
    BY <1>2 DEF Finish, Goto, FdTypeOK, BusyPcs, ReadPcs
  <2> QED
    BY <1>1, <1>2, <2>1
\* A thread at work goes on.
<1>3. ASSUME NEW t \in Threads, NEW where \in BusyPcs, Goto(t, where), call' = call,
             pc[t] \in BusyPcs, mutex' = mutex
      PROVE  MutexInv'
  <2>1. \A u \in Threads : \/ pc'[u] = pc[u]
                           \/ pc'[u] \in BusyPcs /\ pc[u] \in BusyPcs
    BY <1>3 DEF Goto, FdTypeOK
  <2> QED
    BY <1>1, <1>3, <2>1
\* A thread locks a free mutex.
<1>4. ASSUME NEW t \in Threads, NEW o \in Objects, NEW where, Goto(t, where),
             call' = call, mutex[o] = Nil, mutex' = [mutex EXCEPT ![o] = t],
             where \in BusyPcs => call[t].obj = o,
             where = "lock2" => call[t].src = o
      PROVE  MutexInv'
  <2>1. \A u \in Threads \ {t} : pc'[u] = pc[u]
    BY <1>4 DEF Goto, FdTypeOK
  <2>2. pc'[t] = where /\ mutex'[o] = t
    BY <1>4 DEF Goto, FdTypeOK
  <2>3. \A p : mutex[p] \in Threads => mutex'[p] = mutex[p]
    BY <1>4, NilAssumption DEF FdTypeOK
  <2> QED
    BY <1>4, <2>1, <2>2, <2>3 DEF MutexInv
\* A thread gives back the mutex it holds and ends its call.
<1>5. ASSUME NEW t \in Threads, NEW o \in Objects, Finish(t), Release(o),
             mutex[o] = t
      PROVE  MutexInv'
  <2>1. \A u \in Threads \ {t} : pc'[u] = pc[u] /\ call'[u] = call[u]
    BY <1>5 DEF Finish, Goto, FdTypeOK
  <2>2. pc'[t] = "idle"
    BY <1>5 DEF Finish, Goto, FdTypeOK
  <2>3. \A p : mutex[p] # t => mutex'[p] = mutex[p]
    BY <1>5 DEF Release, FdTypeOK
  <2> QED
    BY <2>1, <2>2, <2>3 DEF MutexInv, BusyPcs, ReadPcs
<1>6. ASSUME NEW t \in Threads, call[t] \in Calls, Locking(t) PROVE MutexInv'
  <2>0. call[t].obj \in Objects
    BY <1>6, CallFields
  <2>1. CASE NotIdle(t) \/ PollTooLate(t) \/ Close(t) \/ ReleaseDescriptor(t)
    BY <1>2, <2>1 DEF NotIdle, PollTooLate, Close, ReleaseDescriptor, objVars
  <2>2. CASE BeginWrite(t) \/ BeginRead(t) \/ BeginPoll(t)
    BY <1>4, <2>0, <2>2 DEF BeginWrite, BeginRead, BeginPoll, TakeUp, GoOn
  <2>3. CASE LockSource(t)
    BY <1>4, <1>6, <2>3, CallFields DEF LockSource, GoOn, BusyPcs, ReadPcs
  <2>4. CASE Move(t)
    <3>1. call[t].src \in Objects /\ mutex[call[t].src] = t
      BY <1>6, <2>4, CallFields DEF Move, CallInv, MutexInv
    <3> QED
      BY <1>5, <2>4, <3>1 DEF Move
  <2> QED
    BY <1>6, <2>1, <2>2, <2>3, <2>4 DEF Locking
<1>7. ASSUME NEW t \in Threads, call[t] \in Calls, CallSteps(t) PROVE MutexInv'
  <2>0. call[t].obj \in Objects /\ pc[t] \in BusyPcs /\ mutex[call[t].obj] = t
    BY <1>7, CallFields
       DEF CallSteps, WriteByte, WriteReturn, ReadTimesOut, ReadOutOfRange, ReadPoll,
       ReadPollInput, ReadPollNothing, PollsInVain, ReadFails, ReadCall, ReadReturn,
       PollReturn, MutexInv, BusyPcs, ReadPcs
  <2>1. CASE WriteReturn(t) \/ ReadTimesOut(t) \/ ReadFails(t) \/ ReadReturn(t)
             \/ PollReturn(t) \/ ReadOutOfRange(t)
    BY <1>5, <2>0, <2>1 DEF WriteReturn, ReadTimesOut, ReadFails, ReadReturn, PollReturn,
       End, ReadOutOfRange
  <2>2. CASE WriteByte(t)
    BY <1>1, <2>2 DEF WriteByte, objVars
  <2>3. CASE ReadPoll(t) \/ ReadPollInput(t) \/ ReadPollNothing(t)
    BY <1>3, <2>0, <2>3 DEF ReadPoll, ReadPollInput, ReadPollNothing, GoOn, BusyPcs, ReadPcs
  <2>4. CASE ReadCall(t)
    BY <1>3, <2>0, <2>4 DEF ReadCall, objVars, BusyPcs, ReadPcs
  <2> QED
    BY <1>7, <2>1, <2>2, <2>3, <2>4 DEF CallSteps
<1>8. ASSUME NEW t \in Threads, NEW c \in Calls, Start(t, c) PROVE MutexInv'
  <2>1. \A u \in Threads : pc'[u] \notin Holds \/ (call'[u] = call[u] /\ pc'[u] = pc[u])
    BY <1>8 DEF Start, Goto, FdTypeOK, BusyPcs, ReadPcs
  <2> QED
    BY <1>1, <1>8, <2>1 DEF Start, objVars
<1>9. ASSUME NEW t \in Threads, LimitPasses(t) PROVE MutexInv'
  BY <1>1, <1>9 DEF LimitPasses, objVars
<1>10. ASSUME NEW o \in Objects, Destroy(o) PROVE MutexInv'
  BY <1>1, <1>10 DEF Destroy, threadVars
<1>11. ASSUME NEW f \in Fds, PeerSend(f) \/ PeerHangUp(f) PROVE MutexInv'
  BY <1>1, <1>11 DEF PeerSend, PeerHangUp, objVars, threadVars
<1>12. CASE UNCHANGED fdVars
  BY <1>1, <1>12 DEF fdVars, objVars, threadVars
<1> QED
  BY <1>6, <1>7, <1>8, <1>9, <1>10, <1>11, <1>12, Cases

-----------------------------------------------------------------------------

\* What a read has collected is not disturbed by a step that leaves the thread,
\* its descriptor and the bytes taken from it alone.
LEMMA ReadUndisturbed ==
  ASSUME FdTypeOK, NEW u \in Threads, ReadInvOf(u),
         pc'[u] = pc[u], call'[u] = call[u], got'[u] = got[u],
         pc[u] \in ReadPcs =>
           LET f == fd[call[u].obj]
           IN /\ fd'[call[u].obj] = f
              /\ f # Nil => /\ f \in Fds /\ taken'[f] = taken[f]
                             /\ sent'[f] \in Nat /\ sent'[f] >= sent[f]
  PROVE  ReadInvOf(u)'
<1> DEFINE o == call[u].obj
           f == fd[o]
<1>1. bufLen(u)' = bufLen(u)
  BY DEF bufLen, minLen
<1>2. CASE pc[u] \notin ReadPcs
  BY <1>2 DEF ReadInvOf, ReadPcs
<1>3. CASE pc[u] \in ReadPcs
  <2>1. fd'[o] = f /\ (f # Nil => f \in Fds /\ taken'[f] = taken[f]
                                  /\ sent'[f] \in Nat /\ sent'[f] >= sent[f])
    BY <1>3
  <2>2. Pending(f) => Pending(f)'
    BY <2>1 DEF Pending, FdTypeOK
  <2> QED
    BY <1>1, <1>3, <2>1, <2>2 DEF ReadInvOf
<1> QED
  BY <1>2, <1>3

\* A thread that ends its call has collected nothing.
LEMMA ReadFinished ==
  ASSUME FdTypeOK, NEW t \in Threads, Finish(t)
  PROVE  ReadInvOf(t)'
<1>1. pc'[t] = "idle" /\ got'[t] = <<>>
  BY DEF Finish, Goto, FdTypeOK
<1>2. DOMAIN got'[t] = {}
  BY <1>1
<1> QED
  BY <1>1, <1>2 DEF ReadInvOf, ReadPcs

\* The threads that read use different descriptors, and a thread whose object is
\* locked by nobody or by another one does not read.
LEMMA Readers ==
  ASSUME IInv, NEW u \in Threads, pc[u] \in ReadPcs
  PROVE  /\ call[u].obj \in Objects /\ mutex[call[u].obj] = u
         /\ fd[call[u].obj] \in Fds \cup {Nil} /\ pc[u] # "idle"
BY CallFields DEF IInv, CallInv, MutexInv, FdTypeOK, BusyPcs, ReadPcs

\* Two runs of numbers that follow one another make one.
LEMMA AppendRun ==
  ASSUME NEW g \in Seq(Nat), NEW c \in Seq(Nat), NEW b \in Nat, Len(c) # 0,
         \A k \in 1..Len(c) : c[k] = b + k,
         \A k \in DOMAIN g : g[k] = g[1] + k - 1,
         g # <<>> => g[Len(g)] = b
  PROVE  LET r == g \o c
         IN r[Len(r)] = b + Len(c) /\ \A k \in DOMAIN r : r[k] = r[1] + k - 1
<1> DEFINE m == Len(g)
           n == Len(c)
           r == g \o c
<1>1. /\ m \in Nat /\ n \in Nat /\ n > 0 /\ Len(r) = m + n /\ DOMAIN r = 1..(m + n)
      /\ \A k \in 1..m : r[k] = g[k]
      /\ \A k \in (m + 1)..(m + n) : r[k] = c[k - m]
  OBVIOUS
<1>2. \A k \in 1..n : c[k] = b + k
  OBVIOUS
<1>3. m > 0 => \A k \in 1..m : g[k] = g[1] + k - 1
  <2>1. DOMAIN g = 1..m
    OBVIOUS
  <2>2. \A k \in DOMAIN g : g[k] = g[1] + k - 1
    OBVIOUS
  <2> QED
    BY <2>1, <2>2
<1>4. m > 0 => g[m] = b /\ g[1] \in Nat
  OBVIOUS
<1> HIDE DEF m, n, r
<1>5. ASSUME NEW k \in (m + 1)..(m + n) PROVE r[k] = b + (k - m)
  <2>1. k - m \in 1..n
    BY <1>1
  <2> QED
    BY <1>1, <1>2, <2>1
<1>6. r[m + n] = b + n
  <2>1. m + n \in (m + 1)..(m + n)
    BY <1>1
  <2>2. (m + n) - m = n
    BY <1>1
  <2> QED
    BY <1>5, <2>1, <2>2
<1>7. ASSUME NEW k \in 1..(m + n) PROVE r[k] = r[1] + k - 1
  <2>1. CASE m = 0
    <3>1. r[1] = b + 1 /\ r[k] = b + k
      BY <1>1, <1>5, <2>1
    <3> QED
      BY <3>1
  <2>2. CASE m > 0
    <3>0. 1 \in 1..m /\ m \in 1..m
      BY <1>1, <2>2
    <3>4. r[1] = g[1]
      BY <1>1, <3>0
    <3>5. g[m] = g[1] + m - 1 /\ g[m] = b
      BY <1>3, <1>4, <2>2, <3>0
    <3>1. r[1] = g[1] /\ b = g[1] + m - 1
      BY <3>4, <3>5
    <3>2. CASE k \in 1..m
      BY <1>1, <1>3, <2>2, <3>1, <3>2
    <3>3. CASE k \in (m + 1)..(m + n)
      <4>1. r[k] = b + (k - m)
        BY <1>5, <3>3
      <4> DEFINE first == g[1]
      <4>2. b = first + m - 1 /\ r[1] = first /\ first \in Nat /\ k \in Nat /\ m \in Nat
        BY <1>1, <1>4, <2>2, <3>1
      <4> HIDE DEF first
      <4>3. r[k] = (first + m - 1) + (k - m)
        BY <4>1, <4>2
      <4>4. (first + m - 1) + (k - m) = first + k - 1
        BY <4>2
      <4> QED
        BY <4>2, <4>3, <4>4
    <3> QED
      BY <1>1, <3>2, <3>3
  <2> QED
    BY <1>1, <2>1, <2>2
<1> QED
  BY <1>1, <1>6, <1>7 DEF r, n

\* read() appends the next bytes to what was collected.
LEMMA ReadCallOwn ==
  ASSUME IInv, NEW t \in Threads, ReadCall(t)
  PROVE  ReadInvOf(t)'
<1> DEFINE o == call[t].obj
           f == fd[o]
           chunk == Chunk(t, f)
           n == Len(chunk)
<1> USE DEF IInv
<1>1. /\ f \in Fds /\ Pending(f) /\ Len(got[t]) < bufLen(t) /\ o \in Objects
      /\ bufLen(t) \in Nat /\ pc[t] \in ReadPcs
  BY CallFields, BufLenNat
     DEF ReadCall, ReadInv, ReadInvOf, ReadPcs, CallInv, Pending, FdTypeOK
<1>2. /\ chunk \in Seq(Nat) /\ n \in Nat \ {0}
      /\ \A k \in 1..n : chunk[k] = taken[f] + k
  BY <1>1, ChunkIsRun
<1>3. /\ got'[t] = got[t] \o chunk /\ taken'[f] = taken[f] + n
      /\ fd'[call'[t].obj] = f /\ pc'[t] \in {"readDone", "reading"}
  BY <1>1 DEF ReadCall, Goto, FdTypeOK, objVars
<1>4. /\ \A k \in DOMAIN got[t] : got[t][k] = got[t][1] + k - 1
      /\ got[t] # <<>> => got[t][Len(got[t])] = taken[f]
      /\ got[t] \in Seq(Nat) /\ taken[f] \in Nat
  BY <1>1 DEF ReadInv, ReadInvOf, FdTypeOK
<1> HIDE DEF chunk, f
<1> HIDE DEF IInv
<1> DEFINE r == got[t] \o chunk
<1>5. r[Len(r)] = taken[f] + n /\ \A k \in DOMAIN r : r[k] = r[1] + k - 1
  BY <1>2, <1>4, AppendRun
<1>6. f # Nil
  BY <1>1, NilAssumption
<1>7. got'[t] = r /\ r[Len(r)] = taken'[f]
  BY <1>3, <1>5
<1> HIDE DEF r
<1> QED
  BY <1>3, <1>5, <1>6, <1>7 DEF ReadInvOf, ReadPcs, f

LEMMA ReadStep == IInv /\ [FdNext]_fdVars => ReadInv'
<1> SUFFICES ASSUME IInv, [FdNext]_fdVars PROVE ReadInv'
  OBVIOUS
<1> USE DEF IInv
\* Steps that leave the objects of readers, their buffers and their bytes alone.
<1>1. ASSUME NEW T \in SUBSET Threads, UNCHANGED <<sent, taken>>,
             \A u \in T : pc'[u] = pc[u] /\ call'[u] = call[u] /\ got'[u] = got[u],
             \A u \in T : pc[u] \in ReadPcs => fd'[call[u].obj] = fd[call[u].obj]
      PROVE  \A u \in T : ReadInvOf(u)'
  <2> TAKE u \in T
  <2>1. u \in Threads /\ ReadInvOf(u)
    BY DEF ReadInv
  <2>2. pc[u] \in ReadPcs /\ fd[call[u].obj] # Nil =>
            /\ fd[call[u].obj] \in Fds
            /\ sent'[fd[call[u].obj]] = sent[fd[call[u].obj]]
            /\ sent'[fd[call[u].obj]] \in Nat
    BY <1>1, <2>1, Readers DEF FdTypeOK
  <2>3. pc[u] \in ReadPcs => fd'[call[u].obj] = fd[call[u].obj]
    BY <1>1
  <2>4. \A g \in Fds : taken'[g] = taken[g] /\ sent'[g] \in Nat /\ sent'[g] >= sent[g]
    BY <1>1 DEF FdTypeOK
  <2>5. pc'[u] = pc[u] /\ call'[u] = call[u] /\ got'[u] = got[u]
    BY <1>1
  <2>6. FdTypeOK
    OBVIOUS
  <2> HIDE DEF IInv
  <2> QED
    BY <2>1, <2>2, <2>3, <2>4, <2>5, <2>6, ReadUndisturbed
\* The call of t ends; what changes hands is locked by nobody or by t.
<1>2. ASSUME NEW t \in Threads, Finish(t), UNCHANGED <<sent, taken>>,
             \A p \in Objects : mutex[p] \in Threads \ {t} => fd'[p] = fd[p]
      PROVE  ReadInv'
  <2>1. \A u \in Threads \ {t} :
          pc'[u] = pc[u] /\ call'[u] = call[u] /\ got'[u] = got[u]
    BY <1>2 DEF Finish, Goto, FdTypeOK
  <2>2. \A u \in Threads \ {t} : pc[u] \in ReadPcs => fd'[call[u].obj] = fd[call[u].obj]
    BY <1>2, Readers
  <2>3. \A u \in Threads \ {t} : ReadInvOf(u)'
    BY <1>1, <1>2, <2>1, <2>2
  <2>4. ReadInvOf(t)'
    BY <1>2, ReadFinished
  <2> QED
    BY <2>3, <2>4 DEF ReadInv
\* t goes on without reading.
<1>3. ASSUME NEW t \in Threads, NEW where, Goto(t, where),
             UNCHANGED <<sent, taken, fd, call, got>>,
             where \in ReadPcs => pc[t] \in ReadPcs \/ got[t] = <<>>,
             where \notin ReadPcs => got[t] = <<>>,
             where \in {"readPoll", "readCall"} => Len(got[t]) < bufLen(t),
             where = "readCall" => Pending(fd[call[t].obj])
      PROVE  ReadInv'
  <2>1. \A u \in Threads \ {t} :
          pc'[u] = pc[u] /\ call'[u] = call[u] /\ got'[u] = got[u]
    BY <1>3 DEF Goto, FdTypeOK
  <2>2. \A u \in Threads \ {t} : ReadInvOf(u)'
    BY <1>1, <1>3, <2>1
  <2>3. ReadInvOf(t)'
    <3>1. pc'[t] = where
      BY <1>3 DEF Goto, FdTypeOK
    <3>2. bufLen(t)' = bufLen(t) /\ (Pending(fd[call[t].obj]) => Pending(fd[call[t].obj])')
      BY <1>3 DEF bufLen, minLen, Pending
    <3>3. ReadInvOf(t)
      BY DEF ReadInv
    <3> QED
      BY <1>3, <3>1, <3>2, <3>3 DEF ReadInvOf
  <2> QED
    BY <2>2, <2>3 DEF ReadInv
<1>4. ASSUME NEW t \in Threads, call[t] \in Calls, Locking(t) PROVE ReadInv'
  <2>0. call[t].obj \in Objects
    BY <1>4, CallFields
  <2>1. pc[t] \notin ReadPcs /\ got[t] = <<>>
    BY <1>4 DEF Locking, NotIdle, BeginWrite, BeginRead, PollTooLate, BeginPoll, TakeUp,
       Close, ReleaseDescriptor, LockSource, Move, ReadPcs, ReadInv, ReadInvOf
  <2>2. CASE NotIdle(t) \/ PollTooLate(t)
    BY <1>2, <2>2 DEF NotIdle, PollTooLate, objVars, kernelVars
  <2>3. CASE BeginWrite(t) \/ BeginRead(t) \/ BeginPoll(t) \/ LockSource(t)
    BY <1>3, <2>1, <2>3 DEF BeginWrite, BeginRead, BeginPoll, TakeUp, LockSource, GoOn,
       kernelVars
  <2>4. CASE Close(t)
    <3>1. \A p \in Objects : mutex[p] \in Threads \ {t} => fd'[p] = fd[p]
      BY <2>0, <2>4, NilAssumption DEF Close, FdTypeOK
    <3> QED
      BY <1>2, <2>4, <3>1 DEF Close
  <2>5. CASE ReleaseDescriptor(t)
    <3>1. \A p \in Objects : mutex[p] \in Threads \ {t} => fd'[p] = fd[p]
      BY <2>0, <2>5, NilAssumption DEF ReleaseDescriptor, FdTypeOK
    <3> QED
      BY <1>2, <2>5, <3>1 DEF ReleaseDescriptor
  <2>6. CASE Move(t)
    <3> DEFINE o == call[t].obj
               s == call[t].src
    <3>1. s \in Objects /\ mutex[s] = t /\ mutex[o] = Nil
      BY <1>4, <2>6, CallFields DEF Move, CallInv, MutexInv
    <3>2. \A p \in Objects : mutex[p] \in Threads \ {t} => p # s /\ p # o
      BY <3>1, NilAssumption
    <3>3. \A p \in Objects : p # s /\ p # o => fd'[p] = fd[p]
      BY <2>0, <2>6, <3>1 DEF Move, FdTypeOK
    <3> QED
      BY <1>2, <2>6, <3>2, <3>3 DEF Move
  <2> QED
    BY <1>4, <2>2, <2>3, <2>4, <2>5, <2>6 DEF Locking
<1>5. ASSUME NEW t \in Threads, call[t] \in Calls, CallSteps(t) PROVE ReadInv'
  <2>1. CASE WriteReturn(t) \/ ReadTimesOut(t) \/ ReadFails(t) \/ ReadReturn(t)
             \/ PollReturn(t) \/ ReadOutOfRange(t)
    BY <1>2, <2>1 DEF WriteReturn, ReadTimesOut, ReadFails, ReadReturn, PollReturn, End,
       ReadOutOfRange, kernelVars
  <2>2. CASE WriteByte(t)
    BY <1>1, <2>2 DEF WriteByte, objVars, ReadInv
  <2>3. CASE ReadPoll(t)
    BY <1>3, <2>3 DEF ReadPoll, GoOn, kernelVars, ReadPcs
  <2>4. CASE ReadPollInput(t)
    BY <1>3, <2>4 DEF ReadPollInput, GoOn, kernelVars, ReadPcs, ReadInv, ReadInvOf
  <2>5. CASE ReadPollNothing(t)
    BY <1>3, <2>5 DEF ReadPollNothing, PollsInVain, GoOn, kernelVars, ReadPcs
  <2>6. CASE ReadCall(t)
    <3> DEFINE o == call[t].obj
               f == fd[o]
    <3>1. ReadInvOf(t)'
      BY <2>6, ReadCallOwn
    <3>2. o \in Objects /\ mutex[o] = t /\ f \in Fds \cup {Nil} /\ pc[t] = "readCall"
      BY <2>6, Readers DEF ReadCall, ReadPcs
    <3>3. f \in Fds
      BY <3>2 DEF ReadInv, ReadInvOf, Pending
    <3>4. ASSUME NEW u \in Threads, u # t PROVE ReadInvOf(u)'
      <4>1. /\ pc'[u] = pc[u] /\ call'[u] = call[u] /\ got'[u] = got[u]
            /\ fd' = fd /\ sent' = sent
        BY <2>6, <3>4 DEF ReadCall, Goto, FdTypeOK, objVars
      <4>2. \A g \in Fds \ {f} : taken'[g] = taken[g]
        BY <2>6, <3>3 DEF ReadCall, FdTypeOK
      <4>3. pc[u] \in ReadPcs /\ fd[call[u].obj] # Nil =>
              fd[call[u].obj] \in Fds \ {f}
        BY <3>2, <3>4, Readers DEF OwnerInv, OneOwner
      <4>4. ReadInvOf(u)
        BY DEF ReadInv
      <4>5. \A g \in Fds : sent'[g] \in Nat /\ sent'[g] >= sent[g]
        BY <4>1 DEF FdTypeOK
      <4>6. FdTypeOK
        OBVIOUS
      <4> HIDE DEF IInv
      <4> QED
        BY <4>1, <4>2, <4>3, <4>4, <4>5, <4>6, ReadUndisturbed
    <3> QED
      BY <3>1, <3>4 DEF ReadInv
  <2> QED
    BY <1>5, <2>1, <2>2, <2>3, <2>4, <2>5, <2>6 DEF CallSteps
<1>6. ASSUME NEW t \in Threads, NEW c \in Calls, Start(t, c) PROVE ReadInv'
  <2>1. \A u \in Threads \ {t} : pc'[u] = pc[u] /\ call'[u] = call[u] /\ got'[u] = got[u]
    BY <1>6 DEF Start, Goto, FdTypeOK
  <2>2. \A u \in Threads \ {t} : ReadInvOf(u)'
    BY <1>1, <1>6, <2>1 DEF Start, objVars, kernelVars
  <2>3. pc'[t] = "lock" /\ got'[t] = <<>>
    BY <1>6 DEF Start, Goto, FdTypeOK, ReadInv, ReadInvOf, ReadPcs
  <2>4. DOMAIN got'[t] = {}
    BY <2>3
  <2> QED
    BY <2>2, <2>3, <2>4 DEF ReadInv, ReadInvOf, ReadPcs
<1>7. ASSUME NEW t \in Threads, LimitPasses(t) PROVE ReadInv'
  BY <1>1, <1>7 DEF LimitPasses, objVars, kernelVars, ReadInv
<1>8. ASSUME NEW o \in Objects, Destroy(o) PROVE ReadInv'
  <2>1. \A u \in Threads : pc[u] \in ReadPcs => call[u].obj # o
    BY <1>8 DEF Destroy, Uses, ReadPcs
  <2>2. \A u \in Threads : pc[u] \in ReadPcs => fd'[call[u].obj] = fd[call[u].obj]
    BY <1>8, <2>1, Readers DEF Destroy, FdTypeOK
  <2> QED
    BY <1>1, <1>8, <2>2 DEF Destroy, threadVars, ReadInv
<1>9. ASSUME NEW f \in Fds, PeerSend(f) \/ PeerHangUp(f) PROVE ReadInv'
  <2>1. UNCHANGED <<fd, pc, call, got, taken>>
    BY <1>9 DEF PeerSend, PeerHangUp, objVars, threadVars
  <2>2. \A g \in Fds : sent'[g] \in Nat /\ sent'[g] >= sent[g]
    <3>1. \A g \in Fds : sent[g] \in Nat /\ sent[g] + 1 \in Nat
      BY DEF FdTypeOK
    <3>2. \A g \in Fds : sent'[g] = sent[g] \/ sent'[g] = sent[g] + 1
      BY <1>9 DEF PeerSend, PeerHangUp, FdTypeOK
    <3> QED
      BY <3>1, <3>2
  <2>3. ASSUME NEW u \in Threads PROVE ReadInvOf(u)'
    <3>1. ReadInvOf(u)
      BY DEF ReadInv
    <3>2. pc[u] \in ReadPcs /\ fd[call[u].obj] # Nil => fd[call[u].obj] \in Fds
      BY Readers
    <3> QED
      BY <2>1, <2>2, <3>1, <3>2, ReadUndisturbed
  <2> QED
    BY <2>3 DEF ReadInv
<1>10. CASE UNCHANGED fdVars
  BY <1>1, <1>10 DEF fdVars, objVars, kernelVars, threadVars, ReadInv
<1> QED
  BY <1>4, <1>5, <1>6, <1>7, <1>8, <1>9, <1>10, Cases

-----------------------------------------------------------------------------

LEMMA InitIInv == FdInit => IInv
<1> SUFFICES ASSUME FdInit PROVE IInv
  OBVIOUS
<1>1. \A o \in Objects : fd[o] = InitFd[o] /\ st[o] = IF InitFd[o] = Nil THEN "Closed" ELSE "Idle"
  BY DEF FdInit
<1>2. FdTypeOK
  <2>1. got \in [Threads -> Seq(Nat)] /\ output \in [Fds -> Seq(Threads)]
    BY DEF FdInit
  <2>2. /\ hungUp \in [Fds -> BOOLEAN] /\ expired \in [Threads -> BOOLEAN]
    BY DEF FdInit
  <2>3. pc \in [Threads -> Pcs] /\ st \in [Objects -> States]
    BY DEF FdInit, Pcs, States
  <2>4. fd \in [Objects -> Fds \cup {Nil}]
    BY InitFdAssumption DEF FdInit
  <2> QED
    BY <2>1, <2>2, <2>3, <2>4 DEF FdInit, FdTypeOK
<1>3. CallInv /\ MutexInv
  BY DEF FdInit, CallInv, MutexInv, BusyPcs, ReadPcs
<1>4. OwnerInv
  <2>1. \A o \in Objects : fd[o] # Nil => fd[o] \in open \ released
    BY <1>1, InitFdAssumption DEF FdInit
  <2>2. \A f \in open : f \in released \/ \E o \in alive : fd[o] = f
    BY DEF FdInit
  <2>3. \A o, p \in Objects : fd[o] = fd[p] /\ fd[o] # Nil => o = p
    BY <1>1, InitFdAssumption
  <2>4. \A o \in Objects : fd[o] # Nil => st[o] # "Closed" /\ o \in alive
    BY <1>1 DEF FdInit
  <2> QED
    BY <2>1, <2>2, <2>3, <2>4 DEF OwnerInv, OneOwner
<1>5. ReadInv
  <2>0. DOMAIN <<>> = {}
    OBVIOUS
  <2>1. \A t \in Threads : pc[t] = "idle" /\ got[t] = <<>> /\ DOMAIN got[t] = {}
    BY <2>0 DEF FdInit
  <2> QED
    BY <2>1 DEF ReadInv, ReadInvOf, ReadPcs
<1> QED
  BY <1>2, <1>3, <1>4, <1>5 DEF IInv

LEMMA Inductive == FdSpec => []IInv
<1>1. IInv /\ [FdNext]_fdVars => IInv'
  BY TypeStep, CallStep, OwnerStep, MutexStep, ReadStep DEF IInv
<1> QED
  BY InitIInv, <1>1, PTL DEF FdSpec

\* Every variable keeps its type, whatever is called, moved and destroyed.
THEOREM TypeCorrect == FdSpec => []FdTypeOK
<1>1. IInv => FdTypeOK
  BY DEF IInv
<1> QED
  BY Inductive, <1>1, PTL

\* No descriptor leaks, is closed twice or has two owners, for any number of
\* objects, threads and moves, also when close() reports an error.
THEOREM OneOwnerEach == FdSpec => []OneOwner
<1>1. IInv => OneOwner
  BY DEF IInv, OwnerInv
<1> QED
  BY Inductive, <1>1, PTL

\* A read gets a contiguous piece of the stream, however many threads read
\* and however the data is cut into chunks.
THEOREM ReadsStayTogether == FdSpec => []ReadsContiguous
<1>1. IInv => ReadsContiguous
  BY DEF IInv, ReadInv, ReadInvOf, ReadsContiguous
<1> QED
  BY Inductive, <1>1, PTL

-----------------------------------------------------------------------------
(* What is written stays together, and a read delivers what was asked for.  *)

\* The last bytes of the output are those of the write that is running.
WriteInvOf(t) ==
  /\ pc[t] # "writing" => wrote[t] = 0
  /\ pc[t] = "writing" /\ wrote[t] > 0 =>
       LET f == fd[call[t].obj]
       IN /\ f \in Fds /\ wrote[t] <= Len(output[f])
          /\ \A k \in 0..(wrote[t] - 1) : output[f][Len(output[f]) - k] = t

\* What a read has collected fits into its buffer, and is enough at its end.
DeliverInvOf(t) ==
  /\ pc[t] \in ReadPcs => Len(got[t]) <= bufLen(t)
  /\ pc[t] = "readDone" => Len(got[t]) >= minLen(t)

DataInvOf(t) == WriteInvOf(t) /\ DeliverInvOf(t)
DataInv == \A t \in Threads : DataInvOf(t)

\* A descriptor stays where it is while its object is busy.
LEMMA BusyKeepsFd ==
  ASSUME IInv, [FdNext]_fdVars, NEW u \in Threads, pc[u] \in BusyPcs
  PROVE  /\ call[u].obj \in Objects /\ mutex[call[u].obj] = u
         /\ fd[call[u].obj] \in Fds \cup {Nil}
         /\ fd'[call[u].obj] = fd[call[u].obj]
<1> DEFINE o == call[u].obj
<1> USE DEF IInv
<1>1. o \in Objects /\ mutex[o] = u /\ u # Nil /\ fd[o] \in Fds \cup {Nil}
  BY CallFields, NilAssumption DEF CallInv, MutexInv, BusyPcs, ReadPcs, FdTypeOK
<1> SUFFICES fd'[o] = fd[o]
  BY <1>1
<1>2. ASSUME NEW t \in Threads, call[t] \in Calls, Locking(t) PROVE fd'[o] = fd[o]
  <2>1. CASE Close(t) \/ ReleaseDescriptor(t)
    BY <1>1, <2>1 DEF Close, ReleaseDescriptor, FdTypeOK
  <2>2. CASE Move(t)
    <3>1. call[t].src \in Objects /\ mutex[call[t].src] = t /\ pc[t] = "lock2"
      BY <1>2, <2>2, CallFields DEF Move, CallInv, MutexInv
    <3>2. o # call[t].src
      BY <1>1, <3>1 DEF BusyPcs, ReadPcs
    <3>3. o # call[t].obj
      BY <1>1, <2>2 DEF Move
    <3> QED
      BY <1>1, <2>2, <3>1, <3>2, <3>3 DEF Move, FdTypeOK
  <2>3. CASE NotIdle(t) \/ BeginWrite(t) \/ BeginRead(t) \/ PollTooLate(t)
             \/ BeginPoll(t) \/ LockSource(t)
    BY <2>3 DEF NotIdle, BeginWrite, BeginRead, PollTooLate, BeginPoll, TakeUp,
                LockSource, objVars
  <2> QED
    BY <1>2, <2>1, <2>2, <2>3 DEF Locking
<1>3. ASSUME NEW t \in Threads, CallSteps(t) PROVE fd' = fd
  BY <1>3 DEF CallSteps, WriteByte, WriteReturn, ReadTimesOut, ReadOutOfRange, ReadPoll,
     ReadPollInput, ReadPollNothing, ReadFails, ReadCall, ReadReturn, PollReturn, End,
     objVars
<1>4. ASSUME NEW p \in Objects, Destroy(p) PROVE fd'[o] = fd[o]
  <2>1. o # p
    BY <1>4 DEF Destroy, Uses, BusyPcs, ReadPcs
  <2> QED
    BY <1>1, <1>4, <2>1 DEF Destroy, FdTypeOK
<1>5. CASE \/ \E t \in Threads : LimitPasses(t) \/ \E c \in Calls : Start(t, c)
           \/ \E f \in Fds : PeerSend(f) \/ PeerHangUp(f)
           \/ UNCHANGED fdVars
  BY <1>5 DEF LimitPasses, Start, PeerSend, PeerHangUp, objVars, fdVars
<1>6. CASE \E t \in Threads : call[t] \in Calls /\ (Locking(t) \/ CallSteps(t))
  BY <1>2, <1>3, <1>6
<1>7. CASE \E p \in Objects : Destroy(p)
  BY <1>4, <1>7
<1> QED
  BY <1>1, <1>5, <1>6, <1>7, Cases

\* What concerns u is not disturbed by a step that leaves u and the output of
\* its descriptor alone.
LEMMA DataUndisturbed ==
  ASSUME IInv, [FdNext]_fdVars, NEW u \in Threads, DataInvOf(u),
         pc'[u] = pc[u], call'[u] = call[u], got'[u] = got[u], wrote'[u] = wrote[u],
         pc[u] = "writing" /\ fd[call[u].obj] \in Fds =>
           output'[fd[call[u].obj]] = output[fd[call[u].obj]]
  PROVE  DataInvOf(u)'
<1>1. bufLen(u)' = bufLen(u) /\ minLen(u)' = minLen(u)
  BY DEF bufLen, minLen
<1>2. DeliverInvOf(u)'
  BY <1>1 DEF DataInvOf, DeliverInvOf
<1>3. pc[u] = "writing" => fd'[call[u].obj] = fd[call[u].obj]
  BY BusyKeepsFd DEF BusyPcs
<1>4. WriteInvOf(u)'
  BY <1>3 DEF DataInvOf, WriteInvOf
<1> QED
  BY <1>2, <1>4 DEF DataInvOf

\* One more byte of the same write.
LEMMA AppendOwn ==
  ASSUME NEW t \in Threads, NEW s \in Seq(Threads), NEW n \in Nat, n <= Len(s),
         \A k \in 0..(n - 1) : s[Len(s) - k] = t
  PROVE  /\ n + 1 <= Len(Append(s, t))
         /\ \A k \in 0..n : Append(s, t)[Len(Append(s, t)) - k] = t
<1> DEFINE r == Append(s, t)
           l == Len(s)
<1>1. /\ l \in Nat /\ Len(r) = l + 1 /\ r[l + 1] = t
      /\ \A i \in 1..l : r[i] = s[i]
  OBVIOUS
<1> HIDE DEF r, l
<1>2. ASSUME NEW k \in 0..n PROVE r[l + 1 - k] = t
  <2>1. CASE k = 0
    BY <1>1, <2>1
  <2>2. CASE k # 0
    <3>1. k - 1 \in 0..(n - 1) /\ l - (k - 1) \in 1..l /\ l + 1 - k = l - (k - 1)
      BY <1>1, <2>2 DEF l
    <3>2. s[l - (k - 1)] = t
      BY <3>1 DEF l
    <3> QED
      BY <1>1, <3>1, <3>2
  <2> QED
    BY <2>1, <2>2
<1> QED
  BY <1>1, <1>2 DEF r, l

LEMMA WriteByteOwn ==
  ASSUME IInv, NEW t \in Threads, WriteByte(t), WriteInvOf(t)
  PROVE  DataInvOf(t)'
<1> DEFINE f == fd[call[t].obj]
<1>0. pc[t] = "writing" /\ f # Nil
  BY DEF WriteByte
<1>1. f \in Fds /\ wrote[t] \in Nat /\ output[f] \in Seq(Threads)
  BY <1>0, CallFields DEF IInv, CallInv, FdTypeOK
<1>2. /\ wrote'[t] = wrote[t] + 1 /\ output'[f] = Append(output[f], t)
      /\ pc'[t] = "writing" /\ fd'[call'[t].obj] = f
  BY <1>0, <1>1 DEF WriteByte, IInv, FdTypeOK, objVars
<1>3. wrote[t] <= Len(output[f])
  BY <1>0, <1>1 DEF WriteInvOf
<1>4. \A k \in 0..(wrote[t] - 1) : output[f][Len(output[f]) - k] = t
  BY <1>0, <1>1 DEF WriteInvOf
<1> DEFINE s == output[f]
           n == wrote[t]
<1> HIDE DEF f
<1>4a. /\ s \in Seq(Threads) /\ n \in Nat /\ n <= Len(s)
       /\ \A k \in 0..(n - 1) : s[Len(s) - k] = t
       /\ wrote'[t] = n + 1 /\ output'[f] = Append(s, t)
  BY <1>1, <1>2, <1>3, <1>4
<1> HIDE DEF s, n
<1>4b. /\ n + 1 <= Len(Append(s, t))
       /\ \A k \in 0..n : Append(s, t)[Len(Append(s, t)) - k] = t
  BY <1>4a, AppendOwn
<1>5. /\ wrote'[t] <= Len(output'[f])
      /\ \A k \in 0..wrote[t] : output'[f][Len(output'[f]) - k] = t
  BY <1>4a, <1>4b DEF n
<1>6. wrote'[t] - 1 = wrote[t]
  BY <1>1, <1>2
<1> QED
  BY <1>1, <1>2, <1>5, <1>6 DEF DataInvOf, WriteInvOf, DeliverInvOf, ReadPcs

LEMMA ReadCallDelivers ==
  ASSUME IInv, NEW t \in Threads, ReadCall(t), DataInvOf(t)
  PROVE  DataInvOf(t)'
<1> DEFINE f == fd[call[t].obj]
           chunk == Chunk(t, f)
<1> USE DEF IInv
<1>1. /\ f \in Fds /\ Pending(f) /\ Len(got[t]) < bufLen(t)
      /\ bufLen(t) \in Nat /\ pc[t] = "readCall" /\ got[t] \in Seq(Nat)
  BY CallFields, BufLenNat
     DEF ReadCall, ReadInv, ReadInvOf, ReadPcs, CallInv, Pending, FdTypeOK
<1>2. chunk \in Seq(Nat) /\ Len(got[t]) + Len(chunk) <= bufLen(t)
  BY <1>1, ChunkIsRun
<1>3. /\ got'[t] = got[t] \o chunk /\ wrote'[t] = wrote[t]
      /\ pc'[t] = IF Enough(t, Len(got[t]) + Len(chunk)) THEN "readDone" ELSE "reading"
      /\ bufLen(t)' = bufLen(t) /\ minLen(t)' = minLen(t)
  BY <1>1 DEF ReadCall, Goto, FdTypeOK, bufLen, minLen
<1>4. wrote[t] = 0
  BY <1>1 DEF DataInvOf, WriteInvOf
<1> HIDE DEF chunk, f, IInv
<1>5. Len(got'[t]) = Len(got[t]) + Len(chunk)
  BY <1>1, <1>2, <1>3
<1> QED
  BY <1>2, <1>3, <1>4, <1>5 DEF DataInvOf, WriteInvOf, DeliverInvOf, Enough, ReadPcs

LEMMA DataStep == IInv /\ DataInv /\ [FdNext]_fdVars => DataInv'
<1> SUFFICES ASSUME IInv, DataInv, [FdNext]_fdVars PROVE DataInv'
  OBVIOUS
<1>0. FdTypeOK /\ \A u \in Threads : DataInvOf(u)
  BY DEF IInv, DataInv
\* Steps that leave the output and the calls of T alone.
<1>1. ASSUME NEW T \in SUBSET Threads, UNCHANGED output,
             \A u \in T : /\ pc'[u] = pc[u] /\ call'[u] = call[u]
                          /\ got'[u] = got[u] /\ wrote'[u] = wrote[u]
      PROVE  \A u \in T : DataInvOf(u)'
  BY <1>0, <1>1, DataUndisturbed
\* The call of t ends.
<1>2. ASSUME NEW t \in Threads, Finish(t), UNCHANGED output PROVE DataInv'
  <2>1. /\ pc'[t] = "idle" /\ wrote'[t] = 0
        /\ \A u \in Threads \ {t} : /\ pc'[u] = pc[u] /\ call'[u] = call[u]
                                     /\ got'[u] = got[u] /\ wrote'[u] = wrote[u]
    BY <1>0, <1>2 DEF Finish, Goto, FdTypeOK
  <2>2. DataInvOf(t)'
    BY <2>1 DEF DataInvOf, WriteInvOf, DeliverInvOf, ReadPcs
  <2>3. \A u \in Threads \ {t} : DataInvOf(u)'
    BY <1>1, <1>2, <2>1
  <2> QED
    BY <2>2, <2>3 DEF DataInv
\* t goes on without reading or writing.
<1>3. ASSUME NEW t \in Threads, NEW where, Goto(t, where),
             UNCHANGED <<output, call, got, wrote>>, pc[t] # "writing",
             where \in ReadPcs => Len(got[t]) <= bufLen(t), where # "readDone"
      PROVE  DataInv'
  <2>1. /\ pc'[t] = where /\ wrote'[t] = 0 /\ got'[t] = got[t]
        /\ bufLen(t)' = bufLen(t)
        /\ \A u \in Threads \ {t} : /\ pc'[u] = pc[u] /\ call'[u] = call[u]
                                     /\ got'[u] = got[u] /\ wrote'[u] = wrote[u]
    BY <1>0, <1>3 DEF Goto, FdTypeOK, DataInvOf, WriteInvOf, bufLen, minLen
  <2>2. DataInvOf(t)'
    BY <1>3, <2>1 DEF DataInvOf, WriteInvOf, DeliverInvOf
  <2>3. \A u \in Threads \ {t} : DataInvOf(u)'
    BY <1>1, <1>3, <2>1
  <2> QED
    BY <2>2, <2>3 DEF DataInv
<1>4. ASSUME NEW t \in Threads, pc[t] # "idle", call[t] \in Calls, Locking(t)
      PROVE  DataInv'
  <2>1. CASE \/ NotIdle(t) \/ PollTooLate(t) \/ Close(t) \/ ReleaseDescriptor(t)
             \/ Move(t)
    BY <1>2, <2>1 DEF NotIdle, PollTooLate, Close, ReleaseDescriptor, Move, kernelVars
  <2>2. CASE BeginWrite(t) \/ BeginPoll(t) \/ LockSource(t)
    BY <1>3, <2>2 DEF BeginWrite, BeginPoll, TakeUp, LockSource, GoOn, kernelVars, ReadPcs
  <2>3. CASE BeginRead(t)
    <3>1. pc[t] = "lock" /\ call[t].op = "read"
      BY <2>3 DEF BeginRead, TakeUp
    <3>2. got[t] = <<>> /\ bufLen(t) \in Nat
      BY <1>4, <3>1, BufLenNat DEF IInv, ReadInv, ReadInvOf, ReadPcs
    <3>3. Len(got[t]) <= bufLen(t)
      BY <3>2
    <3> QED
      BY <1>3, <2>3, <3>3 DEF BeginRead, TakeUp, GoOn, kernelVars
  <2> QED
    BY <1>4, <2>1, <2>2, <2>3 DEF Locking
<1>5. ASSUME NEW t \in Threads, pc[t] # "idle", call[t] \in Calls, CallSteps(t)
      PROVE  DataInv'
  <2>1. CASE WriteReturn(t) \/ ReadTimesOut(t) \/ ReadFails(t) \/ ReadReturn(t)
             \/ PollReturn(t) \/ ReadOutOfRange(t)
    BY <1>2, <2>1 DEF WriteReturn, ReadTimesOut, ReadFails, ReadReturn, PollReturn, End,
       ReadOutOfRange, kernelVars
  <2>2. CASE ReadPoll(t) \/ ReadPollInput(t) \/ ReadPollNothing(t)
    <3>1. pc[t] \in ReadPcs /\ pc[t] # "writing"
      BY <2>2 DEF ReadPoll, ReadPollInput, ReadPollNothing, PollsInVain, ReadPcs
    <3>2. Len(got[t]) <= bufLen(t)
      BY <1>0, <3>1 DEF DataInvOf, DeliverInvOf
    <3> QED
      BY <1>3, <2>2, <3>1, <3>2
         DEF ReadPoll, ReadPollInput, ReadPollNothing, GoOn, kernelVars
  <2>3. CASE WriteByte(t)
    <3> DEFINE f == fd[call[t].obj]
    <3>1. DataInvOf(t)'
      BY <1>0, <2>3, WriteByteOwn DEF DataInvOf
    <3>2. pc[t] = "writing" /\ f # Nil
      BY <2>3 DEF WriteByte
    <3>3. call[t].obj \in Objects /\ mutex[call[t].obj] = t /\ f \in Fds
      BY <3>2, BusyKeepsFd DEF BusyPcs
    <3>4. ASSUME NEW u \in Threads, u # t PROVE DataInvOf(u)'
      <4>1. /\ pc'[u] = pc[u] /\ call'[u] = call[u]
            /\ got'[u] = got[u] /\ wrote'[u] = wrote[u]
        BY <1>0, <2>3, <3>4 DEF WriteByte, FdTypeOK
      <4>2. ASSUME pc[u] = "writing", fd[call[u].obj] \in Fds
            PROVE  output'[fd[call[u].obj]] = output[fd[call[u].obj]]
        <5>1. call[u].obj \in Objects /\ mutex[call[u].obj] = u
          BY <4>2, BusyKeepsFd DEF BusyPcs
        <5>2. fd[call[u].obj] # f
          BY <3>2, <3>3, <3>4, <5>1 DEF IInv, OwnerInv, OneOwner
        <5> QED
          BY <1>0, <2>3, <4>2, <5>2 DEF WriteByte, FdTypeOK
      <4> QED
        BY <1>0, <4>1, <4>2, DataUndisturbed
    <3> QED
      BY <3>1, <3>4 DEF DataInv
  <2>4. CASE ReadCall(t)
    <3>1. DataInvOf(t)'
      BY <1>0, <2>4, ReadCallDelivers
    <3>2. /\ UNCHANGED output
          /\ \A u \in Threads \ {t} : /\ pc'[u] = pc[u] /\ call'[u] = call[u]
                                       /\ got'[u] = got[u] /\ wrote'[u] = wrote[u]
      BY <1>0, <2>4 DEF ReadCall, Goto, FdTypeOK
    <3>3. \A u \in Threads \ {t} : DataInvOf(u)'
      BY <1>1, <3>2
    <3> QED
      BY <3>1, <3>3 DEF DataInv
  <2> QED
    BY <1>5, <2>1, <2>2, <2>3, <2>4 DEF CallSteps
<1>6. ASSUME NEW t \in Threads, NEW c \in Calls, Start(t, c) PROVE DataInv'
  <2>1. /\ pc[t] = "idle" /\ pc'[t] = "lock" /\ UNCHANGED <<output, got, wrote>>
        /\ \A u \in Threads \ {t} : pc'[u] = pc[u] /\ call'[u] = call[u]
    BY <1>0, <1>6 DEF Start, Goto, FdTypeOK, kernelVars
  <2>2. DataInvOf(t)'
    BY <1>0, <2>1 DEF DataInvOf, WriteInvOf, DeliverInvOf, ReadPcs
  <2>3. \A u \in Threads \ {t} : DataInvOf(u)'
    BY <1>1, <2>1
  <2> QED
    BY <2>2, <2>3 DEF DataInv
<1>7. CASE \/ \E t \in Threads : LimitPasses(t)
           \/ \E o \in Objects : Destroy(o)
           \/ \E f \in Fds : PeerSend(f) \/ PeerHangUp(f)
           \/ UNCHANGED fdVars
  <2>1. UNCHANGED <<output, pc, call, got, wrote>>
    BY <1>7 DEF LimitPasses, Destroy, PeerSend, PeerHangUp, kernelVars, threadVars, fdVars
  <2> QED
    BY <1>1, <2>1 DEF DataInv
<1>8. CallInv
  BY DEF IInv
<1> QED
  BY <1>4, <1>5, <1>6, <1>7, <1>8, Cases

\* Reads and writes of several threads stay together, no byte is skipped between
\* the chunks of a read, and a successful read has
\* at least minLen and at most maxLen bytes, for any threads, objects, buffer
\* sizes and chunks.
THEOREM DataStaysTogether == FdSpec => []DataKeptTogether
<1>1. FdInit => DataInv
  BY DEF FdInit, DataInv, DataInvOf, WriteInvOf, DeliverInvOf, ReadPcs
<1>2. IInv /\ DataInv => DataKeptTogether
  <2> SUFFICES ASSUME IInv, DataInv PROVE DataKeptTogether
    OBVIOUS
  <2>1. ReadsContiguous
    BY DEF IInv, ReadInv, ReadInvOf, ReadsContiguous
  <2>2. WritesContiguous /\ ReadsKeep
    <3>1. WritesContiguous
      BY DEF DataInv, DataInvOf, WriteInvOf, WritesContiguous
    <3>2. ReadsKeep
      BY DEF IInv, ReadInv, ReadInvOf, ReadsKeep
    <3> QED
      BY <3>1, <3>2
  <2>3. ASSUME NEW t \in Threads, pc[t] = "readDone"
        PROVE  /\ Len(got[t]) >= minLen(t)
               /\ call[t].size[2] > 0 => Len(got[t]) <= call[t].size[2]
    <3>1. Len(got[t]) >= minLen(t) /\ Len(got[t]) <= bufLen(t)
      BY <2>3 DEF DataInv, DataInvOf, DeliverInvOf, ReadPcs
    <3>2. call[t] \in Calls /\ call[t].op = "read" /\ Len(got[t]) \in Nat
      BY <2>3 DEF IInv, CallInv, FdTypeOK, ReadPcs
    <3>3. /\ bufLen(t) \in Nat /\ minLen(t) \in Nat /\ call[t].size[2] \in Nat
          /\ defaultReadBufSize(call[t].obj) \in Nat
      BY <3>2, BufLenNat, CallFields, SizesAssumption DEF defaultReadBufSize
    <3>4. call[t].size[2] > 0 => bufLen(t) <= call[t].size[2]
      BY <3>3 DEF bufLen, ResultBufSize
    <3> QED
      BY <3>1, <3>2, <3>3, <3>4
  <2> QED
    BY <2>1, <2>2, <2>3 DEF ReadDelivers, DataKeptTogether
<1> QED
  BY <1>1, <1>2, DataStep, Inductive, PTL DEF FdSpec

-----------------------------------------------------------------------------
(***************************************************************************)
(* No object is left busy.                                                  *)
(***************************************************************************)

\* The state of the object while a call on it goes on: a read that has not
\* polled yet finds it Reading, one that has finds it Idle, and the source of a
\* move is not busy.
StateOf(t) ==
  LET o == call[t].obj
  IN  /\ pc[t] = "reading" => st[o] = "Idle" \/ (st[o] = "Reading" /\ got[t] = <<>>)
      /\ pc[t] = "readCall" => st[o] = "Idle"
      /\ pc[t] = "lock2" => NotBusy(call[t].src)

BusyInv == UnlockedNotBusy /\ \A t \in Threads : StateOf(t)

\* A step of thread t leaves object p alone, or has or takes its mutex; if it
\* gives it back the object is not busy.
Handled(t, p) ==
  \/ st'[p] = st[p] /\ mutex'[p] = mutex[p]
  \/ mutex[p] \in {Nil, t} /\ (mutex'[p] = Nil => NotBusy(p)')

\* The step is none of the other threads.
OthersWait(t) ==
  \A u \in Threads \ {t} : pc'[u] = pc[u] /\ call'[u] = call[u] /\ got'[u] = got[u]

LEMMA BusyFrame ==
  ASSUME IInv, BusyInv, NEW t \in Threads,
         \A p \in Objects : Handled(t, p), OthersWait(t), StateOf(t)'
  PROVE  BusyInv'
<1>1. UnlockedNotBusy'
  <2> SUFFICES ASSUME NEW p \in Objects, mutex'[p] = Nil PROVE NotBusy(p)'
    BY DEF UnlockedNotBusy
  <2>1. CASE st'[p] = st[p] /\ mutex'[p] = mutex[p]
    <3>1. NotBusy(p)
      BY <2>1 DEF BusyInv, UnlockedNotBusy
    <3> QED
      BY <2>1, <3>1 DEF NotBusy
  <2> QED
    BY <2>1 DEF Handled
<1>2. ASSUME NEW u \in Threads \ {t} PROVE StateOf(u)'
  <2>1. pc'[u] = pc[u] /\ call'[u] = call[u] /\ got'[u] = got[u] /\ StateOf(u)
    BY <1>2 DEF BusyInv, OthersWait
  <2>2. ASSUME NEW p \in Objects, mutex[p] = u PROVE st'[p] = st[p]
    BY <1>2, <2>2, NilAssumption DEF Handled
  <2>3. CASE pc[u] \in {"reading", "readCall"}
    <3> PICK o \in Objects : o = call[u].obj
      BY <2>3, CallFields DEF IInv, CallInv, ReadPcs
    <3>1. mutex[o] = u
      BY <2>3 DEF IInv, MutexInv, BusyPcs, ReadPcs
    <3>2. st'[o] = st[o]
      BY <2>2, <3>1
    <3> QED
      BY <2>1, <2>3, <3>2 DEF StateOf
  <2>4. CASE pc[u] = "lock2"
    <3> PICK s \in Objects : s = call[u].src
      BY <2>4, CallFields DEF IInv, CallInv
    <3>1. mutex[s] = u
      BY <2>4 DEF IInv, MutexInv
    <3>2. st'[s] = st[s]
      BY <2>2, <3>1
    <3>3. NotBusy(s)
      BY <2>1, <2>4 DEF StateOf
    <3>4. NotBusy(s)'
      BY <3>2, <3>3 DEF NotBusy
    <3>5. NotBusy(call[u].src)'
      BY <2>1, <3>4 DEF NotBusy
    <3> QED
      BY <2>1, <2>4, <3>5 DEF StateOf
  <2>5. CASE pc[u] \notin {"reading", "readCall", "lock2"}
    BY <2>1, <2>5 DEF StateOf
  <2> QED
    BY <2>3, <2>4, <2>5
<1> QED
  BY <1>1, <1>2 DEF BusyInv

\* A full buffer before the first byte has no room at all.
LEMMA NoRoomNoSize ==
  ASSUME NEW t \in Threads, call[t] \in Calls, call[t].op = "read", bufLen(t) = 0
  PROVE  MayBeStuck(call[t].obj)
<1>1. call[t].obj \in Objects /\ call[t].size[2] \in Nat /\ minLen(t) \in Nat \ {0}
  BY CallFields, BufLenNat
<1>2. defaultReadBufSize(call[t].obj) = 0
  BY <1>1 DEF bufLen, ResultBufSize
<1> QED
  BY <1>1, <1>2 DEF MayBeStuck

LEMMA MovedStuck ==
  ASSUME NEW m \in MovePairs, m[1] \in Objects, MayBeStuck(m[1])
  PROVE  MayBeStuck(m[2])
BY DEF MayBeStuck

LEMMA BusyStep == IInv /\ BusyInv /\ [FdNext]_fdVars => BusyInv'
<1> SUFFICES ASSUME IInv, BusyInv, [FdNext]_fdVars PROVE BusyInv'
  OBVIOUS
<1>1. FdTypeOK /\ CallInv /\ MutexInv
  BY DEF IInv
\* The call ends: no state belongs to the thread any more.
<1>2. ASSUME NEW t \in Threads, Finish(t) PROVE StateOf(t)' /\ OthersWait(t)
  BY <1>1, <1>2 DEF Finish, Goto, FdTypeOK, StateOf, OthersWait
<1>3. ASSUME NEW t \in Threads, NEW where, GoOn(t, where)
      PROVE  pc'[t] = where /\ call' = call /\ got' = got /\ OthersWait(t)
  BY <1>1, <1>3 DEF GoOn, Goto, FdTypeOK, OthersWait
<1>4. ASSUME NEW t \in Threads, Finish(t), UNCHANGED <<st, mutex>> PROVE BusyInv'
  BY <1>2, <1>4, BusyFrame DEF Handled
\* It changes one object, whose mutex is free or its own.
<1>5. ASSUME NEW t \in Threads, NEW o \in Objects, mutex[o] \in {Nil, t},
             mutex'[o] = Nil => NotBusy(o)',
             \A p \in Objects \ {o} : st'[p] = st[p] /\ mutex'[p] = mutex[p],
             OthersWait(t), StateOf(t)'
      PROVE  BusyInv'
  BY <1>5, BusyFrame DEF Handled
<1>6. ASSUME NEW t \in Threads, pc[t] \in BusyPcs, call[t].obj \in Objects, End(t)
      PROVE  BusyInv'
  <2> PICK o \in Objects : o = call[t].obj
    BY <1>6
  <2>1. StateOf(t)' /\ OthersWait(t)
    BY <1>6, <1>2 DEF End
  <2>2. st'[o] = "Idle" /\ \A p \in Objects \ {o} : st'[p] = st[p] /\ mutex'[p] = mutex[p]
    BY <1>1, <1>6 DEF End, SetState, Release, FdTypeOK
  <2>3. mutex[o] = t /\ NotBusy(o)'
    BY <1>1, <1>6, <2>2 DEF MutexInv, NotBusy
  <2> QED
    BY <1>5, <2>1, <2>2, <2>3
<1>7. ASSUME NEW t \in Threads, NEW op, NEW state, NEW where,
             call[t].obj \in Objects, TakeUp(t, op, state, where),
             where \in {"writing", "polling"} \/ (where = "reading" /\ state = "Reading"),
             got[t] = <<>>
      PROVE  BusyInv'
  <2> PICK o \in Objects : o = call[t].obj
    BY <1>7
  <2>1. pc'[t] = where /\ call' = call /\ got' = got /\ OthersWait(t)
    BY <1>7, <1>3 DEF TakeUp
  <2>2. /\ mutex[o] = Nil /\ mutex'[o] = t /\ st'[o] = state
        /\ \A p \in Objects \ {o} : st'[p] = st[p] /\ mutex'[p] = mutex[p]
    BY <1>1, <1>7 DEF TakeUp, SetState, FdTypeOK
  <2>3. StateOf(t)'
    BY <1>7, <2>1, <2>2 DEF StateOf
  <2> QED
    BY <1>5, <2>1, <2>2, <2>3, NilAssumption
<1>8. ASSUME NEW t \in Threads, pc[t] # "idle", call[t] \in Calls, Locking(t)
      PROVE  BusyInv'
  <2> PICK o \in Objects : o = call[t].obj
    BY <1>8, CallFields
  <2>0. pc[t] = "lock" => got[t] = <<>>
    BY <1>8 DEF IInv, ReadInv, ReadInvOf, ReadPcs
  <2>1. CASE NotIdle(t) \/ PollTooLate(t) \/ ReleaseDescriptor(t)
    BY <1>4, <2>1 DEF NotIdle, PollTooLate, ReleaseDescriptor, objVars
  <2>2. CASE BeginWrite(t)
    BY <1>7, <2>0, <2>2 DEF BeginWrite, TakeUp
  <2>3. CASE BeginRead(t)
    BY <1>7, <2>0, <2>3 DEF BeginRead, TakeUp
  <2>4. CASE BeginPoll(t)
    BY <1>7, <2>0, <2>4 DEF BeginPoll, TakeUp
  <2>5. CASE Close(t)
    <3>1. StateOf(t)' /\ OthersWait(t)
      BY <2>5, <1>2 DEF Close
    <3>2. /\ mutex' = mutex /\ mutex[o] = Nil /\ st'[o] \in {st[o], "Closed"}
          /\ \A p \in Objects \ {o} : st'[p] = st[p]
      BY <1>1, <2>5 DEF Close, SetState, FdTypeOK
    <3>3. NotBusy(o)
      BY <3>2 DEF BusyInv, UnlockedNotBusy
    <3>4. NotBusy(o)'
      BY <3>2, <3>3 DEF NotBusy
    <3> QED
      BY <1>5, <3>1, <3>2, <3>4
  <2>6. CASE LockSource(t)
    <3> PICK s \in Objects : s = call[t].src
      BY <1>8, <2>6, CallFields DEF LockSource
    <3>1. mutex[s] = Nil /\ NotBusy(s) /\ st' = st
      BY <2>6 DEF LockSource, BusyInv, UnlockedNotBusy
    <3>2. pc'[t] = "lock2" /\ call' = call /\ got' = got /\ OthersWait(t)
      BY <2>6, <1>3 DEF LockSource
    <3>3. mutex'[s] = t /\ \A p \in Objects \ {s} : mutex'[p] = mutex[p]
      BY <1>1, <2>6 DEF LockSource, FdTypeOK
    <3>4. NotBusy(s)'
      BY <3>1 DEF NotBusy
    <3>5. NotBusy(call[t].src)'
      BY <3>2, <3>4 DEF NotBusy
    <3>6. StateOf(t)'
      BY <3>2, <3>5 DEF StateOf
    <3> QED
      BY <1>5, <3>1, <3>2, <3>3, <3>4, <3>6
  <2>7. CASE Move(t)
    <3>0. call[t].op = "move" /\ pc[t] = "lock2" /\ mutex[o] = Nil
      BY <1>1, <2>7 DEF Move, CallInv
    <3> PICK s \in Objects : s = call[t].src
      BY <1>8, <3>0, CallFields
    <3>1. <<s, o>> \in MovePairs /\ s # o
      BY <1>8, <3>0, CallsAssumption DEF Calls
    <3>2. mutex[s] = t /\ NotBusy(s)
      BY <1>1, <3>0 DEF MutexInv, BusyInv, StateOf
    <3>3. NotBusy(o)
      BY <3>0 DEF BusyInv, UnlockedNotBusy
    <3>4. StateOf(t)' /\ OthersWait(t)
      BY <2>7, <1>2 DEF Move
    <3>5. mutex' = [mutex EXCEPT ![s] = Nil]
      BY <2>7 DEF Move, Release
    <3>6. \/ st' = [st EXCEPT ![o] = st[s], ![s] = "Closed"]
          \/ st' = st
      BY <2>7 DEF Move
    <3>7. MayBeStuck(s) => MayBeStuck(o)
      BY <3>1, MovedStuck
    <3>8. \/ st'[o] = st[s] /\ st'[s] = "Closed"
          \/ st'[o] = st[o] /\ st'[s] = st[s]
      BY <1>1, <3>1, <3>6 DEF FdTypeOK
    <3>9. NotBusy(s)' /\ NotBusy(o)'
      BY <3>2, <3>3, <3>7, <3>8 DEF NotBusy
    <3>10. ASSUME NEW p \in Objects PROVE Handled(t, p)
      <4>1. CASE p = s \/ p = o
        BY <3>0, <3>2, <3>9, <4>1 DEF Handled
      <4>2. CASE p # s /\ p # o
        BY <1>1, <3>5, <3>6, <4>2 DEF FdTypeOK, Handled
      <4> QED
        BY <4>1, <4>2
    <3> QED
      BY <3>4, <3>10, BusyFrame
  <2> QED
    BY <1>8, <2>1, <2>2, <2>3, <2>4, <2>5, <2>6, <2>7 DEF Locking
<1>9. ASSUME NEW t \in Threads, pc[t] # "idle", call[t] \in Calls, CallSteps(t)
      PROVE  BusyInv'
  <2> PICK o \in Objects : o = call[t].obj
    BY <1>9, CallFields
  <2>1. CASE WriteReturn(t) \/ ReadTimesOut(t) \/ ReadFails(t) \/ ReadReturn(t) \/ PollReturn(t)
    BY <1>6, <2>1
       DEF WriteReturn, ReadTimesOut, ReadFails, ReadReturn, PollReturn, BusyPcs, ReadPcs
  <2>2. CASE WriteByte(t)
    <3>1. UNCHANGED <<st, mutex, pc, call, got>>
      BY <2>2 DEF WriteByte, objVars
    <3> QED
      BY <3>1 DEF BusyInv, UnlockedNotBusy, StateOf, NotBusy
  <2>3. CASE ReadOutOfRange(t)
    <3>1. /\ pc[t] = "reading" /\ Len(got[t]) >= bufLen(t) /\ Release(o) /\ Finish(t) /\ st' = st
          /\ mutex[o] = t
      BY <1>1, <2>3 DEF ReadOutOfRange, MutexInv, BusyPcs, ReadPcs
    <3>2. bufLen(t) \in Nat /\ call[t].op = "read"
      BY <1>1, <1>9, <3>1, BufLenNat DEF CallInv, ReadPcs
    <3>3. got[t] = <<>> => bufLen(t) = 0
      BY <3>1, <3>2
    <3>4. got[t] = <<>> => MayBeStuck(o)
      BY <1>9, <3>2, <3>3, NoRoomNoSize
    <3>5. NotBusy(o)
      BY <3>1, <3>4 DEF BusyInv, StateOf, NotBusy
    <3>6. NotBusy(o)'
      BY <3>1, <3>5 DEF NotBusy
    <3>7. StateOf(t)' /\ OthersWait(t)
      BY <3>1, <1>2
    <3>8. \A p \in Objects \ {o} : st'[p] = st[p] /\ mutex'[p] = mutex[p]
      BY <1>1, <3>1 DEF Release, FdTypeOK
    <3> QED
      BY <1>5, <3>1, <3>6, <3>7, <3>8
  <2>4. CASE ReadPoll(t) \/ ReadPollInput(t) \/ ReadPollNothing(t)
    <3>1. /\ mutex[o] = t /\ mutex' = mutex
          /\ \/ st'[o] = "Polling" /\ GoOn(t, "readPoll")
             \/ st'[o] = "Idle" /\ GoOn(t, "readCall")
             \/ st'[o] = "Idle" /\ GoOn(t, "reading")
          /\ \A p \in Objects \ {o} : st'[p] = st[p]
      BY <1>1, <2>4
         DEF ReadPoll, ReadPollInput, ReadPollNothing, PollsInVain, SetState, MutexInv, BusyPcs,
             ReadPcs, FdTypeOK
    <3>2. /\ call' = call /\ OthersWait(t)
          /\ pc'[t] = "readPoll" \/ (st'[o] = "Idle" /\ pc'[t] \in {"readCall", "reading"})
      BY <1>3, <3>1
    <3>3. StateOf(t)'
      BY <3>2 DEF StateOf
    <3> QED
      BY <1>5, <3>1, <3>2, <3>3, NilAssumption
  <2>5. CASE ReadCall(t)
    <3>1. /\ UNCHANGED <<st, mutex, call>> /\ st[o] = "Idle" /\ OthersWait(t)
          /\ pc'[t] \in {"readDone", "reading"}
      BY <1>1, <2>5 DEF ReadCall, Goto, FdTypeOK, objVars, BusyInv, StateOf, OthersWait
    <3>2. StateOf(t)'
      BY <3>1 DEF StateOf
    <3> QED
      BY <3>1, <3>2, BusyFrame DEF Handled
  <2> QED
    BY <1>9, <2>1, <2>2, <2>3, <2>4, <2>5 DEF CallSteps
<1>10. ASSUME NEW t \in Threads, NEW c \in Calls, Start(t, c) PROVE BusyInv'
  <2>1. UNCHANGED <<st, mutex>> /\ pc'[t] = "lock" /\ OthersWait(t)
    BY <1>1, <1>10 DEF Start, Goto, FdTypeOK, objVars, OthersWait
  <2>2. StateOf(t)'
    BY <2>1 DEF StateOf
  <2> QED
    BY <2>1, <2>2, BusyFrame DEF Handled
<1>11. CASE \/ \E t \in Threads : LimitPasses(t)
            \/ \E o \in Objects : Destroy(o)
            \/ \E f \in Fds : PeerSend(f) \/ PeerHangUp(f)
            \/ UNCHANGED fdVars
  <2>1. UNCHANGED <<st, mutex, pc, call, got>>
    BY <1>11 DEF LimitPasses, Destroy, PeerSend, PeerHangUp, objVars, threadVars, fdVars
  <2> QED
    BY <2>1 DEF BusyInv, UnlockedNotBusy, StateOf, NotBusy
<1> QED
  BY <1>1, <1>8, <1>9, <1>10, <1>11, Cases

\* No call leaves an object busy when it gives the mutex back, whichever way it
\* ends; but for reads into no buffer, whose state moves can pass on.
THEOREM NoObjectLeftBusy == FdSpec => []UnlockedNotBusy
<1>1. FdInit => BusyInv
  BY DEF FdInit, BusyInv, UnlockedNotBusy, StateOf, NotBusy
<1>2. BusyInv => UnlockedNotBusy
  BY DEF BusyInv
<1> QED
  BY <1>1, <1>2, BusyStep, Inductive, PTL DEF FdSpec

-----------------------------------------------------------------------------
(***************************************************************************)
(* SubProcess.                                                             *)
(***************************************************************************)
Gone == {"exited", "reaped"}

BeforeFork == {"outPipe", "errPipe", "fork"}
LoopPcs == {"pollOut", "pollErr", "readOut", "readErr", "hup"}

\* Where the last poll() of a stream is still up to date.
PolledAt(s) == IF s = "out" THEN {"pollErr", "readOut", "readErr", "hup"}
               ELSE {"readOut", "readErr", "hup"}

\* Nothing is lost: what was written is in the pipe or has been collected.
Conserved == \A s \in Streams : written[s] = data[s] + pipe[s]

\* The loop runs only after fork(); a hang-up means that the child has gone.
HupInv ==
  /\ step \in BeforeFork => child = "none"
  /\ step \in LoopPcs \cup {"wait"} => child # "none"
  /\ hup \cup hungUpYet # {} => child \in Gone

\* A stream that has hung up and was polled without finding data is empty; the
\* loop ends when that holds for both.
EmptyInv ==
  /\ \A s \in Streams :
       step \in PolledAt(s) /\ s \in hup \cup hungUpYet /\ s \notin in /\ s \notin late
         => pipe[s] = 0
  /\ step \in {"wait", "returned"} =>
       child \in Gone /\ \A s \in Streams : pipe[s] = 0 \/ s \in late

CommandInv == CommandTypeOK /\ Conserved /\ HupInv /\ EmptyInv

LEMMA AvailableBound ==
  ASSUME CommandTypeOK, NEW s \in Streams
  PROVE  Available(s) \in 0..pipe[s] /\ pipe[s] - Available(s) \in 0..PipeCapacity
BY PipeSizesAssumption DEF CommandTypeOK, Available

LEMMA CommandTypeInit == CommandInit => CommandTypeOK
<1> SUFFICES ASSUME CommandInit PROVE CommandTypeOK
  OBVIOUS
<1>1. script \in Seq(Streams)
  BY ScriptsAssumption DEF CommandInit
<1>2. pipe \in [Streams -> 0..PipeCapacity]
  BY PipeSizesAssumption DEF CommandInit
<1> QED
  BY <1>1, <1>2 DEF CommandInit, CommandTypeOK

LEMMA CommandTypeStep == CommandTypeOK /\ [CommandNext]_commandVars => CommandTypeOK'
<1> SUFFICES ASSUME CommandTypeOK, [CommandNext]_commandVars PROVE CommandTypeOK'
  OBVIOUS
<1> USE DEF CommandTypeOK, Proceed
<1>1. CASE OpenOut
  BY <1>1 DEF OpenOut, childVars, Streams
<1>2. CASE OpenErr
  BY <1>2 DEF OpenErr, childVars
<1>3. CASE Fork
  BY <1>3 DEF Fork
<1>4. CASE PollOut
  BY <1>4 DEF PollOut, Poll, Polled, TooLate, childVars, Streams
<1>5. CASE PollErr
  BY <1>5 DEF PollErr, Poll, Polled, TooLate, childVars, Streams
<1>6. ASSUME NEW s \in Streams, NEW next \in {"readErr", "hup"}, Read(s, next)
      PROVE  CommandTypeOK'
  <2>1. pipe' \in [Streams -> 0..PipeCapacity] /\ data' \in [Streams -> Nat]
    <3>1. CASE s \in in
      <4>1. Available(s) \in Nat /\ pipe[s] - Available(s) \in 0..PipeCapacity
        BY AvailableBound
      <4>2. /\ pipe' = [pipe EXCEPT ![s] = pipe[s] - Available(s)]
            /\ data' = [data EXCEPT ![s] = data[s] + Available(s)]
        BY <1>6, <3>1 DEF Read
      <4>3. data[s] + Available(s) \in Nat
        BY <4>1
      <4> QED
        BY <4>1, <4>2, <4>3
    <3>2. CASE s \notin in
      BY <1>6, <3>2 DEF Read
    <3> QED
      BY <3>1, <3>2
  <2> QED
    BY <1>6, <2>1 DEF Read, childVars
<1>7. CASE ReadOut \/ ReadErr
  BY <1>6, <1>7 DEF ReadOut, ReadErr, Streams
<1>8. CASE NoteHangUps
  BY <1>8 DEF NoteHangUps, childVars
<1>9. CASE LoopFails
  BY <1>9 DEF LoopFails, childVars
<1>10. CASE WaitForChild
  BY <1>10 DEF WaitForChild
<1>11. CASE Exec
  BY <1>11 DEF Exec, parentVars
<1>12. CASE ChildWrites
  <2> DEFINE s == Head(script)
  <2>1. s \in Streams /\ Tail(script) \in Seq(Streams)
    BY <1>12 DEF ChildWrites
  <2>2. pipe' \in [Streams -> 0..PipeCapacity] /\ written' \in [Streams -> Nat]
    BY <1>12, <2>1, PipeSizesAssumption DEF ChildWrites
  <2> QED
    BY <1>12, <2>1, <2>2 DEF ChildWrites, parentVars
<1>13. CASE ChildEnds
  BY <1>13 DEF ChildEnds, parentVars
<1>14. CASE UNCHANGED commandVars
  BY <1>14 DEF commandVars, parentVars, childVars
<1> QED
  BY <1>1, <1>2, <1>3, <1>4, <1>5, <1>7, <1>8, <1>9, <1>10, <1>11, <1>12, <1>13,
     <1>14 DEF CommandNext, Parent, Child

LEMMA ConservedStep == CommandTypeOK /\ Conserved /\ [CommandNext]_commandVars => Conserved'
<1> SUFFICES ASSUME CommandTypeOK, Conserved, [CommandNext]_commandVars PROVE Conserved'
  OBVIOUS
<1>1. ASSUME UNCHANGED <<written, data, pipe>> PROVE Conserved'
  BY <1>1 DEF Conserved
<1>2. CASE OpenOut \/ OpenErr \/ Fork \/ PollOut \/ PollErr \/ NoteHangUps \/ LoopFails
           \/ WaitForChild \/ Exec \/ ChildEnds \/ UNCHANGED commandVars
  BY <1>1, <1>2 DEF OpenOut, OpenErr, Fork, PollOut, PollErr, Poll, NoteHangUps,
     LoopFails, WaitForChild, Exec, ChildEnds, commandVars, parentVars, childVars
<1>3. ASSUME NEW s \in Streams, NEW next, Read(s, next) PROVE Conserved'
  <2>1. CASE s \in in
    <3>1. /\ pipe' = [pipe EXCEPT ![s] = pipe[s] - Available(s)]
          /\ data' = [data EXCEPT ![s] = data[s] + Available(s)]
          /\ written' = written
      BY <1>3, <2>1 DEF Read, childVars
    <3>2. pipe[s] \in Nat /\ data[s] \in Nat /\ Available(s) \in Nat
      BY AvailableBound, PipeSizesAssumption DEF CommandTypeOK
    <3>3. /\ pipe'[s] = pipe[s] - Available(s) /\ data'[s] = data[s] + Available(s)
          /\ \A r \in Streams \ {s} : pipe'[r] = pipe[r] /\ data'[r] = data[r]
      BY <3>1 DEF CommandTypeOK
    <3>4. data'[s] + pipe'[s] = data[s] + pipe[s]
      BY <3>2, <3>3
    <3> QED
      BY <3>1, <3>3, <3>4 DEF Conserved
  <2>2. CASE s \notin in
    BY <1>1, <1>3, <2>2 DEF Read, childVars
  <2> QED
    BY <2>1, <2>2
<1>4. CASE ReadOut \/ ReadErr
  BY <1>3, <1>4 DEF ReadOut, ReadErr, Streams
<1>5. CASE ChildWrites
  <2> DEFINE s == Head(script)
  <2>1. s \in Streams
    BY <1>5 DEF ChildWrites, CommandTypeOK
  <2>2. /\ pipe'[s] = pipe[s] + 1 /\ written'[s] = written[s] + 1
        /\ \A r \in Streams \ {s} : pipe'[r] = pipe[r] /\ written'[r] = written[r]
        /\ data' = data
    BY <1>5, <2>1 DEF ChildWrites, CommandTypeOK, parentVars
  <2>3. pipe[s] \in Nat /\ data[s] \in Nat
    BY <2>1, PipeSizesAssumption DEF CommandTypeOK
  <2>4. written'[s] = data'[s] + pipe'[s]
    BY <2>1, <2>2, <2>3 DEF Conserved
  <2> QED
    BY <2>2, <2>4 DEF Conserved
<1> QED
  BY <1>2, <1>4, <1>5 DEF CommandNext, Parent, Child

LEMMA HupStep == CommandInv /\ [CommandNext]_commandVars => HupInv'
<1> SUFFICES ASSUME CommandInv, [CommandNext]_commandVars PROVE HupInv'
  OBVIOUS
<1> USE DEF CommandInv
<1>1. ASSUME hup' \cup hungUpYet' \subseteq hup \cup hungUpYet,
             child' = child \/ (child # "none" /\ child' \in Gone),
             step' \in BeforeFork => step \in BeforeFork,
             step' \in LoopPcs \cup {"wait"} => step \in LoopPcs \cup {"wait"}
      PROVE  HupInv'
  BY <1>1 DEF HupInv, Gone
<1>2. ASSUME NEW s \in Streams, NEW next \in LoopPcs, Poll(s, next), step \in LoopPcs
      PROVE  HupInv'
  <2>1. child' = child /\ hungUpYet' = hungUpYet /\ child # "none"
    BY <1>2 DEF Poll, childVars, HupInv
  <2>4. step' = next /\ next \notin BeforeFork
    BY <1>2 DEF Poll, Proceed, LoopPcs, BeforeFork
  <2>2. CASE HangUp(s)
    BY <1>2, <2>1, <2>2, <2>4 DEF HangUp, ChildHasWriteEnds, CommandTypeOK, Gone, HupInv
  <2>3. CASE ~HangUp(s)
    <3>1. hup' \subseteq hup
      BY <1>2, <2>3 DEF Poll, Polled, TooLate
    <3> QED
      BY <1>1, <1>2, <2>1, <2>4, <3>1
  <2> QED
    BY <2>2, <2>3
<1>3. CASE OpenOut \/ OpenErr
  BY <1>1, <1>3 DEF BeforeFork, OpenOut, OpenErr, Proceed, LoopPcs, BeforeFork, childVars
<1>12. CASE ChildWrites
  BY <1>1, <1>12 DEF ChildWrites, parentVars
<1>13. CASE UNCHANGED commandVars
  BY <1>1, <1>13 DEF commandVars, parentVars, childVars
<1>4. CASE Fork
  BY <1>4 DEF Fork, Proceed, LoopPcs, BeforeFork, HupInv, Gone
<1>5. CASE PollOut \/ PollErr
  BY <1>2, <1>5 DEF PollOut, PollErr, LoopPcs, BeforeFork, Streams
<1>6. CASE ReadOut \/ ReadErr
  BY <1>1, <1>6 DEF ReadOut, ReadErr, Read, Proceed, childVars, LoopPcs, BeforeFork
<1>7. CASE NoteHangUps
  BY <1>1, <1>7 DEF NoteHangUps, Proceed, childVars, LoopPcs, BeforeFork
<1>8. CASE LoopFails
  BY <1>1, <1>8 DEF LoopFails, childVars, Proceed, LoopPcs, BeforeFork
<1>9. CASE WaitForChild
  BY <1>1, <1>9 DEF WaitForChild, Proceed, LoopPcs, BeforeFork, Gone
<1>10. CASE Exec
  BY <1>10 DEF Exec, parentVars, HupInv, Gone
<1>11. CASE ChildEnds
  BY <1>1, <1>11 DEF ChildEnds, parentVars, Gone
<1> QED
  BY <1>3, <1>4, <1>5, <1>6, <1>7, <1>8, <1>9, <1>10, <1>11, <1>12, <1>13
     DEF CommandNext, Parent, Child

\* What a poll() says of a stream is up to date unless it came too late, and it
\* says nothing of the other one.
LEMMA PollTells ==
  ASSUME CommandTypeOK, NEW s \in Streams, NEW next, Poll(s, next)
  PROVE  /\ s \in in' => HasData(s)
         /\ HasData(s) => s \in in' \/ s \in late'
         /\ s \in hup' => HangUp(s)
         /\ \A r \in Streams \ {s} :
              /\ r \in in' <=> r \in in
              /\ r \in hup' <=> r \in hup
              /\ r \in late' <=> r \in late
<1>1. CASE Polled(s)
  BY <1>1 DEF Polled
<1>2. CASE TooLate(s)
  BY <1>2 DEF TooLate, Ready
<1> QED
  BY <1>1, <1>2 DEF Poll

LEMMA EmptyStep ==
  CommandInv /\ [CommandNext]_commandVars => EmptyInv'
<1> SUFFICES ASSUME CommandInv, [CommandNext]_commandVars PROVE EmptyInv'
  OBVIOUS
<1> USE DEF CommandInv
\* Pipes that are empty stay so, and the parent learns nothing new.
<1>1. ASSUME hup' \cup hungUpYet' \subseteq hup \cup hungUpYet, in' = in, late' = late,
             \A s \in Streams : pipe[s] = 0 => pipe'[s] = 0,
             child \in Gone => child' \in Gone,
             \A s \in Streams : step' \in PolledAt(s) => step \in PolledAt(s),
             step' \in {"wait", "returned"} => step \in {"wait", "returned"}
      PROVE  EmptyInv'
  BY <1>1 DEF EmptyInv
<1> USE DEF PolledAt
<1>2. CASE OpenOut \/ OpenErr \/ Fork
  BY <1>2 DEF OpenOut, OpenErr, Fork, Proceed, EmptyInv
<1>3. ASSUME NEW s \in Streams, NEW next, Poll(s, next), step \in LoopPcs,
             next \notin {"wait", "returned"},
             \A r \in Streams : next \in PolledAt(r) => r = s \/ step \in PolledAt(r)
      PROVE  EmptyInv'
  <2>1. pipe' = pipe /\ hungUpYet' = hungUpYet /\ step' = next
    BY <1>3 DEF Poll, Proceed
  <2>2. s \notin in' /\ s \notin late' => pipe'[s] = 0
    BY <1>3, <2>1, PollTells, PipeSizesAssumption DEF HasData, CommandTypeOK
  <2>3. \A r \in Streams \ {s} :
          /\ r \in in' <=> r \in in
          /\ r \in hup' <=> r \in hup
          /\ r \in late' <=> r \in late
    BY <1>3, PollTells
  <2> QED
    BY <1>3, <2>1, <2>2, <2>3 DEF EmptyInv
<1>4. CASE PollOut
  BY <1>3, <1>4 DEF PollOut, LoopPcs, Streams
<1>5. CASE PollErr
  BY <1>3, <1>5 DEF PollErr, LoopPcs, Streams
<1>6. ASSUME NEW s \in Streams, NEW next, Read(s, next)
      PROVE  \A r \in Streams : pipe[r] = 0 => pipe'[r] = 0
  <2>1. pipe[s] = 0 => Available(s) = 0
    BY AvailableBound
  <2> QED
    BY <1>6, <2>1 DEF Read, CommandTypeOK
<1>7. CASE ReadOut
  <2>1. step = "readOut" /\ step' = "readErr" /\ UNCHANGED <<hup, late, hungUpYet, in, child>>
    BY <1>7 DEF ReadOut, Read, Proceed, childVars
  <2>2. \A r \in Streams : pipe[r] = 0 => pipe'[r] = 0
    BY <1>6, <1>7 DEF ReadOut, Streams
  <2> QED
    BY <1>1, <2>1, <2>2
<1>8. CASE ReadErr
  <2>1. step = "readErr" /\ step' = "hup" /\ UNCHANGED <<hup, late, hungUpYet, in, child>>
    BY <1>8 DEF ReadErr, Read, Proceed, childVars
  <2>2. \A r \in Streams : pipe[r] = 0 => pipe'[r] = 0
    BY <1>6, <1>8 DEF ReadErr, Streams
  <2> QED
    BY <1>1, <2>1, <2>2
<1>9. CASE NoteHangUps
  <2>1. /\ step = "hup" /\ hungUpYet' = hungUpYet \cup hup
        /\ UNCHANGED <<hup, late, in, pipe, child>>
        /\ step' = IF LoopEnds(hungUpYet') THEN "wait" ELSE "pollOut"
    BY <1>9 DEF NoteHangUps, Proceed, childVars
  <2>2. CASE LoopEnds(hungUpYet')
    BY <2>1, <2>2 DEF LoopEnds, EmptyInv, HupInv, Streams
  <2>3. CASE ~LoopEnds(hungUpYet')
    BY <2>1, <2>3 DEF EmptyInv
  <2> QED
    BY <2>2, <2>3
<1>10. CASE LoopFails
  BY <1>10 DEF LoopFails, Proceed, EmptyInv
<1>11. CASE WaitForChild
  BY <1>11 DEF WaitForChild, Proceed, EmptyInv, Gone
<1>12. CASE Exec
  BY <1>12 DEF Exec, parentVars, EmptyInv, Gone
<1>13. CASE ChildWrites
  <2>1. child \notin Gone /\ UNCHANGED parentVars
    BY <1>13 DEF ChildWrites, Gone
  <2> QED
    BY <2>1 DEF EmptyInv, HupInv, parentVars
<1>14. CASE ChildEnds
  BY <1>1, <1>14 DEF ChildEnds, parentVars, Gone
<1>15. CASE UNCHANGED commandVars
  BY <1>1, <1>15 DEF commandVars, parentVars, childVars
<1> QED
  BY <1>2, <1>4, <1>5, <1>7, <1>8, <1>9, <1>10, <1>11, <1>12, <1>13, <1>14, <1>15
     DEF CommandNext, Parent, Child

\* Every variable keeps its type.
THEOREM CommandTypeCorrect == CommandSpec => []CommandTypeOK
BY CommandTypeInit, CommandTypeStep, PTL DEF CommandSpec

\* execCmd() returns everything the command has written to a stream whose last
\* poll() was not too late, and nothing else, however the writes, polls, reads and
\* hang-ups interleave.
THEOREM NothingLost == CommandSpec => []LostOnlyWhenLate
<1>1. CommandInit => CommandInv
  <2> SUFFICES ASSUME CommandInit PROVE CommandInv
    OBVIOUS
  <2>1. Conserved /\ HupInv /\ EmptyInv
    BY DEF CommandInit, Conserved, HupInv, EmptyInv, PolledAt, LoopPcs, BeforeFork
  <2> QED
    BY <2>1, CommandTypeInit DEF CommandInv
<1>2. CommandInv /\ [CommandNext]_commandVars => CommandInv'
  BY CommandTypeStep, ConservedStep, HupStep, EmptyStep DEF CommandInv
<1>3. CommandInv => LostOnlyWhenLate
  <2> SUFFICES ASSUME CommandInv, NEW s \in Streams
               PROVE  /\ data[s] <= written[s]
                      /\ step = "returned" => data[s] = written[s] \/ s \in late
    BY DEF LostOnlyWhenLate
  <2>1. /\ written[s] = data[s] + pipe[s] /\ data[s] \in Nat /\ pipe[s] \in Nat
        /\ step = "returned" => pipe[s] = 0 \/ s \in late
    BY PipeSizesAssumption DEF CommandInv, EmptyInv, Conserved, CommandTypeOK
  <2> QED
    BY <2>1
<1> QED
  BY <1>1, <1>2, <1>3, PTL DEF CommandSpec
=============================================================================
