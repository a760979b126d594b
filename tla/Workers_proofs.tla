--------------------------- MODULE Workers_proofs ---------------------------
(***************************************************************************)
(* Theorems about the two kinds of worker threads that serve requests: the *)
(* AsyncWorker, for any number of inputs, with or without an output queue; *)
(* and the workers of a TcpServer that serve encrypted sessions            *)
(* (CryptoClientServer), for any connections, backlog and numbers of       *)
(* requests.  The two specifications share nothing.                        *)
(***************************************************************************)
EXTENDS AsyncWorker, CryptoClientServer, FiniteSetTheorems, SequenceTheorems, TLAPS

\* The input in worker() or on its way to the output is the one taken last.
CurrentInv ==
  /\ Len(inQueue) <= fed
  /\ workerPc \in {"worker", "put"} => current = taken /\ current # 0
  /\ workerPc = "put" => HasOutput
  /\ ownerPc = "joined" => workerPc = "end"

IInv == AsyncTypeOK /\ CurrentInv /\ ExactlyOneOutput

LEMMA TypeStep == IInv /\ [AsyncNext]_asyncVars => AsyncTypeOK'
<1> SUFFICES ASSUME IInv, [AsyncNext]_asyncVars PROVE AsyncTypeOK'
  OBVIOUS
<1> USE InputAssumption DEF IInv, AsyncTypeOK, AsyncPcs, queueVars, flagVars
<1>1. CASE While \/ Sleep \/ Preempt
  BY <1>1 DEF While, Sleep, Preempt
<1>2. CASE SetRunning
  <2>1. isRunning' \in BOOLEAN
    BY <1>2, Zenon DEF SetRunning
  <2> QED
    BY <1>2, <2>1 DEF SetRunning
<1>3. CASE Take
  <2>1. Head(inQueue) \in 1..MaxInputs /\ Tail(inQueue) \in Seq(1..MaxInputs)
    BY <1>3 DEF Take
  <2> QED
    BY <1>3, <2>1 DEF Take
<1>4. CASE AsyncWorkerReturn \/ UpdateStats
  BY <1>4 DEF AsyncWorkerReturn, UpdateStats
<1>5. CASE PutOutput
  <2>1. current \in 1..MaxInputs
    BY <1>5 DEF PutOutput, CurrentInv
  <2> QED
    BY <1>5, <2>1 DEF PutOutput
<1>6. CASE Feed
  <2>1. fed + 1 \in 1..MaxInputs
    BY <1>6 DEF Feed
  <2> QED
    BY <1>6, <2>1 DEF Feed
<1>7. CASE Collect
  <2>1. Head(outQueue) \in 1..MaxInputs /\ Tail(outQueue) \in Seq(1..MaxInputs)
    BY <1>7 DEF Collect
  <2> QED
    BY <1>7, <2>1 DEF Collect
<1>8. CASE Suspend \/ Resume \/ Join \/ AsyncJoinReturn
  <2>1. CASE Suspend
    BY <2>1 DEF Suspend
  <2>2. CASE Resume
    BY <2>2 DEF Resume
  <2>3. CASE Join
    BY <2>3 DEF Join
  <2>4. CASE AsyncJoinReturn
    BY <2>4 DEF AsyncJoinReturn
  <2> QED
    BY <1>8, <2>1, <2>2, <2>3, <2>4
<1>9. CASE UNCHANGED asyncVars
  BY <1>9 DEF asyncVars
<1> QED
  BY <1>1, <1>2, <1>3, <1>4, <1>5, <1>6, <1>7, <1>8, <1>9 DEF AsyncNext, AsyncStep

\* How runs of consecutive numbers behave at both ends of a queue.
LEMMA RunAppend ==
  ASSUME NEW from \in Nat, NEW s \in Seq(Nat), IsRun(s, from)
  PROVE  IsRun(Append(s, from + Len(s) + 1), from)
BY DEF IsRun

LEMMA RunTail ==
  ASSUME NEW from \in Nat, NEW s \in Seq(Nat), IsRun(s, from), s # <<>>
  PROVE  Head(s) = from + 1 /\ IsRun(Tail(s), from + 1)
<1>1. Len(s) \in Nat \ {0} /\ DOMAIN s = 1..Len(s)
  OBVIOUS
<1>2. Head(s) = s[1]
  OBVIOUS
<1>3. /\ DOMAIN Tail(s) = 1..(Len(s) - 1)
      /\ \A k \in 1..(Len(s) - 1) : Tail(s)[k] = s[k + 1]
  BY <1>1
<1> QED
  BY <1>1, <1>2, <1>3 DEF IsRun

LEMMA InvStep == IInv /\ [AsyncNext]_asyncVars => IInv'
<1> SUFFICES ASSUME IInv, [AsyncNext]_asyncVars PROVE (CurrentInv /\ ExactlyOneOutput)'
  BY TypeStep DEF IInv
<1>0. /\ inQueue \in Seq(Nat) /\ outQueue \in Seq(Nat) /\ delivered \in Seq(Nat)
      /\ Len(inQueue) \in Nat /\ Len(outQueue) \in Nat /\ Len(delivered) \in Nat
      /\ fed \in Nat /\ taken \in Nat /\ current \in Nat
      /\ produced = Len(delivered) + Len(outQueue) /\ taken = fed - Len(inQueue)
  BY InputAssumption DEF IInv, AsyncTypeOK, CurrentInv, taken, produced
<1>9. (taken = fed - Len(inQueue) /\ produced = Len(delivered) + Len(outQueue))'
  BY DEF taken, produced
<1> USE DEF IInv, CurrentInv, ExactlyOneOutput, queueVars, flagVars
<1>1. CASE \/ While \/ SetRunning \/ Sleep \/ Preempt \/ AsyncWorkerReturn
           \/ UpdateStats \/ Suspend \/ Resume \/ Join \/ AsyncJoinReturn
  <2>1. UNCHANGED queueVars
    BY <1>1 DEF While, SetRunning, Sleep, Preempt, AsyncWorkerReturn, UpdateStats,
                Suspend, Resume, Join, AsyncJoinReturn
  <2>2. taken' = taken /\ produced' = produced
    BY <1>0, <1>9, <2>1
  <2>3. CurrentInv'
    BY <1>1, <2>1, <2>2 DEF While, SetRunning, Sleep, Preempt, AsyncWorkerReturn,
                UpdateStats, Suspend, Resume, Join, AsyncJoinReturn
  <2>4. HasOutput => inHand' = inHand
    BY <1>1 DEF While, SetRunning, Sleep, Preempt, AsyncWorkerReturn, UpdateStats,
                Suspend, Resume, Join, AsyncJoinReturn, inHand
  <2> QED
    BY <2>1, <2>2, <2>3, <2>4
<1>2. CASE Take
  <2>1. Head(inQueue) = taken + 1 /\ IsRun(Tail(inQueue), taken + 1)
    BY <1>0, <1>2, RunTail DEF Take
  <2>2. Len(Tail(inQueue)) = Len(inQueue) - 1 /\ Len(inQueue) # 0
    BY <1>0, <1>2 DEF Take
  <2>3. /\ inQueue' = Tail(inQueue) /\ current' = Head(inQueue)
        /\ workerPc = "get" /\ workerPc' = "worker"
        /\ UNCHANGED <<outQueue, fed, delivered, ownerPc>>
    BY <1>2 DEF Take
  <2>4. taken' = taken + 1 /\ produced' = produced
    BY <1>0, <1>9, <2>2, <2>3
  <2>5. inHand = 0 /\ inHand' = 1
    BY <2>3 DEF inHand
  <2>6. CurrentInv'
    BY <1>0, <2>1, <2>2, <2>3, <2>4
  <2>7. ASSUME HasOutput PROVE produced' = taken' - inHand'
    <3>1. produced = taken
      BY <1>0, <2>5, <2>7
    <3>2. taken \in Nat /\ taken' = taken + 1 /\ produced' = produced
      BY <1>0, <2>4
    <3> HIDE DEF IInv, CurrentInv, ExactlyOneOutput
    <3> QED
      BY <2>5, <3>1, <3>2, SMT
  <2> QED
    BY <2>1, <2>3, <2>4, <2>6, <2>7
<1>3. CASE PutOutput
  <2>1. /\ outQueue' = Append(outQueue, current)
        /\ UNCHANGED <<inQueue, fed, delivered, ownerPc>>
        /\ workerPc = "put" /\ workerPc' = "stats"
    BY <1>3 DEF PutOutput
  <2>2. Len(outQueue') = Len(outQueue) + 1
    BY <1>0, <2>1
  <2>3. inHand = 1 /\ inHand' = 0
    BY <2>1 DEF inHand
  <2>4. HasOutput /\ produced = taken - 1 /\ current = taken
    BY <2>1, <2>3
  <2>5. IsRun(outQueue', Len(delivered))
    BY <1>0, <2>1, <2>4, RunAppend
  <2>6. taken' = taken /\ produced' = produced + 1
    BY <1>0, <1>9, <2>1, <2>2
  <2>7. produced' = taken' - inHand'
    BY <1>0, <2>3, <2>4, <2>6
  <2>8. CurrentInv'
    BY <2>1
  <2> QED
    BY <2>1, <2>5, <2>6, <2>7, <2>8
<1>4. CASE Feed
  <2>1. /\ inQueue' = Append(inQueue, fed + 1) /\ fed' = fed + 1
        /\ UNCHANGED <<outQueue, delivered, current, workerPc, ownerPc>>
    BY <1>4 DEF Feed
  <2>2. Len(inQueue') = Len(inQueue) + 1
    BY <1>0, <2>1
  <2>3. taken' = taken /\ fed + 1 = taken + Len(inQueue) + 1
        /\ produced' = produced
    BY <1>0, <1>9, <2>1, <2>2
  <2>4. IsRun(inQueue', taken)
    BY <1>0, <2>1, <2>3, RunAppend
  <2>5. inHand' = inHand
    BY <2>1 DEF inHand
  <2>6. CurrentInv'
    BY <1>0, <2>1, <2>2, <2>3
  <2> QED
    BY <2>1, <2>3, <2>4, <2>5, <2>6
<1>5. CASE Collect
  <2>1. Head(outQueue) = Len(delivered) + 1
        /\ IsRun(Tail(outQueue), Len(delivered) + 1)
    BY <1>0, <1>5, RunTail DEF Collect
  <2>2. /\ outQueue' = Tail(outQueue)
        /\ delivered' = Append(delivered, Head(outQueue))
        /\ UNCHANGED <<inQueue, fed, current, workerPc, ownerPc>>
    BY <1>5 DEF Collect
  <2>3. /\ Len(outQueue') = Len(outQueue) - 1
        /\ Len(delivered') = Len(delivered) + 1
    BY <1>0, <1>5, <2>2 DEF Collect
  <2>4. IsRun(delivered', 0)
    BY <1>0, <2>1, <2>2, RunAppend
  <2>5. taken' = taken /\ produced' = produced
    <3>1. Len(inQueue') = Len(inQueue) /\ fed' = fed
      BY <2>2
    <3> HIDE DEF IInv, CurrentInv, ExactlyOneOutput
    <3> QED
      BY <1>0, <1>9, <2>3, <3>1
  <2>6. inHand' = inHand
    BY <2>2 DEF inHand
  <2> QED
    BY <2>1, <2>2, <2>3, <2>4, <2>5, <2>6
<1>6. CASE UNCHANGED asyncVars
  <2>1. taken' = taken /\ produced' = produced /\ inHand' = inHand
    BY <1>6 DEF asyncVars, taken, produced, inHand
  <2> QED
    BY <1>6, <2>1 DEF asyncVars
<1> QED
  BY <1>1, <1>2, <1>3, <1>4, <1>5, <1>6 DEF AsyncNext, AsyncStep

\* The inductive invariant.
THEOREM Invariant == AsyncSpec => []IInv
<1>1. AsyncInit => IInv
  <2> SUFFICES ASSUME AsyncInit PROVE IInv
    OBVIOUS
  <2>1. AsyncTypeOK
    <3>1. /\ inQueue \in Seq(1..MaxInputs) /\ outQueue \in Seq(1..MaxInputs)
          /\ delivered \in Seq(1..MaxInputs)
      BY DEF AsyncInit
    <3>2. fed \in 0..MaxInputs /\ current \in 0..MaxInputs
      BY InputAssumption DEF AsyncInit
    <3> QED
      BY <3>1, <3>2 DEF AsyncInit, AsyncTypeOK, AsyncPcs
  <2>2. Len(inQueue) = 0 /\ Len(outQueue) = 0 /\ Len(delivered) = 0
    BY DEF AsyncInit
  <2>3. IsRun(delivered, 0) /\ IsRun(outQueue, Len(delivered))
        /\ IsRun(inQueue, taken)
    BY DEF AsyncInit, IsRun
  <2>4. taken = 0 /\ produced = 0 /\ inHand = 0
    <3>1. fed = 0 /\ workerPc = "while"
      BY DEF AsyncInit
    <3> QED
      BY <2>2, <3>1 DEF taken, produced, inHand
  <2> QED
    BY <2>1, <2>2, <2>3, <2>4 DEF AsyncInit, IInv, CurrentInv, ExactlyOneOutput
<1> QED
  BY <1>1, InvStep, PTL DEF AsyncSpec

\* Every reachable state is type correct.
THEOREM TypeCorrect == AsyncSpec => []AsyncTypeOK
<1>1. IInv => AsyncTypeOK
  BY DEF IInv
<1> QED
  BY <1>1, Invariant, PTL

\* Each input produces exactly one output, in order, whatever the owner calls.
THEOREM OneOutputPerInput == AsyncSpec => []ExactlyOneOutput
<1>1. IInv => ExactlyOneOutput
  BY DEF IInv
<1> QED
  BY <1>1, Invariant, PTL

\* join() loses no input that has been taken.
THEOREM JoinDropsNothing == AsyncSpec => []NothingDropped
<1>1. IInv => NothingDropped
  <2> SUFFICES ASSUME IInv, ownerPc = "joined", HasOutput
               PROVE  produced = taken
    BY DEF NothingDropped
  <2>1. inHand = 0
    BY DEF IInv, CurrentInv, inHand
  <2>2. taken \in Nat
    BY InputAssumption DEF IInv, AsyncTypeOK, CurrentInv, taken
  <2> QED
    BY <2>1, <2>2 DEF IInv, ExactlyOneOutput
<1> QED
  BY <1>1, Invariant, PTL

-----------------------------------------------------------------------------
\* While running() is FALSE the worker thread stays away from the queues.
THEOREM NotRunningIsQuiet == AsyncSpec => []NotRunningMeansQuiet
<1>1. AsyncInit => NotRunningMeansQuiet
  BY DEF AsyncInit, NotRunningMeansQuiet
<1>2. NotRunningMeansQuiet /\ [AsyncNext]_asyncVars => NotRunningMeansQuiet'
  BY DEF NotRunningMeansQuiet, AsyncNext, AsyncStep, While, SetRunning, Sleep, Take,
         Preempt, AsyncWorkerReturn, PutOutput, UpdateStats, Feed, Collect, Suspend,
         Resume, Join, AsyncJoinReturn, asyncVars
<1> QED
  BY <1>1, <1>2, PTL DEF AsyncSpec

\* A second late input would need a get() that was entered after suspend().
LateInv ==
  /\ lateStarts \in {0, 1}
  /\ (~suspendRequested \/ workerPc = "get") => lateStarts = 0

\* After suspend() at most one more input is taken.
THEOREM SuspendsAfterOneInput == AsyncSpec => []AtMostOneLate
<1>1. AsyncInit => LateInv
  BY DEF AsyncInit, LateInv
<1>2. LateInv /\ [AsyncNext]_asyncVars => LateInv'
  <2> SUFFICES ASSUME LateInv, [AsyncNext]_asyncVars PROVE LateInv'
    OBVIOUS
  <2> USE DEF LateInv, queueVars, flagVars
  <2>1. CASE SetRunning
    BY <2>1, Zenon DEF SetRunning
  <2>2. CASE Take
    BY <2>2 DEF Take
  <2>3. CASE \/ While \/ Sleep \/ Preempt \/ AsyncWorkerReturn \/ PutOutput
             \/ UpdateStats
    BY <2>3 DEF While, Sleep, Preempt, AsyncWorkerReturn, PutOutput, UpdateStats
  <2>4. CASE \/ Feed \/ Collect \/ Suspend \/ Resume \/ Join \/ AsyncJoinReturn
             \/ UNCHANGED asyncVars
    BY <2>4 DEF Feed, Collect, Suspend, Resume, Join, AsyncJoinReturn, asyncVars
  <2> QED
    BY <2>1, <2>2, <2>3, <2>4 DEF AsyncNext, AsyncStep
<1>3. LateInv => AtMostOneLate
  BY DEF LateInv, AtMostOneLate
<1> QED
  BY <1>1, <1>2, <1>3, PTL DEF AsyncSpec

\* suspend() keeps its promises for any number of inputs.
THEOREM SuspendingIsSafe == AsyncSpec => []SuspendIsSafe
<1>1. NotRunningMeansQuiet /\ AtMostOneLate => SuspendIsSafe
  BY DEF SuspendIsSafe
<1> QED
  BY <1>1, NotRunningIsQuiet, SuspendsAfterOneInput, PTL

-----------------------------------------------------------------------------
(***************************************************************************)
(* Encrypted sessions.  What the two sides of a connection count with,     *)
(* share and send; then, for one connection, what client and server may    *)
(* know of each other at each step.  The invariant says more than the two  *)
(* properties need: which messages wait for whom at every pair of steps,   *)
(* and for every nonce that was used that both sides have counted past it. *)
(***************************************************************************)
AuthNonce(k, n) == Nonce(k, "authentication", n)
SessionNonce(k, n) == Nonce(k, "session", n)
BoxKey(k) == <<k, "keyPairs">>
SessionKey(k) == SharedSecret(Drawn(k, "clientDh"), Drawn(k, "serverDh"))

Phrase == [type |-> "phrase"]
Okay == [type |-> "OK"]
ClientKeys(k) == [type |-> "keys", challenge |-> Drawn(k, "clientChallenge")]
ServerBox(k) == Box(k, AuthNonce(k, 0), Drawn(k, "clientChallenge"))
ServerProof(k) == [type |-> "proof", proof |-> ServerBox(k), nonce |-> AuthNonce(k, 0),
                   challenge |-> Drawn(k, "serverChallenge")]
ClientBox(k) == Box(k, AuthNonce(k, 1), Drawn(k, "serverChallenge"))
ClientDhBox(k) == Box(k, AuthNonce(k, 2), Drawn(k, "clientDh"))
ClientProof(k) == [type |-> "proof", proof |-> ClientBox(k), sym |-> SessionNonce(k, 0),
                   dh |-> ClientDhBox(k)]
ServerDhBox(k) == Box(k, AuthNonce(k, 3), Drawn(k, "serverDh"))
ServerDh(k) == [type |-> "dh", dh |-> ServerDhBox(k)]
RequestNo(k, n, r) == SecretBox(SessionKey(k), SessionNonce(k, n), <<"request", r>>)
ResponseNo(k, n, r) == SecretBox(SessionKey(k), SessionNonce(k, n), <<"response", r>>)

ToServerMessages(k) ==
  {Phrase, ClientKeys(k), ClientProof(k)} \cup {RequestNo(k, n, r) : n \in Nat, r \in Requests(k)}

-----------------------------------------------------------------------------
(* One connection.  c and s are its client and its server, ts and tc the   *)
(* messages under way to the server and to the client.                     *)
Fields(k, c, s) ==
  /\ DOMAIN c = DOMAIN NewClient /\ DOMAIN s = DOMAIN NewServer
  /\ c.pc \in {"new", "greeted", "keysSent", "proofSent", "session", "waiting", "closed"}
  /\ s.pc \in {"step1", "step2", "step3", "serve", "handle", "leaving", "left"}
  /\ c.sent \in 0..MaxRequests[k]

\* What waits for the server, whoever else is there.
ServerSide(k, s, ts) ==
  /\ s.pc = "step1" => ts \in {<<>>, <<Phrase>>}
  /\ s.pc = "step2" => ts \in {<<>>, <<ClientKeys(k)>>}
  /\ s.pc = "step3" => ts \in {<<>>, <<ClientProof(k)>>} /\ s.asym = AuthNonce(k, 0)
  /\ s.pc = "left" => ts = <<>>
  /\ s.pc \in {"serve", "handle"} =>
       /\ s.key = SessionKey(k)
       /\ s.sym.count \in Nat /\ s.sym = SessionNonce(k, s.sym.count)
       /\ \A i \in 1..Len(ts) : \E r \in Requests(k) :
            ts[i] = RequestNo(k, s.sym.count + i, r) /\ (i < Len(ts) => r.kind = "tell")
  /\ s.pc = "handle" => s.request \in Requests(k) /\ (s.request.kind # "tell" => ts = <<>>)

\* Not more messages wait than the client has sent.
Written(k, c, ts) ==
  /\ ts \in Seq(ToServerMessages(k))
  /\ Len(ts) <= 3 + MaxRequests[k]
  /\ c.pc = "greeted" => Len(ts) <= 1
  /\ c.pc = "keysSent" => Len(ts) <= 2
  /\ c.pc = "proofSent" => Len(ts) <= 3
  /\ c.pc \in {"session", "waiting"} => Len(ts) <= 3 + c.sent

\* Where both sides stand while the client authenticates.
Gone(s) == s.pc \in {"leaving", "left"}

Handshake(k, c, s, ts, tc) ==
  /\ c.pc = "new" => s.pc = "step1" /\ ts = <<>> /\ tc = <<>>
  /\ c.pc = "greeted" =>
       \/ s.pc = "step1" /\ ts = <<Phrase>> /\ tc = <<>>
       \/ s.pc = "step2" /\ ts = <<>> /\ tc = <<Okay>>
       \/ Gone(s) /\ tc \in {<<>>, <<Okay>>}
  /\ c.pc = "keysSent" =>
       \/ s.pc = "step2" /\ ts = <<ClientKeys(k)>> /\ tc = <<>>
       \/ s.pc = "step3" /\ ts = <<>> /\ tc = <<ServerProof(k)>>
       \/ Gone(s) /\ tc \in {<<>>, <<ServerProof(k)>>}
  /\ c.pc = "proofSent" =>
       /\ c.asym = AuthNonce(k, 2) /\ c.sym = SessionNonce(k, 0)
       /\ \/ s.pc = "step3" /\ ts = <<ClientProof(k)>> /\ tc = <<>>
          \/ s.pc = "serve" /\ ts = <<>> /\ tc = <<ServerDh(k)>> /\ s.sym = SessionNonce(k, 0)
          \/ Gone(s) /\ tc = <<>>
          \/ Gone(s) /\ tc = <<ServerDh(k)>> /\ (s.pc = "leaving" => s.key = SessionKey(k))
  /\ c.pc = "closed" => tc = <<>>

\* And in the session: both count to the same nonce.
Session(k, c, s, ts, tc) ==
  c.pc \in {"session", "waiting"} =>
    /\ c.key = SessionKey(k)
    /\ c.sym.count \in Nat /\ c.sym = SessionNonce(k, c.sym.count)
    /\ c.pc = "session" => tc = <<>>
    /\ \/ /\ s.pc \in {"serve", "handle"}
          /\ c.sym.count = s.sym.count + Len(ts) /\ tc = <<>>
          /\ c.pc = "session" =>
               /\ s.pc = "handle" => s.request.kind = "tell"
               /\ \A i \in 1..Len(ts) : ts[i].text[2].kind = "tell"
       \/ /\ s.pc = "serve" /\ c.pc = "waiting" /\ ts = <<>>
          /\ s.sym.count = c.sym.count + 1
          /\ \E r \in Requests(k) : tc = <<ResponseNo(k, c.sym.count + 1, r)>>
       \/ /\ Gone(s) /\ (s.pc = "leaving" => s.key = SessionKey(k))
          /\ \/ tc = <<>>
             \/ \E r \in Requests(k) : tc = <<ResponseNo(k, c.sym.count + 1, r)>>

Agreed(k, c, s, ts, tc) ==
  /\ Fields(k, c, s)
  /\ ServerSide(k, s, ts)
  /\ Written(k, c, ts)
  /\ Handshake(k, c, s, ts, tc)
  /\ Session(k, c, s, ts, tc)

Connection(k) == Agreed(k, client[k], server[k], toServer[k], toClient[k])

-----------------------------------------------------------------------------
(* The nonces that were used.  n counts one of the session's.              *)
Used(n, c, s, ts) ==
  /\ c.pc \in {"session", "waiting", "closed"}
  /\ s.pc \notin {"step1", "step2", "step3"}
  /\ c.pc = "session" => n <= c.sym.count
  /\ c.pc = "waiting" => n <= c.sym.count + 1
  /\ s.pc \in {"serve", "handle"} => n <= s.sym.count + Len(ts)

Boxes(k) == {ServerBox(k), ClientBox(k), ClientDhBox(k), ServerDhBox(k)}

SealedBy(k, m) ==
  \/ m \in Boxes(k)
  \/ /\ m.nonce.count \in Nat /\ m.nonce = SessionNonce(k, m.nonce.count)
     /\ Used(m.nonce.count, client[k], server[k], toServer[k])

SealedInv == \A m \in sealed : \E k \in Connections : SealedBy(k, m)

\* A connection that nobody opened is nowhere.
Unopened ==
  /\ \A k \in Connections : client[k].pc = "new" => ws[k] = "None"
  /\ \A i \in 1..Len(backlog) : client[backlog[i]].pc # "new"

Domains ==
  /\ DOMAIN client = Connections /\ DOMAIN server = Connections
  /\ DOMAIN toServer = Connections /\ DOMAIN toClient = Connections

SessionIInv ==
  /\ ServerTypeOK /\ Domains
  /\ \A k \in Connections : Connection(k)
  /\ Unopened /\ SealedInv /\ NonceOnce

-----------------------------------------------------------------------------
(* increment() counts; nonces of two purposes or connections differ.       *)
LEMMA PlusCounts ==
  ASSUME NEW k, NEW w, NEW n \in Nat, NEW i \in Nat
  PROVE  Plus(Nonce(k, w, n), i) = Nonce(k, w, n + i)
BY DEF Plus, Nonce

LEMMA NoncesDiffer ==
  ASSUME NEW k, NEW l, NEW w, NEW v, NEW n, NEW m, Nonce(k, w, n) = Nonce(l, v, m)
  PROVE  k = l /\ w = v /\ n = m
<1>1. Nonce(k, w, n).drawn = Nonce(l, v, m).drawn /\ Nonce(k, w, n).count = Nonce(l, v, m).count
  OBVIOUS
<1>2. Drawn(k, w) = Drawn(l, v) /\ n = m
  BY <1>1 DEF Nonce
<1> QED
  BY <1>2 DEF Drawn

(* What the fields of a client or a server are after an assignment.        *)
LEMMA ClientPc ==
  ASSUME NEW c, DOMAIN c = DOMAIN NewClient, NEW p
  PROVE  LET d == [c EXCEPT !.pc = p] IN
         /\ DOMAIN d = DOMAIN NewClient /\ d.pc = p
         /\ d.asym = c.asym /\ d.sym = c.sym /\ d.key = c.key /\ d.sent = c.sent
BY DEF NewClient

(* Sequences that the channels hold.                                       *)
LEMMA OneMessage ==
  ASSUME NEW S, NEW m \in S
  PROVE  /\ <<m>> \in Seq(S) /\ Len(<<m>>) = 1 /\ Head(<<m>>) = m /\ Tail(<<m>>) = <<>>
         /\ Append(<<>>, m) = <<m>> /\ <<m>> # <<>>
OBVIOUS

LEMMA FirstMessage ==
  ASSUME NEW m
  PROVE  Append(<<>>, m) = <<m>> /\ Len(<<m>>) = 1 /\ Head(<<m>>) = m /\ Tail(<<m>>) = <<>>
OBVIOUS

LEMMA MessagesToServer ==
  ASSUME NEW k
  PROVE  /\ Phrase \in ToServerMessages(k)
         /\ ClientKeys(k) \in ToServerMessages(k)
         /\ ClientProof(k) \in ToServerMessages(k)
         /\ \A n \in Nat, r \in Requests(k) : RequestNo(k, n, r) \in ToServerMessages(k)
BY DEF ToServerMessages

\* What WriteToServer() does to the channel.
Sent(s, ts, m) == IF s.pc = "left" THEN ts ELSE Append(ts, m)

\* Few messages are not too many.
LEMMA FewWritten ==
  ASSUME NEW k \in Connections, NEW d, NEW ts \in Seq(ToServerMessages(k)), NEW n \in 0..3,
         Len(ts) <= n,
         \/ d.pc = "greeted" /\ n <= 1
         \/ d.pc = "keysSent" /\ n <= 2
         \/ d.pc = "proofSent"
         \/ d.pc = "session" /\ d.sent \in Nat
         \/ d.pc \in {"new", "closed"}
  PROVE  Written(k, d, ts)
<1>1. MaxRequests[k] \in Nat /\ Len(ts) \in Nat
  BY RequestAssumption
<1>2. Len(ts) <= 3 + MaxRequests[k]
  BY <1>1
<1>3. d.pc = "greeted" => Len(ts) <= 1
  BY <1>1
<1>4. d.pc = "keysSent" => Len(ts) <= 2
  BY <1>1
<1>5. d.pc = "proofSent" => Len(ts) <= 3
  BY <1>1
<1>6. d.pc \in {"session", "waiting"} => Len(ts) <= 3 + d.sent
  BY <1>1
<1> QED
  BY <1>2, <1>3, <1>4, <1>5, <1>6 DEF Written

-----------------------------------------------------------------------------
(* The steps of a client keep its connection agreed.  d is the client      *)
(* after the step, ts2 what then waits for the server.                     *)
LEMMA ConnectAgrees ==
  ASSUME NEW k \in Connections, NEW c, NEW s, NEW ts, NEW tc, Agreed(k, c, s, ts, tc),
         c.pc = "new",
         NEW d, DOMAIN d = DOMAIN NewClient, d.pc = "greeted", d.sent = c.sent,
         NEW ts2, ts2 = Sent(s, ts, Phrase)
  PROVE  Agreed(k, d, s, ts2, tc)
<1>1. s.pc = "step1" /\ ts = <<>> /\ tc = <<>>
  BY DEF Agreed, Handshake
<1>2. ts2 = <<Phrase>>
  BY <1>1 DEF Sent
<1>3. Written(k, d, ts2)
  <2>1. ts2 \in Seq(ToServerMessages(k)) /\ Len(ts2) <= 1 /\ 1 \in 0..3
    BY <1>2, MessagesToServer, OneMessage
  <2> QED
    BY <2>1, FewWritten
<1> QED
  BY <1>1, <1>2, <1>3 DEF Agreed, Fields, ServerSide, Handshake, Session, Gone

LEMMA SendKeysAgrees ==
  ASSUME NEW k \in Connections, NEW c, NEW s, NEW ts, NEW tc, Agreed(k, c, s, ts, tc),
         c.pc = "greeted", tc # <<>>,
         NEW d, DOMAIN d = DOMAIN NewClient, d.pc = "keysSent", d.sent = c.sent,
         NEW ts2, ts2 = Sent(s, ts, ClientKeys(k))
  PROVE  Agreed(k, d, s, ts2, Tail(tc))
<1>1. tc = <<Okay>> /\ ((s.pc = "step2" /\ ts = <<>>) \/ Gone(s))
  BY DEF Agreed, Handshake
<1>2. Tail(tc) = <<>>
  BY <1>1
<1>3. Written(k, d, ts2)
  <2>1. Written(k, c, ts) /\ Len(ts) <= 1
    BY DEF Agreed, Written
  <2>2. ClientKeys(k) \in ToServerMessages(k)
    BY MessagesToServer
  <2>3. /\ ts2 \in Seq(ToServerMessages(k))
        /\ Len(ts) \in Nat /\ Len(ts2) \in Nat /\ Len(ts2) <= Len(ts) + 1
    BY <2>1, <2>2 DEF Sent, Written
  <2>4. Len(ts2) <= 2 /\ 2 \in 0..3
    BY <2>1, <2>3
  <2> QED
    BY <2>3, <2>4, FewWritten
<1>4. /\ s.pc = "step2" => ts2 = <<ClientKeys(k)>>
      /\ s.pc = "left" => ts2 = <<>>
  <2>1. s.pc = "left" => ts = <<>>
    BY DEF Agreed, ServerSide
  <2>2. s.pc = "step2" => ts = <<>> /\ s.pc # "left"
    BY <1>1 DEF Gone
  <2> QED
    BY <2>1, <2>2, FirstMessage DEF Sent
<1> QED
  BY <1>1, <1>2, <1>3, <1>4 DEF Agreed, Fields, ServerSide, Handshake, Session, Gone

LEMMA SendProofAgrees ==
  ASSUME NEW k \in Connections, NEW c, NEW s, NEW ts, NEW tc, Agreed(k, c, s, ts, tc),
         c.pc = "keysSent", tc # <<>>,
         NEW d, DOMAIN d = DOMAIN NewClient, d.pc = "proofSent", d.sent = c.sent,
         d.asym = AuthNonce(k, 2), d.sym = SessionNonce(k, 0),
         NEW ts2, ts2 = Sent(s, ts, ClientProof(k))
  PROVE  Agreed(k, d, s, ts2, Tail(tc))
<1>1. tc = <<ServerProof(k)>> /\ ((s.pc = "step3" /\ ts = <<>>) \/ Gone(s))
  BY DEF Agreed, Handshake
<1>2. Tail(tc) = <<>>
  BY <1>1
<1>3. Written(k, d, ts2)
  <2>1. Written(k, c, ts) /\ Len(ts) <= 2
    BY DEF Agreed, Written
  <2>2. ClientProof(k) \in ToServerMessages(k)
    BY MessagesToServer
  <2>3. /\ ts2 \in Seq(ToServerMessages(k))
        /\ Len(ts) \in Nat /\ Len(ts2) \in Nat /\ Len(ts2) <= Len(ts) + 1
    BY <2>1, <2>2 DEF Sent, Written
  <2>4. Len(ts2) <= 3 /\ 3 \in 0..3
    BY <2>1, <2>3
  <2> QED
    BY <2>3, <2>4, FewWritten
<1>4. /\ s.pc = "step3" => ts2 = <<ClientProof(k)>>
      /\ s.pc = "left" => ts2 = <<>>
  <2>1. s.pc = "left" => ts = <<>>
    BY DEF Agreed, ServerSide
  <2>2. s.pc = "step3" => ts = <<>> /\ s.pc # "left"
    BY <1>1 DEF Gone
  <2> QED
    BY <2>1, <2>2, FirstMessage DEF Sent
<1> QED
  BY <1>1, <1>2, <1>3, <1>4 DEF Agreed, Fields, ServerSide, Handshake, Session, Gone

LEMMA FinishAuthAgrees ==
  ASSUME NEW k \in Connections, NEW c, NEW s, NEW ts, NEW tc, Agreed(k, c, s, ts, tc),
         c.pc = "proofSent", tc # <<>>,
         NEW d, DOMAIN d = DOMAIN NewClient, d.pc = "session", d.sent = c.sent,
         d.sym = c.sym, d.key = SessionKey(k)
  PROVE  Agreed(k, d, s, ts, Tail(tc))
<1>1. /\ tc = <<ServerDh(k)>> /\ d.sym = SessionNonce(k, 0)
      /\ \/ s.pc = "serve" /\ ts = <<>> /\ s.sym = SessionNonce(k, 0)
         \/ Gone(s) /\ (s.pc = "leaving" => s.key = SessionKey(k))
  BY DEF Agreed, Handshake
<1>2. Tail(tc) = <<>>
  BY <1>1
<1>3. SessionNonce(k, 0).count = 0
  BY DEF SessionNonce, Nonce
<1>4. Written(k, d, ts)
  BY RequestAssumption DEF Agreed, Fields, Written
<1>5. Session(k, d, s, ts, <<>>)
  <2>1. d.sym.count = 0
    BY <1>1, <1>3
  <2>2. s.pc = "serve" => d.sym.count = s.sym.count + Len(ts)
    BY <1>1, <1>3, <2>1 DEF Gone
  <2> QED
    BY <1>1, <2>1, <2>2 DEF Session, Gone
<1> QED
  BY <1>2, <1>4, <1>5 DEF Agreed, Fields, ServerSide, Handshake

LEMMA CountOfSessionNonce ==
  ASSUME NEW k, NEW n
  PROVE  SessionNonce(k, n).count = n
BY DEF SessionNonce, Nonce

LEMMA TextOfRequest ==
  ASSUME NEW k, NEW n, NEW r
  PROVE  RequestNo(k, n, r).text[2] = r
BY DEF RequestNo, SecretBox

LEMMA SendRequestAgrees ==
  ASSUME NEW k \in Connections, NEW c, NEW s, NEW ts, NEW tc, Agreed(k, c, s, ts, tc),
         c.pc = "session", c.sent < MaxRequests[k],
         NEW r \in Requests(k),
         NEW d, DOMAIN d = DOMAIN NewClient, d.key = c.key,
         d.pc = IF r.kind = "tell" THEN "session" ELSE "waiting",
         d.sym = SessionNonce(k, c.sym.count + 1),
         d.sent \in c.sent + 1..MaxRequests[k],
         NEW ts2, ts2 = Sent(s, ts, RequestNo(k, c.sym.count + 1, r))
  PROVE  Agreed(k, d, s, ts2, tc)
<1> DEFINE m == RequestNo(k, c.sym.count + 1, r)
<1>1. /\ c.sym.count \in Nat /\ c.key = SessionKey(k) /\ tc = <<>>
      /\ MaxRequests[k] \in Nat /\ c.sent \in Nat
  BY RequestAssumption DEF Agreed, Session, Fields
<1>2. /\ d.sym.count = c.sym.count + 1 /\ d.sym.count \in Nat
      /\ d.sym = SessionNonce(k, d.sym.count)
  BY <1>1, CountOfSessionNonce
<1>3. ts \in Seq(ToServerMessages(k)) /\ Len(ts) \in Nat /\ Len(ts) <= 3 + c.sent
  BY DEF Agreed, Written
<1>4. m \in ToServerMessages(k)
  <2>1. c.sym.count + 1 \in Nat
    BY <1>1
  <2> QED
    BY <2>1, MessagesToServer
<1> HIDE DEF m
<1>5. ts2 \in Seq(ToServerMessages(k)) /\ Len(ts2) \in Nat /\ Len(ts2) <= Len(ts) + 1
  BY <1>3, <1>4 DEF Sent, m
<1>6. Written(k, d, ts2)
  <2>1. Len(ts2) <= 3 + MaxRequests[k] /\ Len(ts2) <= 3 + d.sent
    BY <1>1, <1>3, <1>5
  <2>2. d.pc \in {"session", "waiting"}
    OBVIOUS
  <2> QED
    BY <1>5, <2>1, <2>2 DEF Written
<1>7. Fields(k, d, s)
  BY <1>1 DEF Agreed, Fields
<1>8. s.pc \in {"serve", "handle"} \/ (Gone(s) /\ (s.pc = "leaving" => s.key = SessionKey(k)))
  BY DEF Agreed, Session
<1>9. CASE s.pc \in {"serve", "handle"}
  <2>1. /\ s.sym.count \in Nat /\ c.sym.count = s.sym.count + Len(ts)
        /\ \A i \in 1..Len(ts) : ts[i].text[2].kind = "tell"
        /\ s.pc = "handle" => s.request.kind = "tell"
    BY <1>9 DEF Agreed, Session, Gone, ServerSide
  <2>2. ts2 = Append(ts, m)
    BY <1>9 DEF Sent, m
  <2>3. Len(ts2) = Len(ts) + 1 /\ ts2[Len(ts) + 1] = m /\ \A i \in 1..Len(ts) : ts2[i] = ts[i]
    BY <2>2, <1>3, <1>4
  <2>4. \A i \in 1..Len(ts2) : i \in 1..Len(ts) \/ i = Len(ts) + 1
    BY <2>3, <1>3
  <2>5. m = RequestNo(k, s.sym.count + (Len(ts) + 1), r)
    <3>0. s.sym.count \in Nat /\ c.sym.count = s.sym.count + Len(ts) /\ Len(ts) \in Nat
      BY <2>1, <1>3
    <3>1. c.sym.count + 1 = s.sym.count + (Len(ts) + 1)
      BY <3>0
    <3> QED
      BY <3>1 DEF m
  <2>6. \A i \in 1..Len(ts2) : \E q \in Requests(k) :
          ts2[i] = RequestNo(k, s.sym.count + i, q) /\ (i < Len(ts2) => q.kind = "tell")
    <3> SUFFICES ASSUME NEW i \in 1..Len(ts2)
                 PROVE  \E q \in Requests(k) : ts2[i] = RequestNo(k, s.sym.count + i, q)
                                               /\ (i < Len(ts2) => q.kind = "tell")
      OBVIOUS
    <3>1. CASE i = Len(ts) + 1
      BY <3>1, <2>3, <2>5
    <3>2. CASE i \in 1..Len(ts)
      <4>1. PICK q \in Requests(k) : ts[i] = RequestNo(k, s.sym.count + i, q)
        BY <3>2, <1>9 DEF Agreed, ServerSide
      <4>2. q.kind = "tell"
        BY <4>1, <3>2, <2>1, TextOfRequest
      <4> QED
        BY <4>1, <4>2, <3>2, <2>3
    <3> QED
      BY <3>1, <3>2, <2>4
  <2>7. ServerSide(k, s, ts2)
    BY <1>9, <2>1, <2>6 DEF Agreed, ServerSide
  <2>8. Session(k, d, s, ts2, tc)
    <3>1. d.sym.count = s.sym.count + Len(ts2)
      BY <1>1, <1>2, <1>3, <2>1, <2>3
    <3>2. d.pc = "session" => \A i \in 1..Len(ts2) : ts2[i].text[2].kind = "tell"
      <4>1. m.text[2] = r /\ (d.pc = "session" => r.kind = "tell")
        BY TextOfRequest DEF m
      <4> QED
        BY <4>1, <2>1, <2>3, <2>4
    <3> QED
      BY <1>1, <1>2, <1>9, <2>1, <3>1, <3>2 DEF Session
  <2>9. Handshake(k, d, s, ts2, tc)
    BY DEF Handshake
  <2> QED
    BY <1>6, <1>7, <2>7, <2>8, <2>9 DEF Agreed
<1>10. CASE Gone(s) /\ (s.pc = "leaving" => s.key = SessionKey(k))
  <2>1. s.pc = "left" => ts2 = <<>>
    BY DEF Sent, Agreed, ServerSide
  <2>2. ServerSide(k, s, ts2)
    BY <1>10, <2>1 DEF Gone, ServerSide
  <2>3. Session(k, d, s, ts2, tc)
    BY <1>1, <1>2, <1>10 DEF Session
  <2>4. Handshake(k, d, s, ts2, tc)
    BY DEF Handshake
  <2> QED
    BY <1>6, <1>7, <2>2, <2>3, <2>4 DEF Agreed
<1> QED
  BY <1>8, <1>9, <1>10

LEMMA ReceiveResponseAgrees ==
  ASSUME NEW k \in Connections, NEW c, NEW s, NEW ts, NEW tc, Agreed(k, c, s, ts, tc),
         c.pc = "waiting", tc # <<>>,
         NEW d, DOMAIN d = DOMAIN NewClient, d.key = c.key, d.sent = c.sent, d.pc = "session",
         d.sym = SessionNonce(k, c.sym.count + 1)
  PROVE  Agreed(k, d, s, ts, Tail(tc))
<1>1. /\ c.sym.count \in Nat /\ c.key = SessionKey(k)
      /\ \/ s.pc = "serve" /\ ts = <<>> /\ s.sym.count = c.sym.count + 1
         \/ Gone(s) /\ (s.pc = "leaving" => s.key = SessionKey(k))
      /\ \E r \in Requests(k) : tc = <<ResponseNo(k, c.sym.count + 1, r)>>
  BY DEF Agreed, Session
<1>2. Tail(tc) = <<>>
  BY <1>1, FirstMessage
<1>3. d.sym.count = c.sym.count + 1 /\ d.sym.count \in Nat /\ d.sym = SessionNonce(k, d.sym.count)
  BY <1>1, CountOfSessionNonce
<1>4. Written(k, d, ts)
  BY DEF Agreed, Fields, Written
<1>5. Session(k, d, s, ts, <<>>)
  <2>1. CASE s.pc = "serve" /\ ts = <<>> /\ s.sym.count = c.sym.count + 1
    <3>1. Len(ts) = 0 /\ d.sym.count = s.sym.count + Len(ts)
      BY <1>1, <1>3, <2>1
    <3> QED
      BY <1>1, <1>3, <2>1, <3>1 DEF Session
  <2>2. CASE Gone(s) /\ (s.pc = "leaving" => s.key = SessionKey(k))
    BY <1>1, <1>3, <2>2 DEF Session
  <2> QED
    BY <1>1, <2>1, <2>2
<1> QED
  BY <1>2, <1>4, <1>5 DEF Agreed, Fields, ServerSide, Handshake

LEMMA ClientClosesAgrees ==
  ASSUME NEW k \in Connections, NEW c, NEW s, NEW ts, NEW tc, Agreed(k, c, s, ts, tc),
         NEW d, DOMAIN d = DOMAIN NewClient, d.pc = "closed", d.sent = 0
  PROVE  Agreed(k, d, s, ts, <<>>)
<1>1. MaxRequests[k] \in Nat /\ 0 \in 0..MaxRequests[k]
  BY RequestAssumption
<1> QED
  BY <1>1 DEF Agreed, Fields, ServerSide, Written, Handshake, Session

-----------------------------------------------------------------------------
(* The steps of a worker keep its connection agreed.  t is the server      *)
(* after the step, tc2 what then waits for the client.                     *)
\* What WriteToClient() does to the channel.
Answered(c, tc, m) == IF c.pc = "closed" THEN tc ELSE Append(tc, m)

LEMMA ReadKeepsWritten ==
  ASSUME NEW k \in Connections, NEW c, NEW ts, Written(k, c, ts), ts # <<>>,
         c.pc # "closed" => c.sent \in Nat
  PROVE  Written(k, c, Tail(ts)) /\ Len(Tail(ts)) = Len(ts) - 1 /\ Len(ts) \in Nat \ {0}
<1>1. /\ Tail(ts) \in Seq(ToServerMessages(k)) /\ Len(Tail(ts)) = Len(ts) - 1
      /\ Len(ts) \in Nat \ {0}
  BY DEF Written
<1>2. Len(Tail(ts)) <= Len(ts) /\ Len(Tail(ts)) \in Nat
  BY <1>1
<1>3. MaxRequests[k] \in Nat
  BY RequestAssumption
<1> HIDE DEF Written
<1>4. Len(Tail(ts)) <= 3 + MaxRequests[k]
  BY <1>1, <1>3 DEF Written
<1>5. c.pc \in {"session", "waiting"} => Len(Tail(ts)) <= 3 + c.sent
  BY <1>1, <1>2 DEF Written
<1> QED
  BY <1>1, <1>2, <1>4, <1>5 DEF Written

LEMMA EmptyIsWritten ==
  ASSUME NEW k \in Connections, NEW c, c.sent \in 0..MaxRequests[k]
  PROVE  Written(k, c, <<>>)
<1>1. MaxRequests[k] \in Nat /\ c.sent \in Nat /\ Len(<<>>) = 0
  BY RequestAssumption
<1> QED
  BY <1>1 DEF Written

LEMMA AuthStep1Agrees ==
  ASSUME NEW k \in Connections, NEW c, NEW s, NEW ts, NEW tc, Agreed(k, c, s, ts, tc),
         s.pc = "step1", ts # <<>>, c.pc # "new",
         NEW t, DOMAIN t = DOMAIN NewServer, t.pc = "step2",
         NEW tc2, tc2 = Answered(c, tc, Okay)
  PROVE  Agreed(k, c, t, Tail(ts), tc2)
<1>1. ts = <<Phrase>> /\ Tail(ts) = <<>>
  BY FirstMessage DEF Agreed, ServerSide
<1>2. c.pc \in {"greeted", "closed"} /\ tc = <<>>
  BY <1>1 DEF Agreed, Fields, Handshake, Session, Gone
<1>3. c.pc = "greeted" => tc2 = <<Okay>>
  BY <1>2, FirstMessage DEF Answered
<1>4. c.pc = "closed" => tc2 = <<>>
  BY <1>2 DEF Answered
<1>5. Written(k, c, <<>>)
  BY EmptyIsWritten DEF Agreed, Fields
<1>6. Agreed(k, c, t, <<>>, tc2)
  BY <1>2, <1>3, <1>4, <1>5 DEF Agreed, Fields, ServerSide, Handshake, Session
<1> QED
  BY <1>1, <1>6

LEMMA AuthStep2Agrees ==
  ASSUME NEW k \in Connections, NEW c, NEW s, NEW ts, NEW tc, Agreed(k, c, s, ts, tc),
         s.pc = "step2", ts # <<>>,
         NEW t, DOMAIN t = DOMAIN NewServer, t.pc = "step3", t.asym = AuthNonce(k, 0),
         NEW tc2, tc2 = Answered(c, tc, ServerProof(k))
  PROVE  Agreed(k, c, t, Tail(ts), tc2)
<1>0. ts = <<ClientKeys(k)>>
  BY DEF Agreed, ServerSide
<1>1. ts = <<ClientKeys(k)>> /\ Tail(ts) = <<>>
  BY <1>0, FirstMessage
<1>2. c.pc \in {"keysSent", "closed"} /\ tc = <<>>
  BY <1>1 DEF Agreed, Fields, Handshake, Session, Gone
<1>3. c.pc = "keysSent" => tc2 = <<ServerProof(k)>>
  BY <1>2, FirstMessage DEF Answered
<1>4. c.pc = "closed" => tc2 = <<>>
  BY <1>2 DEF Answered
<1>5. Written(k, c, <<>>)
  BY EmptyIsWritten DEF Agreed, Fields
<1>6. Agreed(k, c, t, <<>>, tc2)
  BY <1>2, <1>3, <1>4, <1>5 DEF Agreed, Fields, ServerSide, Handshake, Session
<1> QED
  BY <1>1, <1>6

LEMMA AuthStep3Agrees ==
  ASSUME NEW k \in Connections, NEW c, NEW s, NEW ts, NEW tc, Agreed(k, c, s, ts, tc),
         s.pc = "step3", ts # <<>>,
         NEW t, DOMAIN t = DOMAIN NewServer, t.pc = "serve",
         t.sym = SessionNonce(k, 0), t.key = SessionKey(k),
         NEW tc2, tc2 = Answered(c, tc, ServerDh(k))
  PROVE  Agreed(k, c, t, Tail(ts), tc2)
<1>1. ts = <<ClientProof(k)>> /\ Tail(ts) = <<>> /\ Len(<<>>) = 0
  BY FirstMessage DEF Agreed, ServerSide
<1>2. c.pc \in {"proofSent", "closed"} /\ tc = <<>>
  BY <1>1 DEF Agreed, Fields, Handshake, Session, Gone
<1>3. c.pc = "proofSent" => tc2 = <<ServerDh(k)>>
  BY <1>2, FirstMessage DEF Answered
<1>4. c.pc = "closed" => tc2 = <<>>
  BY <1>2 DEF Answered
<1>5. Written(k, c, <<>>)
  BY EmptyIsWritten DEF Agreed, Fields
<1>6. ServerSide(k, t, <<>>)
  <2>1. t.sym.count = 0
    BY CountOfSessionNonce
  <2> QED
    BY <1>1, <2>1 DEF ServerSide
<1>7. Agreed(k, c, t, <<>>, tc2)
  BY <1>2, <1>3, <1>4, <1>5, <1>6 DEF Agreed, Fields, Handshake, Session
<1> QED
  BY <1>1, <1>7

LEMMA LeavingAgrees ==
  ASSUME NEW k \in Connections, NEW c, NEW s, NEW ts, NEW tc, Agreed(k, c, s, ts, tc),
         s.pc # "left", c.pc # "new",
         NEW t, DOMAIN t = DOMAIN NewServer, t.pc = "leaving", t.key = s.key
  PROVE  Agreed(k, c, t, ts, tc)
<1>1. s.pc \in {"serve", "handle"} => s.key = SessionKey(k)
  BY DEF Agreed, ServerSide
<1>2. Handshake(k, c, t, ts, tc)
  BY <1>1 DEF Agreed, Handshake, Gone
<1>3. Session(k, c, t, ts, tc)
  BY <1>1 DEF Agreed, Session, Gone
<1> QED
  BY <1>2, <1>3 DEF Agreed, Fields, ServerSide

LEMMA CloseServerAgrees ==
  ASSUME NEW k \in Connections, NEW c, NEW s, NEW ts, NEW tc, Agreed(k, c, s, ts, tc),
         s.pc = "leaving",
         NEW t, DOMAIN t = DOMAIN NewServer, t.pc = "left"
  PROVE  Agreed(k, c, t, <<>>, tc)
<1>1. Written(k, c, <<>>)
  BY EmptyIsWritten DEF Agreed, Fields
<1>2. Handshake(k, c, t, <<>>, tc)
  BY DEF Agreed, Handshake, Gone
<1>3. Session(k, c, t, <<>>, tc)
  BY DEF Agreed, Session, Gone
<1> QED
  BY <1>1, <1>2, <1>3 DEF Agreed, Fields, ServerSide

LEMMA ReceiveRequestAgrees ==
  ASSUME NEW k \in Connections, NEW c, NEW s, NEW ts, NEW tc, Agreed(k, c, s, ts, tc),
         s.pc = "serve", ts # <<>>,
         NEW t, DOMAIN t = DOMAIN NewServer, t.pc = "handle", t.key = s.key,
         t.sym = SessionNonce(k, s.sym.count + 1), t.request = Head(ts).text[2]
  PROVE  /\ \E r \in Requests(k) : Head(ts) = RequestNo(k, s.sym.count + 1, r)
         /\ Agreed(k, c, t, Tail(ts), tc)
<1>1. s.sym.count \in Nat /\ s.key = SessionKey(k)
  BY DEF Agreed, ServerSide
<1>2. t.sym.count = s.sym.count + 1 /\ t.sym.count \in Nat /\ t.sym = SessionNonce(k, t.sym.count)
  BY <1>1, CountOfSessionNonce
<1>3. Written(k, c, Tail(ts)) /\ Len(Tail(ts)) = Len(ts) - 1 /\ Len(ts) \in Nat \ {0}
  <2>1. Written(k, c, ts) /\ c.sent \in Nat
    BY RequestAssumption DEF Agreed, Fields
  <2> QED
    BY <2>1, ReadKeepsWritten
<1>4. ts \in Seq(ToServerMessages(k))
  BY DEF Agreed, Written
<1>5. /\ Head(ts) = ts[1]
      /\ \A i \in 1..Len(Tail(ts)) : Tail(ts)[i] = ts[i + 1] /\ i + 1 \in 1..Len(ts)
  BY <1>3, <1>4
<1>6. PICK r \in Requests(k) : /\ ts[1] = RequestNo(k, s.sym.count + 1, r)
                               /\ 1 < Len(ts) => r.kind = "tell"
  <2>1. 1 \in 1..Len(ts)
    BY <1>3
  <2> QED
    BY <2>1 DEF Agreed, ServerSide
<1>7. t.request = r
  BY <1>5, <1>6, TextOfRequest
<1> DEFINE us == Tail(ts)
<1> HIDE DEF us
<1>8. ServerSide(k, t, us)
  <2>1. \A i \in 1..Len(us) : \E q \in Requests(k) :
          us[i] = RequestNo(k, t.sym.count + i, q) /\ (i < Len(us) => q.kind = "tell")
    <3> SUFFICES ASSUME NEW i \in 1..Len(us)
                 PROVE  \E q \in Requests(k) : us[i] = RequestNo(k, t.sym.count + i, q)
                                               /\ (i < Len(us) => q.kind = "tell")
      OBVIOUS
    <3>1. us[i] = ts[i + 1] /\ i + 1 \in 1..Len(ts) /\ Len(us) = Len(ts) - 1 /\ i \in Nat
      BY <1>3, <1>5 DEF us
    <3>2. PICK q \in Requests(k) : /\ ts[i + 1] = RequestNo(k, s.sym.count + (i + 1), q)
                                   /\ i + 1 < Len(ts) => q.kind = "tell"
      BY <3>1 DEF Agreed, ServerSide
    <3>3. i < Len(us) => i + 1 < Len(ts)
      BY <1>3, <3>1
    <3>4. s.sym.count + (i + 1) = t.sym.count + i
      <4>1. s.sym.count \in Nat /\ t.sym.count = s.sym.count + 1 /\ i \in Nat
        BY <1>1, <1>2, <3>1
      <4> QED
        BY <4>1
    <3> QED
      BY <3>1, <3>2, <3>3, <3>4
  <2>2. r.kind # "tell" => us = <<>>
    <3>1. r.kind # "tell" => Len(ts) = 1
      BY <1>3, <1>6
    <3>2. Len(ts) = 1 => Len(us) = 0 /\ us \in Seq(ToServerMessages(k))
      BY <1>3, <1>4 DEF us
    <3> QED
      BY <3>1, <3>2
  <2> QED
    BY <1>1, <1>2, <1>7, <2>1, <2>2 DEF ServerSide
<1>9. Handshake(k, c, t, us, tc)
  BY <1>3 DEF Agreed, Handshake, Gone
<1>10. Session(k, c, t, us, tc)
  <2> SUFFICES ASSUME c.pc \in {"session", "waiting"}
               PROVE  Session(k, c, t, us, tc)
    BY DEF Session
  <2>1. /\ c.key = SessionKey(k) /\ c.sym.count \in Nat /\ c.sym = SessionNonce(k, c.sym.count)
        /\ c.pc = "session" => tc = <<>>
        /\ c.sym.count = s.sym.count + Len(ts) /\ tc = <<>>
        /\ c.pc = "session" => \A i \in 1..Len(ts) : ts[i].text[2].kind = "tell"
    BY DEF Agreed, Session, Gone
  <2>2. c.sym.count = t.sym.count + Len(us)
    <3>1. /\ c.sym.count \in Nat /\ c.sym.count = s.sym.count + Len(ts)
          /\ Len(us) = Len(ts) - 1
      BY <2>1, <1>3 DEF us
    <3> QED
      BY <3>1, <1>1, <1>2, <1>3
  <2>3. c.pc = "session" => r.kind = "tell" /\ \A i \in 1..Len(us) : us[i].text[2].kind = "tell"
    <3>1. 1 \in 1..Len(ts) /\ \A i \in 1..Len(us) : us[i] = ts[i + 1] /\ i + 1 \in 1..Len(ts)
      BY <1>3, <1>5 DEF us
    <3> QED
      BY <2>1, <3>1, <1>6, TextOfRequest
  <2> QED
    BY <1>7, <2>1, <2>2, <2>3 DEF Session
<1>11. Agreed(k, c, t, us, tc)
  BY <1>3, <1>8, <1>9, <1>10 DEF Agreed, Fields, us
<1> QED
  BY <1>5, <1>6, <1>11 DEF us

LEMMA HandledAgrees ==
  ASSUME NEW k \in Connections, NEW c, NEW s, NEW ts, NEW tc, Agreed(k, c, s, ts, tc),
         s.pc = "handle", s.request.kind = "tell",
         NEW t, DOMAIN t = DOMAIN NewServer, t.pc = "serve", t.key = s.key, t.sym = s.sym
  PROVE  Agreed(k, c, t, ts, tc)
<1>1. ServerSide(k, t, ts)
  BY DEF Agreed, ServerSide
<1>2. Handshake(k, c, t, ts, tc)
  BY DEF Agreed, Handshake, Gone
<1>3. Session(k, c, t, ts, tc)
  BY DEF Agreed, Session, Gone
<1> QED
  BY <1>1, <1>2, <1>3 DEF Agreed, Fields

LEMMA RespondAgrees ==
  ASSUME NEW k \in Connections, NEW c, NEW s, NEW ts, NEW tc, Agreed(k, c, s, ts, tc),
         s.pc = "handle", s.request.kind # "tell",
         NEW t, DOMAIN t = DOMAIN NewServer, t.pc \in {"serve", "leaving"}, t.key = s.key,
         t.sym = SessionNonce(k, s.sym.count + 1),
         NEW tc2, tc2 = Answered(c, tc, ResponseNo(k, s.sym.count + 1, s.request))
  PROVE  Agreed(k, c, t, ts, tc2)
<1>1. /\ s.sym.count \in Nat /\ s.key = SessionKey(k) /\ s.request \in Requests(k)
      /\ ts = <<>> /\ Len(ts) = 0
  BY FirstMessage DEF Agreed, ServerSide
<1>2. t.sym.count = s.sym.count + 1 /\ t.sym.count \in Nat /\ t.sym = SessionNonce(k, t.sym.count)
  BY <1>1, CountOfSessionNonce
<1>3. \/ c.pc = "waiting" /\ tc = <<>> /\ c.sym.count = s.sym.count
      \/ c.pc = "closed" /\ tc = <<>>
  <2>1. c.pc \in {"session", "waiting", "closed"}
    BY DEF Agreed, Fields, Handshake, Gone
  <2>2. c.pc = "closed" => tc = <<>>
    BY DEF Agreed, Handshake
  <2>3. c.pc # "session"
    BY DEF Agreed, Session, Gone
  <2>4. c.pc = "waiting" => tc = <<>> /\ c.sym.count = s.sym.count + 0
    BY <1>1 DEF Agreed, Session, Gone
  <2> QED
    BY <1>1, <2>1, <2>2, <2>3, <2>4
<1>4. ServerSide(k, t, ts)
  BY <1>1, <1>2 DEF ServerSide
<1>5. CASE c.pc = "closed"
  <2>1. tc2 = <<>>
    BY <1>3, <1>5 DEF Answered
  <2> QED
    BY <1>4, <1>5, <2>1 DEF Agreed, Fields, Handshake, Session
<1>6. CASE c.pc = "waiting" /\ tc = <<>> /\ c.sym.count = s.sym.count
  <2>1. tc2 = <<ResponseNo(k, c.sym.count + 1, s.request)>>
    BY <1>6, FirstMessage DEF Answered
  <2>2. Session(k, c, t, ts, tc2)
    <3>1. c.key = SessionKey(k) /\ c.sym.count \in Nat /\ c.sym = SessionNonce(k, c.sym.count)
      BY <1>6 DEF Agreed, Session
    <3>2. t.sym.count = c.sym.count + 1
      BY <1>2, <1>6
    <3> QED
      BY <1>1, <1>6, <2>1, <3>1, <3>2 DEF Session, Gone
  <2> QED
    BY <1>4, <1>6, <2>2 DEF Agreed, Fields, Handshake
<1> QED
  BY <1>3, <1>5, <1>6

-----------------------------------------------------------------------------
(* The accepting thread, the status of the workers and the connections     *)
(* that nobody has opened.                                                 *)
LEMMA ServerStep ==
  ASSUME ServerTypeOK, Unopened, UNCHANGED client,
         \/ MainLoop \/ RequestStop \/ Terminate
         \/ \E k \in Connections : RunBegins(k) \/ RunEnds(k) \/ ThreadExits(k)
  PROVE  ServerTypeOK' /\ Unopened'
<1> USE ServerAssumption DEF ServerTypeOK, Unopened
<1>1. CASE Accept
  <2>1. /\ backlog \in Seq(Connections) /\ backlog # <<>> /\ backlog' = Tail(backlog)
        /\ Len(backlog) <= maxConCount
    BY <1>1 DEF Accept
  <2>2. /\ Head(backlog) \in Connections /\ Head(backlog) = backlog[1] /\ 1 \in 1..Len(backlog)
        /\ Tail(backlog) \in Seq(Connections) /\ Len(Tail(backlog)) = Len(backlog) - 1
        /\ Len(backlog) \in Nat
        /\ \A i \in 1..Len(Tail(backlog)) : Tail(backlog)[i] = backlog[i + 1] /\ i + 1 \in 1..Len(backlog)
    BY <2>1
  <2>3. Len(backlog') <= maxConCount
    BY <2>1, <2>2
  <2>4. mainLoop' = "sweep" /\ at' = 1 /\ UNCHANGED <<isStopRequested, ps>>
    BY <1>1 DEF Accept, GoTo
  <2>5. \/ ws' = [ws EXCEPT ![Head(backlog)] = "Ready"] /\ workers' = Append(workers, Head(backlog))
        \/ ws' = [ws EXCEPT ![Head(backlog)] = "Refused"] /\ workers' = workers
    BY <1>1 DEF Accept
  <2>6. workers' \in Seq(Connections)
    <3>1. workers \in Seq(Connections)
      OBVIOUS
    <3>2. Append(workers, Head(backlog)) \in Seq(Connections)
      BY <2>2, <3>1
    <3> QED
      BY <2>5, <3>1, <3>2
  <2>7. ws' \in [Connections -> {"None", "Refused", "Ready", "Running", "Done", "Exited", "Deleted"}]
    BY <2>5
  <2>8. \A j \in Connections : client[j].pc = "new" => ws'[j] = "None"
    BY <2>2, <2>5
  <2>9. \A i \in 1..Len(backlog') : client[backlog'[i]].pc # "new"
    BY <2>1, <2>2
  <2> QED
    BY <2>1, <2>2, <2>3, <2>4, <2>6, <2>7, <2>8, <2>9
<1>2. CASE AcceptTimeout
  BY <1>2 DEF AcceptTimeout, GoTo
<1>3. CASE SweepNext
  <2>1. /\ at \in 1..Len(workers) /\ workers[at] \in Connections /\ Len(workers) \in Nat
        /\ UNCHANGED <<mainLoop, backlog, isStopRequested, ps>>
    BY <1>3 DEF SweepNext
  <2>2. CASE ws[workers[at]] \in {"Done", "Exited"}
    <3>1. /\ ws' = [ws EXCEPT ![workers[at]] = "Deleted"] /\ at' = at
          /\ workers' = SubSeq(workers, 1, at - 1) \o SubSeq(workers, at + 1, Len(workers))
      BY <1>3, <2>2 DEF SweepNext
    <3>2. /\ SubSeq(workers, 1, at - 1) \in Seq(Connections)
          /\ SubSeq(workers, at + 1, Len(workers)) \in Seq(Connections)
      <4>1. \A i \in 1..at - 1 : i \in 1..Len(workers)
        BY <2>1
      <4>2. \A i \in at + 1..Len(workers) : i \in 1..Len(workers)
        BY <2>1
      <4> QED
        BY <2>1, <4>1, <4>2, SubSeqProperties
    <3>3. workers' \in Seq(Connections)
      BY <3>1, <3>2
    <3>4. \A j \in Connections : client[j].pc = "new" => ws'[j] = "None"
      BY <2>1, <2>2, <3>1
    <3> QED
      BY <2>1, <3>1, <3>3, <3>4
  <2>3. CASE ws[workers[at]] \notin {"Done", "Exited"}
    BY <1>3, <2>1, <2>3 DEF SweepNext
  <2> QED
    BY <2>2, <2>3
<1>4. CASE SweepEnds
  BY <1>4 DEF SweepEnds, GoTo
<1>5. CASE RequestQuit
  <2>1. CASE at <= Len(workers)
    <3>1. workers[at] \in Connections
      BY <2>1
    <3>2. ps' = [ps EXCEPT ![workers[at]] = "Quit"] /\ at' = at + 1 /\ UNCHANGED mainLoop
          /\ UNCHANGED <<backlog, workers, isStopRequested, ws>>
      BY <1>5, <2>1 DEF RequestQuit
    <3> QED
      BY <3>1, <3>2
  <2>2. CASE ~(at <= Len(workers))
    BY <1>5, <2>2 DEF RequestQuit, GoTo
  <2> QED
    BY <2>1, <2>2
<1>6. CASE JoinAll
  <2>1. CASE at <= Len(workers)
    BY <1>6, <2>1 DEF JoinAll
  <2>2. CASE ~(at <= Len(workers))
    <3>1. /\ ws' = [j \in Connections |-> IF ws[j] = "Exited" THEN "Deleted" ELSE ws[j]]
          /\ workers' = <<>> /\ mainLoop' = "ended" /\ at' = 1
          /\ UNCHANGED <<backlog, isStopRequested, ps>>
      BY <1>6, <2>2 DEF JoinAll, GoTo
    <3> QED
      BY <3>1
  <2> QED
    BY <2>1, <2>2
<1>7. CASE RequestStop
  BY <1>7 DEF RequestStop
<1>8. ASSUME NEW k \in Connections, RunBegins(k) PROVE ServerTypeOK' /\ Unopened'
  BY <1>8 DEF RunBegins, SetStatus
<1>9. ASSUME NEW k \in Connections, RunEnds(k) PROVE ServerTypeOK' /\ Unopened'
  BY <1>9 DEF RunEnds, SetStatus
<1>10. ASSUME NEW k \in Connections, ThreadExits(k) PROVE ServerTypeOK' /\ Unopened'
  BY <1>10 DEF ThreadExits, SetStatus
<1>11. CASE Terminate
  BY <1>11 DEF Terminate
<1> QED
  BY <1>1, <1>2, <1>3, <1>4, <1>5, <1>6, <1>7, <1>8, <1>9, <1>10, <1>11 DEF MainLoop

-----------------------------------------------------------------------------
(* One connection takes a step: its client, server and channels become d,  *)
(* t, us and ud; the others stay what they are.                            *)
Becomes(k, d, t, us, ud) ==
  /\ DOMAIN client' = Connections /\ DOMAIN server' = Connections
  /\ DOMAIN toServer' = Connections /\ DOMAIN toClient' = Connections
  /\ client'[k] = d /\ server'[k] = t /\ toServer'[k] = us /\ toClient'[k] = ud
  /\ \A j \in Connections \ {k} :
       /\ client'[j] = client[j] /\ server'[j] = server[j]
       /\ toServer'[j] = toServer[j] /\ toClient'[j] = toClient[j]

LEMMA ConnectionsStay ==
  ASSUME NEW k \in Connections, NEW d, NEW t, NEW us, NEW ud,
         \A j \in Connections : Connection(j),
         Becomes(k, d, t, us, ud), Agreed(k, d, t, us, ud)
  PROVE  Domains' /\ \A j \in Connections : Connection(j)'
<1>1. Domains'
  BY DEF Domains, Becomes
<1>2. ASSUME NEW j \in Connections PROVE Connection(j)'
  <2>1. CASE j = k
    BY <2>1 DEF Connection, Becomes
  <2>2. CASE j # k
    BY <2>2 DEF Connection, Becomes
  <2> QED
    BY <2>1, <2>2
<1> QED
  BY <1>1, <1>2

\* Nonces that were used remain so, and new ones are.
StaysUsed(k, d, t, us) ==
  \A n \in Nat : Used(n, client[k], server[k], toServer[k]) => Used(n, d, t, us)

LEMMA SealedStays ==
  ASSUME NEW k \in Connections, NEW d, NEW t, NEW us, NEW ud, Becomes(k, d, t, us, ud),
         StaysUsed(k, d, t, us), NEW j \in Connections, NEW m, SealedBy(j, m)
  PROVE  SealedBy(j, m)'
<1>1. CASE j = k
  BY <1>1 DEF Becomes, StaysUsed, SealedBy
<1>2. CASE j # k
  BY <1>2 DEF Becomes, SealedBy
<1> QED
  BY <1>1, <1>2

LEMMA BoxesDiffer ==
  ASSUME NEW k, NEW j, NEW a \in Boxes(k)
  PROVE  /\ \A b \in Boxes(j) : a.nonce = b.nonce => a = b
         /\ \A b, n : b.nonce = SessionNonce(j, n) => a.nonce # b.nonce
<1>1. /\ ServerBox(k).nonce = AuthNonce(k, 0) /\ ClientBox(k).nonce = AuthNonce(k, 1)
      /\ ClientDhBox(k).nonce = AuthNonce(k, 2) /\ ServerDhBox(k).nonce = AuthNonce(k, 3)
      /\ ServerBox(j).nonce = AuthNonce(j, 0) /\ ClientBox(j).nonce = AuthNonce(j, 1)
      /\ ClientDhBox(j).nonce = AuthNonce(j, 2) /\ ServerDhBox(j).nonce = AuthNonce(j, 3)
  BY DEF ServerBox, ClientBox, ClientDhBox, ServerDhBox, Box
<1>2. \A n, i : AuthNonce(k, n) = AuthNonce(j, i) => k = j /\ n = i
  BY NoncesDiffer DEF AuthNonce
<1>3. \A n, i : AuthNonce(k, n) # SessionNonce(j, i)
  BY NoncesDiffer DEF AuthNonce, SessionNonce
<1>4. \E n : a.nonce = AuthNonce(k, n)
  BY <1>1 DEF Boxes
<1>5. ASSUME NEW b \in Boxes(j), a.nonce = b.nonce
      PROVE  a = b
  <2>1. k = j
    BY <1>1, <1>2, <1>4, <1>5 DEF Boxes
  <2> QED
    BY <1>1, <1>2, <1>5, <2>1 DEF Boxes
<1> QED
  BY <1>3, <1>4, <1>5

LEMMA BoxesSealed ==
  ASSUME NEW k \in Connections, NEW d, NEW t, NEW us, NEW ud, Becomes(k, d, t, us, ud),
         StaysUsed(k, d, t, us), SealedInv, NonceOnce,
         NEW new \in SUBSET Boxes(k), sealed' = sealed \cup new
  PROVE  SealedInv' /\ NonceOnce'
<1>1. \A m \in sealed : \E j \in Connections : SealedBy(j, m)'
  BY SealedStays DEF SealedInv
<1>2. \A m \in new : SealedBy(k, m)'
  BY DEF SealedBy
<1>3. SealedInv'
  BY <1>1, <1>2 DEF SealedInv
<1>4. ASSUME NEW a \in new, NEW b \in sealed, a.nonce = b.nonce PROVE a = b
  <2>1. PICK j \in Connections : SealedBy(j, b)
    BY DEF SealedInv
  <2> QED
    BY <1>4, <2>1, BoxesDiffer DEF SealedBy
<1>5. ASSUME NEW a \in new, NEW b \in new, a.nonce = b.nonce PROVE a = b
  BY <1>5, BoxesDiffer
<1>6. NonceOnce'
  BY <1>4, <1>5 DEF NonceOnce
<1> QED
  BY <1>3, <1>6

LEMMA MessageSealed ==
  ASSUME NEW k \in Connections, NEW d, NEW t, NEW us, NEW ud, Becomes(k, d, t, us, ud),
         StaysUsed(k, d, t, us), SealedInv, NonceOnce,
         NEW n \in Nat, NEW m, m.nonce = SessionNonce(k, n), sealed' = sealed \cup {m},
         ~Used(n, client[k], server[k], toServer[k]), Used(n, d, t, us)
  PROVE  SealedInv' /\ NonceOnce'
<1>1. \A b \in sealed : \E j \in Connections : SealedBy(j, b)'
  BY SealedStays DEF SealedInv
<1>2. m.nonce.count = n
  BY CountOfSessionNonce
<1>3. SealedBy(k, m)'
  BY <1>2 DEF SealedBy, Becomes
<1>4. SealedInv'
  BY <1>1, <1>3 DEF SealedInv
<1>5. ASSUME NEW b \in sealed PROVE b.nonce # m.nonce
  <2>1. PICK j \in Connections : SealedBy(j, b)
    BY DEF SealedInv
  <2>2. CASE b \in Boxes(j)
    BY <2>2, BoxesDiffer
  <2>3. CASE /\ b.nonce.count \in Nat /\ b.nonce = SessionNonce(j, b.nonce.count)
             /\ Used(b.nonce.count, client[j], server[j], toServer[j])
    <3>1. SessionNonce(j, b.nonce.count) = SessionNonce(k, n) => j = k /\ b.nonce.count = n
      BY NoncesDiffer DEF SessionNonce
    <3> QED
      BY <2>3, <3>1
  <2> QED
    BY <2>1, <2>2, <2>3 DEF SealedBy
<1>6. NonceOnce'
  BY <1>5 DEF NonceOnce
<1> QED
  BY <1>4, <1>6

-----------------------------------------------------------------------------
(* The actions.                                                            *)
LEMMA SessionOnly ==
  ASSUME ServerTypeOK, Unopened, UNCHANGED serverVars,
         NEW k \in Connections, NEW d, NEW t, NEW us, NEW ud, Becomes(k, d, t, us, ud),
         d.pc = "new" => client[k].pc = "new"
  PROVE  ServerTypeOK' /\ Unopened'
<1>1. ServerTypeOK'
  BY DEF ServerTypeOK, serverVars
<1>2. \A j \in Connections : client'[j].pc = "new" => client[j].pc = "new"
  BY DEF Becomes
<1>3. \A i \in 1..Len(backlog) : backlog[i] \in Connections
  BY DEF ServerTypeOK
<1> QED
  BY <1>1, <1>2, <1>3 DEF Unopened, serverVars

LEMMA RunningIsOpened ==
  ASSUME Unopened, NEW k \in Connections, ws[k] = "Running"
  PROVE  client[k].pc # "new"
BY DEF Unopened

\* A step of one connection that seals nothing but messages of the
\* authentication, and one that seals the next message of the session.
LEMMA StepWithBoxes ==
  ASSUME SessionIInv, UNCHANGED serverVars,
         NEW k \in Connections, NEW d, NEW t, NEW us, NEW ud, Becomes(k, d, t, us, ud),
         Agreed(k, d, t, us, ud), StaysUsed(k, d, t, us), d.pc = "new" => client[k].pc = "new",
         NEW new \in SUBSET Boxes(k), sealed' = sealed \cup new
  PROVE  SessionIInv'
<1>1. ServerTypeOK /\ Unopened /\ SealedInv /\ NonceOnce /\ \A j \in Connections : Connection(j)
  BY DEF SessionIInv
<1>2. Domains' /\ \A j \in Connections : Connection(j)'
  BY <1>1, ConnectionsStay
<1>3. SealedInv' /\ NonceOnce'
  BY <1>1, BoxesSealed
<1>4. ServerTypeOK' /\ Unopened'
  BY <1>1, SessionOnly
<1> QED
  BY <1>2, <1>3, <1>4 DEF SessionIInv

LEMMA StepWithMessage ==
  ASSUME SessionIInv, UNCHANGED serverVars,
         NEW k \in Connections, NEW d, NEW t, NEW us, NEW ud, Becomes(k, d, t, us, ud),
         Agreed(k, d, t, us, ud), StaysUsed(k, d, t, us), d.pc = "new" => client[k].pc = "new",
         NEW n \in Nat, NEW m, m.nonce = SessionNonce(k, n), sealed' = sealed \cup {m},
         ~Used(n, client[k], server[k], toServer[k]), Used(n, d, t, us)
  PROVE  SessionIInv'
<1>1. ServerTypeOK /\ Unopened /\ SealedInv /\ NonceOnce /\ \A j \in Connections : Connection(j)
  BY DEF SessionIInv
<1>2. Domains' /\ \A j \in Connections : Connection(j)'
  BY <1>1, ConnectionsStay
<1>3. SealedInv' /\ NonceOnce'
  BY <1>1, MessageSealed
<1>4. ServerTypeOK' /\ Unopened'
  BY <1>1, SessionOnly
<1> QED
  BY <1>2, <1>3, <1>4 DEF SessionIInv

LEMMA ConnectInv ==
  ASSUME SessionIInv, NEW k \in Connections, Connect(k)
  PROVE  SessionIInv'
<1> DEFINE d == [client[k] EXCEPT !.pc = "greeted"]
           us == Sent(server[k], toServer[k], Phrase)
<1>1. /\ Connection(k) /\ DOMAIN client[k] = DOMAIN NewClient /\ client[k].pc = "new"
      /\ Domains /\ SealedInv /\ NonceOnce /\ ServerTypeOK /\ Unopened
  BY DEF SessionIInv, Connection, Agreed, Fields, Connect
<1>2. DOMAIN d = DOMAIN NewClient /\ d.pc = "greeted" /\ d.sent = client[k].sent
  BY <1>1, ClientPc
<1>3. Becomes(k, d, server[k], us, toClient[k])
  BY <1>1 DEF Connect, WriteToServer, Becomes, Domains, Sent, Phrase
<1>4. /\ backlog' = Append(backlog, k) /\ Len(backlog) < maxConCount
      /\ UNCHANGED <<mainLoop, at, workers, isStopRequested, ws, ps, sealed>>
  BY DEF Connect
<1> HIDE DEF d, us
<1>5. Agreed(k, d, server[k], us, toClient[k])
  BY <1>1, <1>2, ConnectAgrees DEF Connection, us
<1>6. Domains' /\ \A j \in Connections : Connection(j)'
  BY <1>3, <1>5, ConnectionsStay DEF SessionIInv
<1>7. StaysUsed(k, d, server[k], us)
  BY <1>1 DEF StaysUsed, Used
<1>8. SealedInv' /\ NonceOnce'
  <2>1. {} \in SUBSET Boxes(k) /\ sealed' = sealed \cup {}
    BY <1>4
  <2> QED
    BY <2>1, <1>1, <1>3, <1>7, BoxesSealed
<1>9. ServerTypeOK'
  BY <1>1, <1>4, ServerAssumption DEF ServerTypeOK
<1>10. Unopened'
  <2>1. \A j \in Connections : client'[j].pc = "new" => client[j].pc = "new"
    BY <1>1, <1>2, <1>3 DEF Becomes
  <2>2. client'[k].pc # "new"
    BY <1>2, <1>3 DEF Becomes
  <2>3. backlog \in Seq(Connections)
    BY <1>1 DEF ServerTypeOK
  <2>4. \A i \in 1..Len(backlog') : backlog'[i] = k \/ (i \in 1..Len(backlog) /\ backlog'[i] = backlog[i])
    <3>1. /\ Len(backlog') = Len(backlog) + 1 /\ backlog'[Len(backlog) + 1] = k
          /\ Len(backlog) \in Nat /\ \A i \in 1..Len(backlog) : backlog'[i] = backlog[i]
      BY <1>4, <2>3
    <3>2. \A i \in 1..Len(backlog) + 1 : i = Len(backlog) + 1 \/ i \in 1..Len(backlog)
      BY <3>1
    <3> SUFFICES ASSUME NEW i \in 1..Len(backlog')
                 PROVE  backlog'[i] = k \/ (i \in 1..Len(backlog) /\ backlog'[i] = backlog[i])
      OBVIOUS
    <3>3. CASE i = Len(backlog) + 1
      BY <3>1, <3>3
    <3>4. CASE i \in 1..Len(backlog)
      BY <3>1, <3>4
    <3> QED
      BY <3>1, <3>2, <3>3, <3>4
  <2>5. \A i \in 1..Len(backlog) : backlog[i] \in Connections
    BY <2>3
  <2> QED
    BY <1>1, <1>4, <2>1, <2>2, <2>4, <2>5 DEF Unopened
<1> QED
  BY <1>6, <1>8, <1>9, <1>10 DEF SessionIInv

LEMMA SendKeysInv ==
  ASSUME SessionIInv, NEW k \in Connections, SendKeys(k)
  PROVE  SessionIInv'
<1> DEFINE d == [client[k] EXCEPT !.pc = "keysSent"]
           us == Sent(server[k], toServer[k], ClientKeys(k))
           ud == Tail(toClient[k])
<1>1. /\ Connection(k) /\ DOMAIN client[k] = DOMAIN NewClient
      /\ client[k].pc = "greeted" /\ toClient[k] # <<>>
      /\ Domains
  BY DEF SessionIInv, Connection, Agreed, Fields, SendKeys
<1>2. DOMAIN d = DOMAIN NewClient /\ d.pc = "keysSent" /\ d.sent = client[k].sent
  BY <1>1, ClientPc
<1>3. Becomes(k, d, server[k], us, ud)
  BY <1>1 DEF SendKeys, WriteToServer, ReadFromServer, Becomes, Domains, Sent, ClientKeys
<1>4. UNCHANGED <<serverVars, sealed>>
  BY DEF SendKeys
<1> HIDE DEF d, us, ud
<1>5. Agreed(k, d, server[k], us, ud)
  BY <1>1, <1>2, SendKeysAgrees DEF Connection, us, ud
<1>6. StaysUsed(k, d, server[k], us)
  BY <1>1 DEF StaysUsed, Used
<1>7. {} \in SUBSET Boxes(k) /\ sealed' = sealed \cup {}
  BY <1>4
<1> QED
  BY <1>2, <1>3, <1>4, <1>5, <1>6, <1>7, StepWithBoxes

LEMMA SendProofInv ==
  ASSUME SessionIInv, NEW k \in Connections, SendProof(k)
  PROVE  SessionIInv'
<1> DEFINE d == [client[k] EXCEPT !.pc = "proofSent", !.asym = AuthNonce(k, 2),
                                  !.sym = SessionNonce(k, 0)]
           us == Sent(server[k], toServer[k], ClientProof(k))
           ud == Tail(toClient[k])
<1>1. /\ Connection(k) /\ DOMAIN client[k] = DOMAIN NewClient
      /\ client[k].pc = "keysSent" /\ toClient[k] # <<>>
      /\ Domains
  BY DEF SessionIInv, Connection, Agreed, Fields, SendProof
<1>2. /\ DOMAIN d = DOMAIN NewClient /\ d.pc = "proofSent" /\ d.sent = client[k].sent
      /\ d.asym = AuthNonce(k, 2) /\ d.sym = SessionNonce(k, 0)
  BY <1>1 DEF NewClient
<1>3. FromServer(k) = ServerProof(k)
  <2>1. toClient[k] = <<ServerProof(k)>>
    BY <1>1 DEF Connection, Agreed, Handshake
  <2> QED
    BY <2>1, FirstMessage DEF FromServer
<1>4. /\ Plus(FromServer(k).nonce, 1) = AuthNonce(k, 1)
      /\ Plus(FromServer(k).nonce, 2) = AuthNonce(k, 2)
      /\ FromServer(k).challenge = Drawn(k, "serverChallenge")
      /\ FromServer(k).proof = ServerBox(k) /\ FromServer(k).nonce = AuthNonce(k, 0)
  <2>1. Plus(AuthNonce(k, 0), 1) = AuthNonce(k, 1) /\ Plus(AuthNonce(k, 0), 2) = AuthNonce(k, 2)
    BY PlusCounts DEF AuthNonce
  <2> QED
    BY <1>3, <2>1 DEF ServerProof
<1>5. /\ Opens(FromServer(k).proof, BoxKey(k), FromServer(k).nonce)
      /\ FromServer(k).proof.text = Drawn(k, "clientChallenge")
  BY <1>4 DEF ServerBox, Box, Opens, BoxKey
<1>6. /\ client' = [client EXCEPT ![k] = d]
      /\ sealed' = sealed \cup {ClientBox(k), ClientDhBox(k)}
      /\ WriteToServer(k, ClientProof(k)) /\ ReadFromServer(k)
      /\ UNCHANGED <<serverVars, server>>
  BY <1>4, <1>5 DEF SendProof, ClientProof, ClientBox, ClientDhBox, SessionNonce, BoxKey
<1> HIDE DEF d
<1>7. Becomes(k, d, server[k], us, ud)
  BY <1>1, <1>6 DEF WriteToServer, ReadFromServer, Becomes, Domains, Sent
<1> HIDE DEF us, ud
<1>8. Agreed(k, d, server[k], us, ud)
  BY <1>1, <1>2, SendProofAgrees DEF Connection, us, ud
<1>9. StaysUsed(k, d, server[k], us)
  BY <1>1 DEF StaysUsed, Used
<1>10. {ClientBox(k), ClientDhBox(k)} \in SUBSET Boxes(k)
  BY DEF Boxes
<1> QED
  BY <1>2, <1>6, <1>7, <1>8, <1>9, <1>10, StepWithBoxes

LEMMA FinishAuthInv ==
  ASSUME SessionIInv, NEW k \in Connections, FinishAuth(k)
  PROVE  SessionIInv'
<1> DEFINE d == [client[k] EXCEPT !.pc = "session", !.asym = AuthNonce(k, 3),
                                  !.key = SessionKey(k)]
           ud == Tail(toClient[k])
<1>1. /\ Connection(k) /\ DOMAIN client[k] = DOMAIN NewClient
      /\ client[k].pc = "proofSent" /\ toClient[k] # <<>>
      /\ Domains
  BY DEF SessionIInv, Connection, Agreed, Fields, FinishAuth
<1>2. /\ DOMAIN d = DOMAIN NewClient /\ d.pc = "session" /\ d.sent = client[k].sent
      /\ d.sym = client[k].sym /\ d.key = SessionKey(k)
  BY <1>1 DEF NewClient
<1>3. FromServer(k) = ServerDh(k)
  <2>1. toClient[k] = <<ServerDh(k)>>
    BY <1>1 DEF Connection, Agreed, Handshake
  <2> QED
    BY <2>1, FirstMessage DEF FromServer
<1>4. Plus(client[k].asym, 1) = AuthNonce(k, 3)
  <2>1. client[k].asym = AuthNonce(k, 2)
    BY <1>1 DEF Connection, Agreed, Handshake
  <2>2. Plus(AuthNonce(k, 2), 1) = AuthNonce(k, 3)
    BY PlusCounts DEF AuthNonce
  <2> QED
    BY <2>1, <2>2
<1>5. /\ Opens(FromServer(k).dh, BoxKey(k), AuthNonce(k, 3))
      /\ FromServer(k).dh.text = Drawn(k, "serverDh")
  BY <1>3 DEF ServerDh, ServerDhBox, Box, Opens, BoxKey
<1>6. /\ client' = [client EXCEPT ![k] = d] /\ ReadFromServer(k)
      /\ UNCHANGED <<serverVars, server, toServer, sealed>>
  BY <1>4, <1>5 DEF FinishAuth, SessionKey, BoxKey
<1> HIDE DEF d
<1>7. Becomes(k, d, server[k], toServer[k], ud)
  BY <1>1, <1>6 DEF ReadFromServer, Becomes, Domains
<1> HIDE DEF ud
<1>8. Agreed(k, d, server[k], toServer[k], ud)
  BY <1>1, <1>2, FinishAuthAgrees DEF Connection, ud
<1>9. StaysUsed(k, d, server[k], toServer[k])
  BY <1>1 DEF StaysUsed, Used
<1>10. {} \in SUBSET Boxes(k) /\ sealed' = sealed \cup {}
  BY <1>6
<1> QED
  BY <1>2, <1>6, <1>7, <1>8, <1>9, <1>10, StepWithBoxes

LEMMA SendRequestInv ==
  ASSUME SessionIInv, NEW k \in Connections, NEW kind \in {"ask", "tell", "bye"},
         SendRequest(k, kind)
  PROVE  SessionIInv'
<1> DEFINE n == client[k].sym.count + 1
           r == [kind |-> kind, number |-> client[k].sent + 1]
           d == client'[k]
           us == Sent(server[k], toServer[k], RequestNo(k, n, r))
<1>1. /\ Connection(k) /\ DOMAIN client[k] = DOMAIN NewClient
      /\ client[k].pc = "session" /\ client[k].sent < MaxRequests[k]
      /\ client[k].sent \in 0..MaxRequests[k] /\ MaxRequests[k] \in Nat
      /\ Domains /\ DOMAIN client = Connections
  BY RequestAssumption DEF SessionIInv, Connection, Agreed, Fields, Domains, SendRequest
<1>2. /\ client[k].sym.count \in Nat /\ client[k].sym = SessionNonce(k, client[k].sym.count)
      /\ client[k].key = SessionKey(k)
  BY <1>1 DEF Connection, Agreed, Session
<1>3. r \in Requests(k) /\ r.kind = kind
  <2>1. client[k].sent + 1 \in 1..MaxRequests[k]
    BY <1>1
  <2> QED
    BY <2>1 DEF Requests
<1>4. Plus(client[k].sym, 1) = SessionNonce(k, n) /\ n \in Nat
  <2>1. Plus(SessionNonce(k, client[k].sym.count), 1) = SessionNonce(k, n)
    BY <1>2, PlusCounts DEF SessionNonce
  <2> QED
    BY <1>2, <2>1
<1>5. /\ DOMAIN d = DOMAIN NewClient /\ d.key = client[k].key
      /\ d.sym = Plus(client[k].sym, 1)
  BY <1>1 DEF SendRequest, NewClient
<1>6. /\ d.pc = IF r.kind = "tell" THEN "session" ELSE "waiting"
      /\ d.sent \in client[k].sent + 1..MaxRequests[k]
  <2>1. d.pc = IF kind = "tell" THEN "session" ELSE "waiting"
    BY <1>1 DEF SendRequest, NewClient
  <2>2. d.sent = IF kind = "bye" THEN MaxRequests[k] ELSE client[k].sent + 1
    BY <1>1 DEF SendRequest, NewClient
  <2> HIDE DEF d, r
  <2> QED
    BY <1>1, <1>3, <2>1, <2>2
<1>7. SecretBox(client[k].key, Plus(client[k].sym, 1),
                <<"request", [kind |-> kind, number |-> client[k].sent + 1]>>) = RequestNo(k, n, r)
  BY <1>2, <1>4 DEF RequestNo
<1>8. /\ sealed' = sealed \cup {RequestNo(k, n, r)}
      /\ WriteToServer(k, RequestNo(k, n, r))
      /\ UNCHANGED <<serverVars, server, toClient>>
      /\ DOMAIN client' = Connections
      /\ \A j \in Connections \ {k} : client'[j] = client[j]
  <2>1. /\ UNCHANGED <<serverVars, server, toClient>>
        /\ DOMAIN client' = Connections
        /\ \A j \in Connections \ {k} : client'[j] = client[j]
    BY <1>1 DEF SendRequest
  <2> QED
    BY <1>7, <2>1 DEF SendRequest
<1> HIDE DEF d, r
<1>9. Becomes(k, d, server[k], us, toClient[k])
  BY <1>1, <1>8 DEF WriteToServer, Becomes, Domains, Sent, d
<1>10. Agreed(k, d, server[k], us, toClient[k])
  BY <1>1, <1>3, <1>4, <1>5, <1>6, SendRequestAgrees DEF Connection
<1>11. RequestNo(k, n, r).nonce = SessionNonce(k, n)
  BY DEF RequestNo, SecretBox
<1>12. d.sym.count = n /\ d.pc \in {"session", "waiting"}
  BY <1>4, <1>5, <1>6, CountOfSessionNonce
<1>13. /\ toServer[k] \in Seq(ToServerMessages(k))
       /\ server[k].pc \in {"serve", "handle"} =>
            /\ server[k].sym.count \in Nat
            /\ client[k].sym.count = server[k].sym.count + Len(toServer[k])
       /\ server[k].pc \notin {"step1", "step2", "step3"}
  BY <1>1 DEF Connection, Agreed, Written, Session, ServerSide, Gone
<1>14. RequestNo(k, n, r) \in ToServerMessages(k)
  BY <1>3, <1>4, MessagesToServer
<1>15. server[k].pc \in {"serve", "handle"} => Len(us) = Len(toServer[k]) + 1
  BY <1>13, <1>14 DEF Sent
<1> HIDE DEF us
<1>16. StaysUsed(k, d, server[k], us)
  <2> SUFFICES ASSUME NEW i \in Nat, Used(i, client[k], server[k], toServer[k])
               PROVE  Used(i, d, server[k], us)
    BY DEF StaysUsed
  <2>1. i <= client[k].sym.count /\ i <= n /\ i <= n + 1
    BY <1>1, <1>2 DEF Used
  <2>2. server[k].pc \in {"serve", "handle"} => i <= server[k].sym.count + Len(us)
    BY <1>2, <1>13, <1>15, <2>1
  <2> HIDE DEF n
  <2> QED
    BY <1>12, <1>13, <2>1, <2>2 DEF Used
<1>17. ~Used(n, client[k], server[k], toServer[k])
  BY <1>1, <1>2 DEF Used
<1>18. Used(n, d, server[k], us)
  <2>1. server[k].pc \in {"serve", "handle"} => n <= server[k].sym.count + Len(us)
    BY <1>2, <1>13, <1>15
  <2>2. n <= n /\ n <= n + 1
    BY <1>4
  <2> HIDE DEF n
  <2> QED
    BY <1>12, <1>13, <2>1, <2>2 DEF Used
<1> HIDE DEF n
<1> QED
  BY <1>4, <1>8, <1>9, <1>10, <1>11, <1>12, <1>16, <1>17, <1>18, StepWithMessage

LEMMA ReceiveResponseInv ==
  ASSUME SessionIInv, NEW k \in Connections, ReceiveResponse(k)
  PROVE  SessionIInv'
<1> DEFINE n == client[k].sym.count + 1
           d == [client[k] EXCEPT !.sym = SessionNonce(k, n), !.pc = "session"]
           ud == Tail(toClient[k])
<1>1. /\ Connection(k) /\ DOMAIN client[k] = DOMAIN NewClient
      /\ client[k].pc = "waiting" /\ toClient[k] # <<>> /\ Domains
  BY DEF SessionIInv, Connection, Agreed, Fields, ReceiveResponse
<1>2. /\ client[k].sym.count \in Nat /\ client[k].sym = SessionNonce(k, client[k].sym.count)
      /\ client[k].key = SessionKey(k)
      /\ server[k].pc = "serve" =>
           server[k].sym.count = client[k].sym.count + 1 /\ toServer[k] = <<>>
      /\ server[k].pc \in {"serve", "leaving", "left"}
  BY <1>1 DEF Connection, Agreed, Session, Gone
<1>3. PICK r \in Requests(k) : toClient[k] = <<ResponseNo(k, n, r)>>
  BY <1>1 DEF Connection, Agreed, Session
<1>4. Plus(client[k].sym, 1) = SessionNonce(k, n)
  <2>1. Plus(SessionNonce(k, client[k].sym.count), 1) = SessionNonce(k, n)
    BY <1>2, PlusCounts DEF SessionNonce
  <2> QED
    BY <1>2, <2>1
<1>5. Opens(FromServer(k), client[k].key, Plus(client[k].sym, 1))
  <2>1. FromServer(k) = ResponseNo(k, n, r)
    BY <1>3, FirstMessage DEF FromServer
  <2> QED
    BY <1>2, <1>4, <2>1 DEF ResponseNo, SecretBox, Opens
<1>6. /\ DOMAIN d = DOMAIN NewClient /\ d.key = client[k].key /\ d.pc = "session"
      /\ d.sym = SessionNonce(k, n) /\ d.sent = client[k].sent
  BY <1>1 DEF NewClient
<1>7. /\ client' = [client EXCEPT ![k] = d] /\ ReadFromServer(k)
      /\ UNCHANGED <<serverVars, server, toServer, sealed>>
  BY <1>4, <1>5 DEF ReceiveResponse
<1> HIDE DEF d
<1>8. Becomes(k, d, server[k], toServer[k], ud)
  BY <1>1, <1>7 DEF ReadFromServer, Becomes, Domains
<1>9. Agreed(k, d, server[k], toServer[k], ud)
  BY <1>1, <1>6, ReceiveResponseAgrees DEF Connection
<1>10. d.sym.count = n
  BY <1>6, CountOfSessionNonce
<1>11. StaysUsed(k, d, server[k], toServer[k])
  <2> SUFFICES ASSUME NEW i \in Nat, Used(i, client[k], server[k], toServer[k])
               PROVE  Used(i, d, server[k], toServer[k])
    BY DEF StaysUsed
  <2> QED
    BY <1>1, <1>6, <1>10 DEF Used
<1>12. {} \in SUBSET Boxes(k) /\ sealed' = sealed \cup {}
  BY <1>7
<1> HIDE DEF n, ud
<1> QED
  BY <1>6, <1>7, <1>8, <1>9, <1>11, <1>12, StepWithBoxes

LEMMA ClientClosesInv ==
  ASSUME SessionIInv, NEW k \in Connections, ClientCloses(k)
  PROVE  SessionIInv'
<1> DEFINE d == [NewClient EXCEPT !.pc = "closed"]
<1>1. Connection(k) /\ client[k].pc \notin {"new", "closed"} /\ Domains
  BY DEF SessionIInv, ClientCloses
<1>2. DOMAIN d = DOMAIN NewClient /\ d.pc = "closed" /\ d.sent = 0
  BY DEF NewClient
<1>3. /\ client' = [client EXCEPT ![k] = d] /\ toClient' = [toClient EXCEPT ![k] = <<>>]
      /\ UNCHANGED <<serverVars, server, toServer, sealed>>
  BY DEF ClientCloses, CloseClient
<1> HIDE DEF d
<1>4. Becomes(k, d, server[k], toServer[k], <<>>)
  BY <1>1, <1>3 DEF Becomes, Domains
<1>5. Agreed(k, d, server[k], toServer[k], <<>>)
  BY <1>1, <1>2, ClientClosesAgrees DEF Connection
<1>6. StaysUsed(k, d, server[k], toServer[k])
  BY <1>2 DEF StaysUsed, Used
<1>7. {} \in SUBSET Boxes(k) /\ sealed' = sealed \cup {}
  BY <1>3
<1> QED
  BY <1>2, <1>3, <1>4, <1>5, <1>6, <1>7, StepWithBoxes

LEMMA AuthStep1Inv ==
  ASSUME SessionIInv, NEW k \in Connections, AuthStep1(k)
  PROVE  SessionIInv'
<1> DEFINE t == [server[k] EXCEPT !.pc = "step2"]
           ud == Answered(client[k], toClient[k], Okay)
<1>1. /\ Connection(k) /\ DOMAIN server[k] = DOMAIN NewServer
      /\ server[k].pc = "step1" /\ toServer[k] # <<>> /\ client[k].pc # "new" /\ Domains
  BY RunningIsOpened DEF SessionIInv, Connection, Agreed, Fields, AuthStep1, Reads, Waits, Running
<1>2. DOMAIN t = DOMAIN NewServer /\ t.pc = "step2"
  BY <1>1 DEF NewServer
<1>3. Becomes(k, client[k], t, Tail(toServer[k]), ud)
  BY <1>1 DEF AuthStep1, ReadFromClient, WriteToClient, Becomes, Domains, Answered, Okay
<1>4. Agreed(k, client[k], t, Tail(toServer[k]), ud)
  <2> HIDE DEF t
  <2> QED
    BY <1>1, <1>2, AuthStep1Agrees DEF Connection
<1>5. StaysUsed(k, client[k], t, Tail(toServer[k]))
  BY <1>1 DEF StaysUsed, Used
<1>6. {} \in SUBSET Boxes(k) /\ sealed' = sealed \cup {} /\ UNCHANGED serverVars
  BY DEF AuthStep1
<1> HIDE DEF t, ud
<1> QED
  BY <1>3, <1>4, <1>5, <1>6, StepWithBoxes

LEMMA AuthStep2Inv ==
  ASSUME SessionIInv, NEW k \in Connections, AuthStep2(k)
  PROVE  SessionIInv'
<1> DEFINE t == [server[k] EXCEPT !.pc = "step3", !.asym = AuthNonce(k, 0)]
           ud == Answered(client[k], toClient[k], ServerProof(k))
<1>1. /\ Connection(k) /\ DOMAIN server[k] = DOMAIN NewServer
      /\ server[k].pc = "step2" /\ toServer[k] # <<>> /\ Domains
  BY DEF SessionIInv, Connection, Agreed, Fields, AuthStep2, Reads, Waits
<1>2. DOMAIN t = DOMAIN NewServer /\ t.pc = "step3" /\ t.asym = AuthNonce(k, 0)
  BY <1>1 DEF NewServer
<1>3. FromClient(k).challenge = Drawn(k, "clientChallenge")
  <2>1. toServer[k] = <<ClientKeys(k)>>
    BY <1>1 DEF Connection, Agreed, ServerSide
  <2>2. FromClient(k) = ClientKeys(k)
    BY <2>1, FirstMessage DEF FromClient
  <2> QED
    BY <2>2 DEF ClientKeys
<1>4. /\ server' = [server EXCEPT ![k] = t]
      /\ sealed' = sealed \cup {ServerBox(k)}
      /\ WriteToClient(k, ServerProof(k)) /\ ReadFromClient(k)
      /\ UNCHANGED <<serverVars, client>>
  BY <1>3 DEF AuthStep2, ServerProof, ServerBox, AuthNonce
<1> HIDE DEF t
<1>5. Becomes(k, client[k], t, Tail(toServer[k]), ud)
  BY <1>1, <1>4 DEF ReadFromClient, WriteToClient, Becomes, Domains, Answered
<1>6. Agreed(k, client[k], t, Tail(toServer[k]), ud)
  BY <1>1, <1>2, AuthStep2Agrees DEF Connection
<1>7. StaysUsed(k, client[k], t, Tail(toServer[k]))
  BY <1>1 DEF StaysUsed, Used
<1>8. {ServerBox(k)} \in SUBSET Boxes(k)
  BY DEF Boxes
<1> HIDE DEF ud
<1> QED
  BY <1>4, <1>5, <1>6, <1>7, <1>8, StepWithBoxes

LEMMA AuthStep3Inv ==
  ASSUME SessionIInv, NEW k \in Connections, AuthStep3(k)
  PROVE  SessionIInv'
<1> DEFINE t == [server[k] EXCEPT !.pc = "serve", !.asym = AuthNonce(k, 3),
                                  !.sym = SessionNonce(k, 0), !.key = SessionKey(k)]
           ud == Answered(client[k], toClient[k], ServerDh(k))
<1>1. /\ Connection(k) /\ DOMAIN server[k] = DOMAIN NewServer
      /\ server[k].pc = "step3" /\ toServer[k] # <<>> /\ Domains
  BY DEF SessionIInv, Connection, Agreed, Fields, AuthStep3, Reads, Waits
<1>2. /\ DOMAIN t = DOMAIN NewServer /\ t.pc = "serve"
      /\ t.sym = SessionNonce(k, 0) /\ t.key = SessionKey(k)
  BY <1>1 DEF NewServer
<1>3. FromClient(k) = ClientProof(k) /\ server[k].asym = AuthNonce(k, 0)
  <2>1. toServer[k] = <<ClientProof(k)>> /\ server[k].asym = AuthNonce(k, 0)
    BY <1>1 DEF Connection, Agreed, ServerSide
  <2> QED
    BY <2>1, FirstMessage DEF FromClient
<1>4. /\ Plus(server[k].asym, 1) = AuthNonce(k, 1) /\ Plus(server[k].asym, 2) = AuthNonce(k, 2)
      /\ Plus(server[k].asym, 3) = AuthNonce(k, 3)
  <2>1. /\ Plus(AuthNonce(k, 0), 1) = AuthNonce(k, 1) /\ Plus(AuthNonce(k, 0), 2) = AuthNonce(k, 2)
        /\ Plus(AuthNonce(k, 0), 3) = AuthNonce(k, 3)
    BY PlusCounts DEF AuthNonce
  <2> QED
    BY <1>3, <2>1
<1>5. /\ FromClient(k).proof = ClientBox(k) /\ FromClient(k).dh = ClientDhBox(k)
      /\ FromClient(k).sym = SessionNonce(k, 0)
  BY <1>3 DEF ClientProof
<1>6. /\ Opens(FromClient(k).proof, BoxKey(k), AuthNonce(k, 1))
      /\ FromClient(k).proof.text = Drawn(k, "serverChallenge")
      /\ Opens(FromClient(k).dh, BoxKey(k), AuthNonce(k, 2))
      /\ FromClient(k).dh.text = Drawn(k, "clientDh")
  BY <1>5 DEF ClientBox, ClientDhBox, Box, Opens, BoxKey
<1>7. ServerDhBox(k).nonce = AuthNonce(k, 3)
  BY DEF ServerDhBox, Box
<1>8. /\ server' = [server EXCEPT ![k] = t]
      /\ sealed' = sealed \cup {ServerDhBox(k)}
      /\ WriteToClient(k, ServerDh(k)) /\ ReadFromClient(k)
      /\ UNCHANGED <<serverVars, client>>
  BY <1>4, <1>5, <1>6, <1>7 DEF AuthStep3, ServerDh, ServerDhBox, SessionKey, BoxKey
<1> HIDE DEF t
<1>9. Becomes(k, client[k], t, Tail(toServer[k]), ud)
  BY <1>1, <1>8 DEF ReadFromClient, WriteToClient, Becomes, Domains, Answered
<1>10. Agreed(k, client[k], t, Tail(toServer[k]), ud)
  BY <1>1, <1>2, AuthStep3Agrees DEF Connection
<1>11. StaysUsed(k, client[k], t, Tail(toServer[k]))
  BY <1>1 DEF StaysUsed, Used
<1>12. {ServerDhBox(k)} \in SUBSET Boxes(k)
  BY DEF Boxes
<1> HIDE DEF ud
<1> QED
  BY <1>8, <1>9, <1>10, <1>11, <1>12, StepWithBoxes

LEMMA ReceiveRequestInv ==
  ASSUME SessionIInv, NEW k \in Connections, ReceiveRequest(k)
  PROVE  SessionIInv'
<1> DEFINE n == server[k].sym.count + 1
           t == [server[k] EXCEPT !.sym = SessionNonce(k, n), !.pc = "handle",
                                  !.request = FromClient(k).text[2]]
           us == Tail(toServer[k])
<1>1. /\ Connection(k) /\ DOMAIN server[k] = DOMAIN NewServer
      /\ server[k].pc = "serve" /\ toServer[k] # <<>> /\ Domains
  BY DEF SessionIInv, Connection, Agreed, Fields, ReceiveRequest, Reads, Waits
<1>2. /\ server[k].sym.count \in Nat /\ server[k].sym = SessionNonce(k, server[k].sym.count)
      /\ server[k].key = SessionKey(k)
  BY <1>1 DEF Connection, Agreed, ServerSide
<1>3. /\ DOMAIN t = DOMAIN NewServer /\ t.pc = "handle" /\ t.key = server[k].key
      /\ t.sym = SessionNonce(k, n) /\ t.request = Head(toServer[k]).text[2]
  BY <1>1 DEF NewServer, FromClient
<1>4. Plus(server[k].sym, 1) = SessionNonce(k, n)
  <2>1. Plus(SessionNonce(k, server[k].sym.count), 1) = SessionNonce(k, n)
    BY <1>2, PlusCounts DEF SessionNonce
  <2> QED
    BY <1>2, <2>1
<1> HIDE DEF t
<1>5. /\ Agreed(k, client[k], t, us, toClient[k])
      /\ \E r \in Requests(k) : FromClient(k) = RequestNo(k, n, r)
  BY <1>1, <1>3, ReceiveRequestAgrees DEF Connection, FromClient
<1>6. Opens(FromClient(k), server[k].key, Plus(server[k].sym, 1))
  BY <1>2, <1>4, <1>5 DEF RequestNo, SecretBox, Opens
<1>7. /\ server' = [server EXCEPT ![k] = t] /\ ReadFromClient(k)
      /\ UNCHANGED <<serverVars, client, toClient, sealed>>
  BY <1>4, <1>6 DEF ReceiveRequest, Received, t
<1>8. Becomes(k, client[k], t, us, toClient[k])
  BY <1>1, <1>7 DEF ReadFromClient, Becomes, Domains
<1>9. t.sym.count = n
  BY <1>3, CountOfSessionNonce
<1>10. Len(us) = Len(toServer[k]) - 1 /\ Len(toServer[k]) \in Nat
  BY <1>1 DEF Connection, Agreed, Written
<1> HIDE DEF us
<1>11. StaysUsed(k, client[k], t, us)
  <2> SUFFICES ASSUME NEW i \in Nat, Used(i, client[k], server[k], toServer[k])
               PROVE  Used(i, client[k], t, us)
    BY DEF StaysUsed
  <2>1. i <= t.sym.count + Len(us)
    <3>1. i <= server[k].sym.count + Len(toServer[k])
      BY <1>1 DEF Used
    <3>2. t.sym.count = server[k].sym.count + 1 /\ server[k].sym.count \in Nat
      BY <1>2, <1>9
    <3> QED
      BY <1>10, <3>1, <3>2
  <2> QED
    BY <1>3, <2>1 DEF Used
<1>12. {} \in SUBSET Boxes(k) /\ sealed' = sealed \cup {}
  BY <1>7
<1> QED
  BY <1>5, <1>7, <1>8, <1>11, <1>12, StepWithBoxes

LEMMA RespondInv ==
  ASSUME SessionIInv, NEW k \in Connections, Respond(k)
  PROVE  SessionIInv'
<1>1. /\ Connection(k) /\ DOMAIN server[k] = DOMAIN NewServer
      /\ server[k].pc = "handle" /\ Domains
  BY DEF SessionIInv, Connection, Agreed, Fields, Respond, Waits
<1>2. /\ server[k].sym.count \in Nat /\ server[k].sym = SessionNonce(k, server[k].sym.count)
      /\ server[k].key = SessionKey(k)
      /\ server[k].request.kind # "tell" => toServer[k] = <<>>
  BY <1>1 DEF Connection, Agreed, ServerSide
<1>3. CASE server[k].request.kind = "tell"
  <2> DEFINE t == [server[k] EXCEPT !.pc = "serve"]
  <2>1. /\ DOMAIN t = DOMAIN NewServer /\ t.pc = "serve" /\ t.key = server[k].key
        /\ t.sym = server[k].sym
    BY <1>1 DEF NewServer
  <2>2. /\ server' = [server EXCEPT ![k] = t]
        /\ UNCHANGED <<serverVars, client, toServer, toClient, sealed>>
    BY <1>3 DEF Respond
  <2> HIDE DEF t
  <2>3. Becomes(k, client[k], t, toServer[k], toClient[k])
    BY <1>1, <2>2 DEF Becomes, Domains
  <2>4. Agreed(k, client[k], t, toServer[k], toClient[k])
    BY <1>1, <1>3, <2>1, HandledAgrees DEF Connection
  <2>5. StaysUsed(k, client[k], t, toServer[k])
    BY <1>1, <2>1 DEF StaysUsed, Used
  <2>6. {} \in SUBSET Boxes(k) /\ sealed' = sealed \cup {}
    BY <2>2
  <2> QED
    BY <2>2, <2>3, <2>4, <2>5, <2>6, StepWithBoxes
<1>4. CASE server[k].request.kind # "tell"
  <2> DEFINE n == server[k].sym.count + 1
             r == server[k].request
             pc == IF r.kind = "bye" THEN "leaving" ELSE "serve"
             t == [server[k] EXCEPT !.sym = SessionNonce(k, n), !.pc = pc]
             ud == Answered(client[k], toClient[k], ResponseNo(k, n, r))
  <2>1. Plus(server[k].sym, 1) = SessionNonce(k, n) /\ n \in Nat
    <3>1. Plus(SessionNonce(k, server[k].sym.count), 1) = SessionNonce(k, n)
      BY <1>2, PlusCounts DEF SessionNonce
    <3> QED
      BY <1>2, <3>1
  <2>2. /\ DOMAIN t = DOMAIN NewServer /\ t.pc \in {"serve", "leaving"}
        /\ t.key = server[k].key /\ t.sym = SessionNonce(k, n)
    BY <1>1 DEF NewServer
  <2>3. SecretBox(server[k].key, Plus(server[k].sym, 1), <<"response", r>>) = ResponseNo(k, n, r)
    BY <1>2, <2>1 DEF ResponseNo
  <2>4. /\ server' = [server EXCEPT ![k] = t]
        /\ sealed' = sealed \cup {ResponseNo(k, n, r)}
        /\ WriteToClient(k, ResponseNo(k, n, r))
        /\ UNCHANGED <<serverVars, client, toServer>>
    BY <1>4, <2>1, <2>3 DEF Respond
  <2> HIDE DEF t, r
  <2>5. Becomes(k, client[k], t, toServer[k], ud)
    BY <1>1, <2>4 DEF WriteToClient, Becomes, Domains, Answered
  <2>6. Agreed(k, client[k], t, toServer[k], ud)
    BY <1>1, <1>4, <2>2, RespondAgrees DEF Connection, r
  <2>7. ResponseNo(k, n, r).nonce = SessionNonce(k, n)
    BY DEF ResponseNo, SecretBox
  <2>8. t.sym.count = n
    BY <2>2, CountOfSessionNonce
  <2>9. Len(toServer[k]) = 0
    BY <1>2, <1>4
  <2>10. StaysUsed(k, client[k], t, toServer[k])
    BY <1>1, <1>2, <2>2, <2>8, <2>9 DEF StaysUsed, Used
  <2>11. ~Used(n, client[k], server[k], toServer[k])
    BY <1>1, <1>2, <2>9 DEF Used
  <2>12. Used(n, client[k], t, toServer[k])
    <3>1. client[k].pc \in {"waiting", "closed"}
      BY <1>1, <1>4 DEF Connection, Agreed, Fields, Handshake, Session, Gone
    <3>2. client[k].pc = "waiting" => client[k].sym.count = server[k].sym.count + Len(toServer[k])
      BY <1>1 DEF Connection, Agreed, Session, Gone
    <3>3. client[k].pc = "waiting" => n = client[k].sym.count + 1
      BY <1>2, <2>9, <3>2
    <3>4. n <= n + Len(toServer[k])
      BY <2>1, <2>9
    <3> HIDE DEF n
    <3> QED
      BY <2>1, <2>2, <2>8, <3>1, <3>3, <3>4 DEF Used
  <2> HIDE DEF n, ud
  <2> QED
    BY <2>1, <2>4, <2>5, <2>6, <2>7, <2>10, <2>11, <2>12, StepWithMessage
<1> QED
  BY <1>3, <1>4

LEMMA LeavingInv ==
  ASSUME SessionIInv, NEW k \in Connections, GivesUp(k) \/ Interrupted(k)
  PROVE  SessionIInv'
<1> DEFINE t == [server[k] EXCEPT !.pc = "leaving"]
<1>1. /\ Connection(k) /\ DOMAIN server[k] = DOMAIN NewServer
      /\ server[k].pc # "left" /\ client[k].pc # "new" /\ Domains
  BY RunningIsOpened DEF SessionIInv, Connection, Agreed, Fields, GivesUp, Interrupted, Waits, Running
<1>2. DOMAIN t = DOMAIN NewServer /\ t.pc = "leaving" /\ t.key = server[k].key
  BY <1>1 DEF NewServer
<1>3. /\ server' = [server EXCEPT ![k] = t]
      /\ UNCHANGED <<serverVars, client, toServer, toClient, sealed>>
  BY DEF GivesUp, Interrupted
<1> HIDE DEF t
<1>4. Becomes(k, client[k], t, toServer[k], toClient[k])
  BY <1>1, <1>3 DEF Becomes, Domains
<1>5. Agreed(k, client[k], t, toServer[k], toClient[k])
  BY <1>1, <1>2, LeavingAgrees DEF Connection
<1>6. StaysUsed(k, client[k], t, toServer[k])
  BY <1>2 DEF StaysUsed, Used
<1>7. {} \in SUBSET Boxes(k) /\ sealed' = sealed \cup {}
  BY <1>3
<1> QED
  BY <1>3, <1>4, <1>5, <1>6, <1>7, StepWithBoxes

LEMMA CloseServerInv ==
  ASSUME SessionIInv, NEW k \in Connections, server[k].pc = "leaving", CloseServer(k), RunEnds(k),
         UNCHANGED <<client, toClient, sealed>>
  PROVE  SessionIInv'
<1> DEFINE t == [NewServer EXCEPT !.pc = "left"]
<1>1. /\ Connection(k) /\ Domains /\ ServerTypeOK /\ Unopened /\ SealedInv /\ NonceOnce
      /\ \A j \in Connections : Connection(j)
  BY DEF SessionIInv
<1>2. DOMAIN t = DOMAIN NewServer /\ t.pc = "left"
  BY DEF NewServer
<1>3. server' = [server EXCEPT ![k] = t] /\ toServer' = [toServer EXCEPT ![k] = <<>>]
  BY DEF CloseServer
<1> HIDE DEF t
<1>4. Becomes(k, client[k], t, <<>>, toClient[k])
  BY <1>1, <1>3 DEF Becomes, Domains
<1>5. Agreed(k, client[k], t, <<>>, toClient[k])
  BY <1>1, <1>2, CloseServerAgrees DEF Connection
<1>6. StaysUsed(k, client[k], t, <<>>)
  BY <1>2 DEF StaysUsed, Used
<1>7. {} \in SUBSET Boxes(k) /\ sealed' = sealed \cup {}
  OBVIOUS
<1>8. SealedInv' /\ NonceOnce'
  BY <1>1, <1>4, <1>6, <1>7, BoxesSealed
<1>9. Domains' /\ \A j \in Connections : Connection(j)'
  BY <1>1, <1>4, <1>5, ConnectionsStay
<1>10. ServerTypeOK' /\ Unopened'
  BY <1>1, ServerStep
<1> QED
  BY <1>8, <1>9, <1>10 DEF SessionIInv

-----------------------------------------------------------------------------
LEMMA SessionInitInv == SessionInit => SessionIInv
<1> SUFFICES ASSUME SessionInit PROVE SessionIInv
  OBVIOUS
<1>1. /\ ServerInit /\ sealed = {}
      /\ client = [k \in Connections |-> NewClient] /\ server = [k \in Connections |-> NewServer]
      /\ toServer = [k \in Connections |-> <<>>] /\ toClient = [k \in Connections |-> <<>>]
  BY DEF SessionInit
<1>2. ServerTypeOK
  <2>1. <<>> \in Seq(Connections) /\ Len(<<>>) = 0
    OBVIOUS
  <2>2. /\ mainLoop = "accept" /\ at = 1 /\ backlog = <<>> /\ workers = <<>>
        /\ isStopRequested = FALSE
        /\ ws = [k \in Connections |-> "None"] /\ ps = [k \in Connections |-> "Continue"]
    BY <1>1 DEF ServerInit
  <2>3. ws \in [Connections -> {"None", "Refused", "Ready", "Running", "Done", "Exited", "Deleted"}]
    BY <2>2
  <2>4. ps \in [Connections -> {"Continue", "Quit"}]
    BY <2>2
  <2>5. /\ {backlog, workers} \subseteq Seq(Connections) /\ Len(backlog) <= maxConCount
        /\ at \in Nat \ {0}
    BY <2>1, <2>2, ServerAssumption
  <2> QED
    BY <2>2, <2>3, <2>4, <2>5 DEF ServerTypeOK
<1>3. Domains
  BY <1>1 DEF Domains
<1>4. ASSUME NEW k \in Connections PROVE Connection(k)
  <2>1. NewClient.pc = "new" /\ NewClient.sent = 0 /\ NewServer.pc = "step1"
    BY DEF NewClient, NewServer
  <2>2. 0 \in 0..MaxRequests[k]
    BY RequestAssumption
  <2>3. Written(k, NewClient, <<>>)
    BY <2>1, <2>2, EmptyIsWritten
  <2>4. Agreed(k, NewClient, NewServer, <<>>, <<>>)
    BY <2>1, <2>2, <2>3 DEF Agreed, Fields, ServerSide, Handshake, Session
  <2> QED
    BY <1>1, <2>4 DEF Connection
<1>5. Unopened
  BY <1>1 DEF Unopened, ServerInit
<1>6. SealedInv /\ NonceOnce
  BY <1>1 DEF SealedInv, NonceOnce
<1> QED
  BY <1>2, <1>3, <1>4, <1>5, <1>6 DEF SessionIInv

\* The threads of the server and the main loop leave the sessions alone.
LEMMA ServerOnly ==
  ASSUME SessionIInv, UNCHANGED sessionVars,
         \/ MainLoop \/ RequestStop \/ Terminate
         \/ \E k \in Connections : RunBegins(k) \/ RunEnds(k) \/ ThreadExits(k)
  PROVE  SessionIInv'
<1>1. ServerTypeOK' /\ Unopened'
  BY ServerStep DEF SessionIInv, sessionVars
<1>2. Domains' /\ NonceOnce' /\ \A j \in Connections : Connection(j)'
  BY DEF SessionIInv, sessionVars, Domains, NonceOnce, Connection
<1>3. SealedInv'
  BY DEF SessionIInv, sessionVars, SealedInv, SealedBy
<1> QED
  BY <1>1, <1>2, <1>3 DEF SessionIInv

LEMMA SessionStep == SessionIInv /\ [SessionNext]_netVars => SessionIInv'
<1> SUFFICES ASSUME SessionIInv, [SessionNext]_netVars PROVE SessionIInv'
  OBVIOUS
<1>1. CASE UNCHANGED netVars
  <2>1. UNCHANGED serverVars /\ UNCHANGED sessionVars
    BY <1>1 DEF netVars
  <2>2. ServerTypeOK' /\ Unopened'
    BY <2>1 DEF SessionIInv, ServerTypeOK, Unopened, serverVars, sessionVars
  <2>3. Domains' /\ NonceOnce' /\ \A j \in Connections : Connection(j)'
    BY <2>1 DEF SessionIInv, sessionVars, Domains, NonceOnce, Connection
  <2>4. SealedInv'
    BY <2>1 DEF SessionIInv, sessionVars, SealedInv, SealedBy
  <2> QED
    BY <2>2, <2>3, <2>4 DEF SessionIInv
<1>2. CASE MainLoop /\ UNCHANGED sessionVars
  BY <1>2, ServerOnly
<1>3. CASE RequestStop /\ UNCHANGED sessionVars
  BY <1>3, ServerOnly
<1>4. ASSUME NEW k \in Connections,
             \/ Connect(k) \/ ClientCloses(k) \/ ClientSteps(k)
             \/ \E kind \in {"ask", "tell", "bye"} : SendRequest(k, kind)
      PROVE  SessionIInv'
  BY <1>4, ConnectInv, ClientClosesInv, SendKeysInv, SendProofInv, FinishAuthInv,
     ReceiveResponseInv, SendRequestInv DEF ClientSteps
<1>5. ASSUME NEW k \in Connections, Answers(k) \/ GivesUp(k) \/ Interrupted(k)
      PROVE  SessionIInv'
  BY <1>5, AuthStep1Inv, AuthStep2Inv, AuthStep3Inv, ReceiveRequestInv, RespondInv, LeavingInv
  DEF Answers
<1>6. ASSUME NEW k \in Connections, WriteThrows(k)
      PROVE  SessionIInv'
  BY <1>6, ServerOnly DEF WriteThrows
<1>7. ASSUME NEW k \in Connections, ThreadSteps(k)
      PROVE  SessionIInv'
  BY <1>7, ServerOnly, CloseServerInv DEF ThreadSteps
<1> QED
  BY <1>1, <1>2, <1>3, <1>4, <1>5, <1>6, <1>7 DEF SessionNext

LEMMA SessionInvariant == SessionSpec => []SessionIInv
<1>1. SessionInit => SessionIInv
  BY SessionInitInv
<1>2. SessionIInv /\ [SessionNext]_netVars => SessionIInv'
  BY SessionStep
<1> QED
  BY <1>1, <1>2, PTL DEF SessionSpec

LEMMA SessionTypes == SessionIInv => SessionTypeOK
<1> SUFFICES ASSUME SessionIInv, NEW k \in Connections
             PROVE  /\ client[k].pc \in {"new", "greeted", "keysSent", "proofSent",
                                         "session", "waiting", "failed", "closed"}
                    /\ client[k].sent \in 0..MaxRequests[k]
                    /\ server[k].pc \in {"step1", "step2", "step3", "serve", "handle",
                                         "leaving", "left"}
                    /\ Len(toServer[k]) <= 3 + MaxRequests[k] /\ Len(toClient[k]) <= 1
                    /\ server[k].pc = "handle" => server[k].request \in Requests(k)
  BY DEF SessionIInv, SessionTypeOK
<1>1. Connection(k)
  BY DEF SessionIInv
<1>2. toClient[k] = <<>> \/ \E m : toClient[k] = <<m>>
  BY <1>1 DEF Connection, Agreed, Fields, Handshake, Session
<1>3. Len(toClient[k]) <= 1
  <2>1. CASE toClient[k] = <<>>
    BY <2>1
  <2>2. ASSUME NEW m, toClient[k] = <<m>>
        PROVE  Len(toClient[k]) <= 1
    BY <2>2
  <2> QED
    BY <1>2, <2>1, <2>2
<1> QED
  BY <1>1, <1>3 DEF Connection, Agreed, Fields, Written, ServerSide

(* For any connections and numbers of requests the accepting thread, the   *)
(* clients and the workers stay in their states, no more messages wait     *)
(* than the protocol allows (never two for a client), and a worker handles *)
(* a request that its client has made.                                     *)
THEOREM SessionTypeCorrect == SessionSpec => []SessionTypeOK
BY SessionInvariant, SessionTypes, PTL

(* increment(): no nonce ever serves two messages under one key, although  *)
(* client and server count it on their own and in both directions.         *)
THEOREM NonceServesOnce == SessionSpec => []NonceOnce
<1>1. SessionIInv => NonceOnce
  BY DEF SessionIInv
<1> QED
  BY <1>1, SessionInvariant, PTL

LEMMA SessionsDo == SessionIInv => SessionsAgree
<1> SUFFICES ASSUME SessionIInv, NEW k \in Connections
             PROVE  LET c == client[k] s == server[k] IN
    /\ c.pc \in {"session", "waiting"} =>
         \/ s.pc = "left"
         \/ s.pc \in {"serve", "handle", "leaving"} /\ s.key = c.key /\ c.key # None
    /\ s.pc \in {"serve", "handle"} =>
         \A i \in 1..Len(toServer[k]) : Opens(toServer[k][i], s.key, Plus(s.sym, i))
    /\ (c.pc = "proofSent" /\ toClient[k] # <<>>) =>
         Opens(FromServer(k).dh, <<k, "keyPairs">>, Plus(c.asym, 1))
    /\ (c.pc = "waiting" /\ toClient[k] # <<>>) =>
         Opens(FromServer(k), c.key, Plus(c.sym, 1))
    /\ (c.pc = "session" /\ s.pc = "serve" /\ toServer[k] = <<>>) => c.sym = s.sym
  BY DEF SessionsAgree
<1> DEFINE c == client[k]
           s == server[k]
<1>1. Agreed(k, c, s, toServer[k], toClient[k])
  BY DEF SessionIInv, Connection
<1> HIDE DEF c, s
<1>2. ASSUME c.pc \in {"session", "waiting"}
      PROVE  \/ s.pc = "left"
             \/ s.pc \in {"serve", "handle", "leaving"} /\ s.key = c.key /\ c.key # None
  <2>1. SessionKey(k) # None
    BY DEF SessionKey, SharedSecret, None
  <2>2. c.key = SessionKey(k)
    BY <1>1, <1>2 DEF Agreed, Session
  <2>3. s.pc \in {"serve", "handle"} => s.key = SessionKey(k)
    BY <1>1 DEF Agreed, ServerSide
  <2>4. s.pc \in {"serve", "handle"} \/ (Gone(s) /\ (s.pc = "leaving" => s.key = SessionKey(k)))
    BY <1>1, <1>2 DEF Agreed, Session
  <2> QED
    BY <2>1, <2>2, <2>3, <2>4 DEF Gone
<1>3. ASSUME s.pc \in {"serve", "handle"}, NEW i \in 1..Len(toServer[k])
      PROVE  Opens(toServer[k][i], s.key, Plus(s.sym, i))
  <2>1. /\ s.key = SessionKey(k) /\ s.sym.count \in Nat /\ s.sym = SessionNonce(k, s.sym.count)
        /\ \E r \in Requests(k) : toServer[k][i] = RequestNo(k, s.sym.count + i, r)
    BY <1>1, <1>3 DEF Agreed, ServerSide
  <2>2. i \in Nat
    BY <1>1 DEF Agreed, Written
  <2>3. Plus(SessionNonce(k, s.sym.count), i) = SessionNonce(k, s.sym.count + i)
    BY <2>1, <2>2, PlusCounts DEF SessionNonce
  <2> QED
    BY <2>1, <2>3 DEF RequestNo, SecretBox, Opens
<1>4. ASSUME c.pc = "proofSent", toClient[k] # <<>>
      PROVE  Opens(FromServer(k).dh, <<k, "keyPairs">>, Plus(c.asym, 1))
  <2>1. c.asym = AuthNonce(k, 2) /\ toClient[k] = <<ServerDh(k)>>
    BY <1>1, <1>4 DEF Agreed, Handshake
  <2>2. FromServer(k) = ServerDh(k)
    BY <2>1, FirstMessage DEF FromServer
  <2>3. Plus(AuthNonce(k, 2), 1) = AuthNonce(k, 3)
    BY PlusCounts DEF AuthNonce
  <2> QED
    BY <2>1, <2>2, <2>3 DEF ServerDh, ServerDhBox, Box, Opens
<1>5. ASSUME c.pc = "waiting", toClient[k] # <<>>
      PROVE  Opens(FromServer(k), c.key, Plus(c.sym, 1))
  <2>1. /\ c.key = SessionKey(k) /\ c.sym.count \in Nat /\ c.sym = SessionNonce(k, c.sym.count)
        /\ \E r \in Requests(k) : toClient[k] = <<ResponseNo(k, c.sym.count + 1, r)>>
    BY <1>1, <1>5 DEF Agreed, Session
  <2>2. PICK r \in Requests(k) : FromServer(k) = ResponseNo(k, c.sym.count + 1, r)
    BY <2>1, FirstMessage DEF FromServer
  <2>3. Plus(SessionNonce(k, c.sym.count), 1) = SessionNonce(k, c.sym.count + 1)
    BY <2>1, PlusCounts DEF SessionNonce
  <2> QED
    BY <2>1, <2>2, <2>3 DEF ResponseNo, SecretBox, Opens
<1>6. ASSUME c.pc = "session", s.pc = "serve", toServer[k] = <<>>
      PROVE  c.sym = s.sym
  <2>1. /\ c.sym = SessionNonce(k, c.sym.count) /\ s.sym = SessionNonce(k, s.sym.count)
        /\ s.sym.count \in Nat /\ c.sym.count = s.sym.count + Len(toServer[k])
    BY <1>1, <1>6 DEF Agreed, Session, ServerSide, Gone
  <2>2. c.sym.count = s.sym.count
    BY <1>6, <2>1
  <2> QED
    BY <2>1, <2>2
<1> QED
  BY <1>2, <1>3, <1>4, <1>5, <1>6 DEF c, s

(* readAndDecrypt() of two parties that run this code never fails: they    *)
(* agree on the key as soon as the client has it, and each message opens   *)
(* with the nonce that its reader has counted to by then.                  *)
THEOREM SessionsAlwaysAgree == SessionSpec => []SessionsAgree
BY SessionInvariant, SessionsDo, PTL

(* So a client ends only by closing: it never refuses what it receives.    *)
THEOREM ClientsNeverFail == SessionSpec => [](\A k \in Connections : client[k].pc # "failed")
<1>1. SessionIInv => \A k \in Connections : client[k].pc # "failed"
  BY DEF SessionIInv, Connection, Agreed, Fields
<1> QED
  BY <1>1, SessionInvariant, PTL

-----------------------------------------------------------------------------
(***************************************************************************)
(* The workers of the accepting thread.                                    *)
(***************************************************************************)

\* Connections wait once and before they have a worker; what the two passes
\* over the list at the end have dealt with so far.
WaitsOnce ==
  /\ \A i, j \in 1..Len(backlog) : backlog[i] = backlog[j] => i = j
  /\ \A i \in 1..Len(backlog) : ws[backlog[i]] = "None"

Listed == \A k \in Connections : HasThread(k) <=> \E i \in 1..Len(workers) : workers[i] = k
ListedOnce == \A i, j \in 1..Len(workers) : workers[i] = workers[j] => i = j

PassInv ==
  /\ mainLoop = "quit" => \A i \in 1..Len(workers) : i < at => ps[workers[i]] = "Quit"
  /\ mainLoop = "join" => \A i \in 1..Len(workers) :
       ps[workers[i]] = "Quit" /\ (i < at => ws[workers[i]] = "Exited")

WorkersInv ==
  /\ WaitsOnce /\ PassInv
  /\ mainLoop # "ended" => Listed /\ ListedOnce
  /\ mainLoop = "ended" => \A k \in Connections : ~HasThread(k)

LEMMA KeptByInv == ServerTypeOK /\ WorkersInv => KeptOnce /\ AskedFirst /\ NoneLeft
<1> SUFFICES ASSUME ServerTypeOK, WorkersInv PROVE KeptOnce /\ AskedFirst /\ NoneLeft
  OBVIOUS
<1>1. DOMAIN workers = 1..Len(workers)
  BY DEF ServerTypeOK
<1> QED
  BY <1>1 DEF KeptOnce, AskedFirst, NoneLeft, WorkersInv, PassInv, Listed, ListedOnce

\* erase(): the elements behind the one that goes move up.
Erased(s, n) == SubSeq(s, 1, n - 1) \o SubSeq(s, n + 1, Len(s))

LEMMA ErasedElements ==
  ASSUME NEW S, NEW s \in Seq(S), NEW n \in 1..Len(s)
  PROVE  /\ Erased(s, n) \in Seq(S) /\ Len(Erased(s, n)) = Len(s) - 1
         /\ \A i \in 1..Len(s) - 1 : Erased(s, n)[i] = IF i < n THEN s[i] ELSE s[i + 1]
<1> DEFINE a == SubSeq(s, 1, n - 1)
           b == SubSeq(s, n + 1, Len(s))
<1>1. Len(s) \in Nat /\ n \in Nat /\ 1 <= n /\ n <= Len(s)
  OBVIOUS
<1>2. \A i \in 1..n - 1 : s[i] \in S
  BY <1>1
<1>3. \A i \in n + 1..Len(s) : s[i] \in S
  BY <1>1
<1>4. a \in Seq(S) /\ Len(a) = n - 1 /\ \A i \in 1..n - 1 : a[i] = s[i]
  <2>1. a \in Seq(S) /\ Len(a) = IF 1 <= n - 1 THEN n - 1 - 1 + 1 ELSE 0
    BY <1>1, <1>2, SubSeqProperties
  <2>2. \A i \in 1..Len(a) : a[i] = s[1 + i - 1]
    BY <1>1, <1>2, SubSeqProperties
  <2>3. Len(a) = n - 1
    BY <1>1, <2>1
  <2> HIDE DEF a
  <2>4. \A i \in 1..n - 1 : 1 + i - 1 = i
    BY <1>1
  <2> QED
    BY <2>1, <2>2, <2>3, <2>4
<1>5. b \in Seq(S) /\ Len(b) = Len(s) - n /\ \A i \in 1..Len(s) - n : b[i] = s[n + i]
  <2>1. b \in Seq(S) /\ Len(b) = IF n + 1 <= Len(s) THEN Len(s) - (n + 1) + 1 ELSE 0
    BY <1>1, <1>3, SubSeqProperties
  <2>2. \A i \in 1..Len(b) : b[i] = s[n + 1 + i - 1]
    BY <1>1, <1>3, SubSeqProperties
  <2>3. Len(b) = Len(s) - n
    BY <1>1, <2>1
  <2> HIDE DEF b
  <2>4. \A i \in 1..Len(s) - n : n + 1 + i - 1 = n + i
    BY <1>1
  <2> QED
    BY <2>1, <2>2, <2>3, <2>4
<1> HIDE DEF a, b
<1>6. a \o b \in Seq(S) /\ Len(a \o b) = Len(s) - 1
  <2>1. a \o b \in Seq(S) /\ Len(a \o b) = Len(a) + Len(b)
    BY <1>4, <1>5, ConcatProperties
  <2> QED
    BY <1>1, <1>4, <1>5, <2>1
<1>7. ASSUME NEW i \in 1..Len(s) - 1
      PROVE  (a \o b)[i] = IF i < n THEN s[i] ELSE s[i + 1]
  <2>1. (a \o b)[i] = IF i <= Len(a) THEN a[i] ELSE b[i - Len(a)]
    BY <1>1, <1>4, <1>5, <1>6, ConcatProperties
  <2>2. CASE i < n
    BY <1>1, <1>4, <2>1, <2>2
  <2>3. CASE ~(i < n)
    <3>1. i - (n - 1) \in 1..Len(s) - n /\ n + (i - (n - 1)) = i + 1 /\ ~(i <= n - 1)
      BY <1>1, <2>3
    <3> QED
      BY <1>4, <1>5, <2>1, <2>3, <3>1
  <2> QED
    BY <2>2, <2>3
<1> QED
  BY <1>6, <1>7 DEF Erased, a, b

\* A worker is accepted, and one that is done is erased.
LEMMA AcceptKeeps ==
  ASSUME ServerTypeOK, WorkersInv, Accept PROVE WorkersInv'
<1>1. /\ backlog \in Seq(Connections) /\ backlog # <<>> /\ workers \in Seq(Connections)
      /\ mainLoop = "accept" /\ mainLoop' = "sweep" /\ backlog' = Tail(backlog)
      /\ Listed /\ ListedOnce
  BY DEF ServerTypeOK, Accept, GoTo, WorkersInv
<1> PICK k \in Connections : k = Head(backlog)
  BY <1>1
<1>2. /\ k = backlog[1] /\ 1 \in 1..Len(backlog) /\ Len(backlog) \in Nat
      /\ Len(backlog') = Len(backlog) - 1
      /\ \A i \in 1..Len(backlog') : backlog'[i] = backlog[i + 1] /\ i + 1 \in 1..Len(backlog) /\ i \in Nat
  BY <1>1
<1>3. ws[k] = "None" /\ ~HasThread(k)
  BY <1>2 DEF WorkersInv, WaitsOnce, HasThread
<1>4. \A j \in Connections : j # k => ws'[j] = ws[j]
  BY DEF Accept, ServerTypeOK
<1>5. WaitsOnce'
  <2>1. \A i \in 1..Len(backlog') : backlog'[i] # k
    BY <1>2 DEF WorkersInv, WaitsOnce
  <2>2. \A i \in 1..Len(backlog') : backlog'[i] \in Connections
    BY <1>1, <1>2
  <2>3. \A i, j \in 1..Len(backlog') : backlog'[i] = backlog'[j] => i = j
    BY <1>2 DEF WorkersInv, WaitsOnce
  <2>4. \A i \in 1..Len(backlog') : ws'[backlog'[i]] = "None"
    BY <1>2, <1>4, <2>1, <2>2 DEF WorkersInv, WaitsOnce
  <2> QED
    BY <2>3, <2>4 DEF WaitsOnce
<1>6. Listed' /\ ListedOnce'
  <2>0. \A i \in 1..Len(workers) : workers[i] # k
    BY <1>1, <1>3 DEF Listed
  <2>1. CASE ws' = [ws EXCEPT ![k] = "Ready"] /\ workers' = Append(workers, k)
    <3>1. /\ Len(workers') = Len(workers) + 1 /\ workers'[Len(workers) + 1] = k
          /\ \A i \in 1..Len(workers) : workers'[i] = workers[i]
          /\ Len(workers) \in Nat
      BY <1>1, <2>1
    <3>2. \A i \in 1..Len(workers') : i \in 1..Len(workers) \/ i = Len(workers) + 1
      BY <3>1
    <3>3. ListedOnce'
      BY <1>1, <2>0, <3>1, <3>2 DEF ListedOnce
    <3>4. ws'[k] = "Ready"
      BY <2>1 DEF ServerTypeOK
    <3>5. Len(workers) + 1 \in 1..Len(workers') /\ \A i \in 1..Len(workers) : i \in 1..Len(workers')
      BY <3>1
    <3>6. ASSUME NEW j \in Connections
          PROVE  HasThread(j)' <=> \E i \in 1..Len(workers') : workers'[i] = j
      <4>1. CASE j = k
        BY <3>1, <3>4, <3>5, <4>1 DEF HasThread
      <4>2. CASE j # k
        <5>1. HasThread(j)' <=> HasThread(j)
          BY <1>4, <4>2 DEF HasThread
        <5>2. HasThread(j) <=> \E i \in 1..Len(workers) : workers[i] = j
          BY <1>1 DEF Listed
        <5> QED
          BY <3>1, <3>2, <3>5, <4>2, <5>1, <5>2
      <4> QED
        BY <4>1, <4>2
    <3> QED
      BY <3>3, <3>6 DEF Listed
  <2>2. CASE ws' = [ws EXCEPT ![k] = "Refused"] /\ workers' = workers
    <3>1. \A j \in Connections : HasThread(j)' <=> HasThread(j)
      BY <1>3, <1>4, <2>2 DEF HasThread, ServerTypeOK
    <3> QED
      BY <1>1, <2>2, <3>1 DEF Listed, ListedOnce
  <2> QED
    BY <2>1, <2>2 DEF Accept
<1> QED
  BY <1>1, <1>5, <1>6 DEF WorkersInv, PassInv

LEMMA EraseKeeps ==
  ASSUME ServerTypeOK, WorkersInv, mainLoop = "sweep", at \in 1..Len(workers),
         ws[workers[at]] = "Exited", ws' = [ws EXCEPT ![workers[at]] = "Deleted"],
         workers' = Erased(workers, at), UNCHANGED <<mainLoop, backlog>>
  PROVE  WorkersInv'
<1> PICK k \in Connections : k = workers[at]
  BY DEF ServerTypeOK
<1>1. /\ workers \in Seq(Connections) /\ Len(workers) \in Nat /\ Listed /\ ListedOnce
      /\ \A j \in Connections : j # k => ws'[j] = ws[j]
  BY DEF ServerTypeOK, WorkersInv
<1>2. /\ Len(workers') = Len(workers) - 1
      /\ \A i \in 1..Len(workers) - 1 : workers'[i] = IF i < at THEN workers[i] ELSE workers[i + 1]
  BY <1>1, ErasedElements
<1>3. WaitsOnce'
  <2>1. \A i \in 1..Len(backlog) : backlog[i] # k /\ backlog[i] \in Connections
    BY DEF WorkersInv, WaitsOnce, ServerTypeOK
  <2> QED
    BY <1>1, <2>1 DEF WorkersInv, WaitsOnce
<1>4. ListedOnce'
  <2> SUFFICES ASSUME NEW i \in 1..Len(workers) - 1, NEW j \in 1..Len(workers) - 1,
                      workers'[i] = workers'[j]
               PROVE  i = j
    BY <1>2 DEF ListedOnce
  <2> DEFINE old(n) == IF n < at THEN n ELSE n + 1
  <2>1. old(i) \in 1..Len(workers) /\ old(j) \in 1..Len(workers)
    BY <1>1
  <2>2. workers'[i] = workers[old(i)] /\ workers'[j] = workers[old(j)]
    BY <1>2
  <2>3. old(i) = old(j)
    BY <1>1, <2>1, <2>2 DEF ListedOnce
  <2> QED
    BY <1>1, <2>3
<1>5. ASSUME NEW j \in Connections
      PROVE  HasThread(j)' <=> \E i \in 1..Len(workers') : workers'[i] = j
  <2>1. CASE j = k
    <3>1. ~HasThread(j)'
      BY <2>1 DEF HasThread, ServerTypeOK
    <3>2. ASSUME NEW i \in 1..Len(workers) - 1 PROVE workers'[i] # k
      <4>1. CASE i < at
        BY <1>1, <1>2, <4>1 DEF ListedOnce
      <4>2. CASE ~(i < at)
        <5>1. i + 1 \in 1..Len(workers) /\ i + 1 # at
          BY <1>1, <4>2
        <5> QED
          BY <1>1, <1>2, <4>2, <5>1 DEF ListedOnce
      <4> QED
        BY <4>1, <4>2
    <3> QED
      BY <1>2, <2>1, <3>1, <3>2
  <2>2. CASE j # k
    <3>1. HasThread(j)' <=> \E i \in 1..Len(workers) : workers[i] = j
      BY <1>1, <2>2 DEF HasThread, Listed
    <3>2. ASSUME NEW i \in 1..Len(workers), workers[i] = j
          PROVE  \E n \in 1..Len(workers) - 1 : workers'[n] = j
      <4>1. CASE i < at
        <5>1. i \in 1..Len(workers) - 1
          BY <1>1, <4>1
        <5> QED
          BY <1>2, <3>2, <4>1, <5>1
      <4>2. CASE i > at
        <5>1. i - 1 \in 1..Len(workers) - 1 /\ ~(i - 1 < at) /\ i - 1 + 1 = i
          BY <1>1, <4>2
        <5> QED
          BY <1>2, <3>2, <5>1
      <4>3. i # at
        BY <2>2, <3>2
      <4> QED
        BY <1>1, <4>1, <4>2, <4>3
    <3>3. ASSUME NEW n \in 1..Len(workers) - 1, workers'[n] = j
          PROVE  \E i \in 1..Len(workers) : workers[i] = j
      <4>1. n \in 1..Len(workers) /\ n + 1 \in 1..Len(workers)
        BY <1>1
      <4> QED
        BY <1>2, <3>3, <4>1
    <3> QED
      BY <1>2, <3>1, <3>2, <3>3
  <2> QED
    BY <2>1, <2>2
<1> QED
  BY <1>3, <1>4, <1>5 DEF WorkersInv, PassInv, Listed

\* The status of a worker changes while its thread runs.
LEMMA StatusKeeps ==
  ASSUME ServerTypeOK, WorkersInv, NEW k \in Connections, NEW from, NEW to, SetStatus(k, from, to),
         from \in {"Ready", "Running", "Done"}, to \in {"Running", "Done", "Exited"}
  PROVE  WorkersInv'
<1>1. /\ ws[k] = from /\ ws'[k] = to /\ \A j \in Connections : j # k => ws'[j] = ws[j]
      /\ UNCHANGED <<mainLoop, at, backlog, workers, ps>>
  BY DEF SetStatus, ServerTypeOK
<1>2. \A j \in Connections : HasThread(j)' <=> HasThread(j)
  BY <1>1 DEF HasThread
<1>3. /\ \A i \in 1..Len(backlog) : backlog[i] \in Connections
      /\ \A i \in 1..Len(workers) : workers[i] \in Connections
  BY DEF ServerTypeOK
<1>4. WaitsOnce'
  BY <1>1, <1>3 DEF WorkersInv, WaitsOnce
<1>5. PassInv'
  BY <1>1, <1>3 DEF WorkersInv, PassInv
<1>6. Listed' <=> Listed
  BY <1>1, <1>2 DEF Listed
<1> QED
  BY <1>1, <1>2, <1>4, <1>5, <1>6 DEF WorkersInv, ListedOnce

LEMMA ServerKeeps ==
  ASSUME ServerTypeOK, WorkersInv,
         \/ MainLoop \/ RequestStop
         \/ \E k \in Connections : RunBegins(k) \/ RunEnds(k) \/ ThreadExits(k)
  PROVE  WorkersInv'
<1>0. /\ \A i \in 1..Len(workers) : workers[i] \in Connections
      /\ Len(workers) \in Nat /\ at \in Nat \ {0}
  BY DEF ServerTypeOK
<1>1. CASE Accept
  BY <1>1, AcceptKeeps
\* A step that changes neither a list nor a worker, and goes on.
<1>2. ASSUME UNCHANGED <<backlog, workers, ws>>, PassInv', mainLoop # "ended", mainLoop' # "ended"
      PROVE  WorkersInv'
  BY <1>2 DEF WorkersInv, WaitsOnce, Listed, ListedOnce, HasThread
<1>3. CASE AcceptTimeout
  BY <1>2, <1>3 DEF AcceptTimeout, GoTo, PassInv
<1>4. CASE SweepNext
  <2>1. CASE ws[workers[at]] \in {"Done", "Exited"}
    <3>1. /\ mainLoop = "sweep" /\ at <= Len(workers) /\ ws[workers[at]] = "Exited"
          /\ ws' = [ws EXCEPT ![workers[at]] = "Deleted"]
          /\ workers' = Erased(workers, at) /\ UNCHANGED <<mainLoop, backlog>>
      BY <1>4, <2>1 DEF SweepNext, Joined, Erased
    <3>2. at \in 1..Len(workers)
      BY <1>0, <3>1
    <3> QED
      BY <3>1, <3>2, EraseKeeps
  <2>2. CASE ws[workers[at]] \notin {"Done", "Exited"}
    BY <1>2, <1>4, <2>2 DEF SweepNext, PassInv
  <2> QED
    BY <2>1, <2>2
<1>5. CASE SweepEnds
  BY <1>0, <1>2, <1>5 DEF SweepEnds, GoTo, PassInv
<1>6. CASE RequestQuit
  <2>1. CASE at <= Len(workers)
    <3>1. /\ ps' = [ps EXCEPT ![workers[at]] = "Quit"] /\ at' = at + 1 /\ mainLoop = "quit"
          /\ UNCHANGED <<mainLoop, backlog, workers, ws>>
      BY <1>6, <2>1 DEF RequestQuit
    <3>2. ASSUME NEW i \in 1..Len(workers), i < at + 1 PROVE ps'[workers[i]] = "Quit"
      <4>1. i = at \/ i < at
        BY <1>0, <3>2
      <4>2. i < at => ps[workers[i]] = "Quit"
        BY <3>1 DEF WorkersInv, PassInv
      <4> QED
        BY <1>0, <2>1, <3>1, <4>1, <4>2 DEF ServerTypeOK
    <3> QED
      BY <1>2, <3>1, <3>2 DEF PassInv
  <2>2. CASE ~(at <= Len(workers))
    <3>1. /\ mainLoop = "quit" /\ mainLoop' = "join" /\ at' = 1
          /\ UNCHANGED <<backlog, workers, ws, ps>>
      BY <1>6, <2>2 DEF RequestQuit, GoTo
    <3>2. \A i \in 1..Len(workers) : i < at /\ ~(i < 1)
      BY <1>0, <2>2
    <3>3. \A i \in 1..Len(workers) : ps[workers[i]] = "Quit"
      BY <3>1, <3>2 DEF WorkersInv, PassInv
    <3> QED
      BY <1>2, <3>1, <3>2, <3>3 DEF PassInv
  <2> QED
    BY <2>1, <2>2
<1>7. CASE JoinAll
  <2>1. CASE at <= Len(workers)
    <3>1. /\ ws[workers[at]] = "Exited" /\ at' = at + 1 /\ mainLoop = "join"
          /\ UNCHANGED <<mainLoop, backlog, workers, ws, ps>>
      BY <1>7, <2>1 DEF JoinAll, Joined
    <3>2. ASSUME NEW i \in 1..Len(workers)
          PROVE  ps[workers[i]] = "Quit" /\ (i < at + 1 => ws[workers[i]] = "Exited")
      <4>1. i < at + 1 => i = at \/ i < at
        BY <1>0
      <4> QED
        BY <3>1, <4>1 DEF WorkersInv, PassInv
    <3> QED
      BY <1>2, <3>1, <3>2 DEF PassInv
  <2>2. CASE ~(at <= Len(workers))
    <3>1. /\ mainLoop = "join" /\ mainLoop' = "ended" /\ UNCHANGED backlog
          /\ ws' = [k \in Connections |-> IF ws[k] = "Exited" THEN "Deleted" ELSE ws[k]]
      BY <1>7, <2>2 DEF JoinAll, GoTo
    <3>2. \A i \in 1..Len(workers) : ws[workers[i]] = "Exited"
      <4>1. \A i \in 1..Len(workers) : i < at
        BY <1>0, <2>2
      <4> QED
        BY <3>1, <4>1 DEF WorkersInv, PassInv
    <3>3. \A k \in Connections : HasThread(k) => ws[k] = "Exited"
      BY <3>1, <3>2 DEF WorkersInv, Listed
    <3>4. \A k \in Connections : ~HasThread(k)'
      BY <3>1, <3>3 DEF HasThread
    <3>5. WaitsOnce'
      BY <3>1 DEF WorkersInv, WaitsOnce, ServerTypeOK
    <3> QED
      BY <3>1, <3>4, <3>5 DEF WorkersInv, PassInv
  <2> QED
    BY <2>1, <2>2
<1>8. CASE RequestStop
  BY <1>8 DEF RequestStop, WorkersInv, WaitsOnce, PassInv, Listed, ListedOnce, HasThread
<1>9. ASSUME NEW k \in Connections, RunBegins(k) \/ RunEnds(k) \/ ThreadExits(k)
      PROVE  WorkersInv'
  BY <1>9, StatusKeeps DEF RunBegins, RunEnds, ThreadExits
<1> QED
  BY <1>1, <1>3, <1>4, <1>5, <1>6, <1>7, <1>8, <1>9 DEF MainLoop

LEMMA ConnectKeeps ==
  ASSUME SessionIInv, WorkersInv, NEW k \in Connections, Connect(k)
  PROVE  WorkersInv'
<1>1. /\ backlog \in Seq(Connections) /\ backlog' = Append(backlog, k) /\ client[k].pc = "new"
      /\ UNCHANGED <<mainLoop, at, workers, ws, ps>> /\ Len(backlog) \in Nat
  BY DEF Connect, SessionIInv, ServerTypeOK
<1>2. ws[k] = "None" /\ \A i \in 1..Len(backlog) : backlog[i] # k
  BY <1>1 DEF SessionIInv, Unopened
<1>3. /\ Len(backlog') = Len(backlog) + 1 /\ backlog'[Len(backlog) + 1] = k
      /\ \A i \in 1..Len(backlog) : backlog'[i] = backlog[i]
  BY <1>1
<1>4. \A i \in 1..Len(backlog') : i \in 1..Len(backlog) \/ i = Len(backlog) + 1
  BY <1>1, <1>3
<1>5. WaitsOnce'
  BY <1>1, <1>2, <1>3, <1>4 DEF WorkersInv, WaitsOnce
<1> QED
  BY <1>1, <1>5 DEF WorkersInv, PassInv, Listed, ListedOnce, HasThread

LEMMA WorkersStep == SessionIInv /\ WorkersInv /\ [SessionNext]_netVars => WorkersInv'
<1> SUFFICES ASSUME SessionIInv, WorkersInv, [SessionNext]_netVars PROVE WorkersInv'
  OBVIOUS
<1>0. ServerTypeOK
  BY DEF SessionIInv
<1>1. CASE UNCHANGED serverVars
  BY <1>1 DEF serverVars, WorkersInv, WaitsOnce, PassInv, Listed, ListedOnce, HasThread
<1>2. CASE MainLoop \/ RequestStop
  BY <1>0, <1>2, ServerKeeps
<1>3. ASSUME NEW k \in Connections, Connect(k) PROVE WorkersInv'
  BY <1>3, ConnectKeeps
<1>4. ASSUME NEW k \in Connections, WriteThrows(k) PROVE WorkersInv'
  <2>1. ws[k] = "Running" /\ Terminate
    BY <1>4 DEF WriteThrows, Reads, Waits, Running
  <2>2. HasThread(k)
    BY <2>1 DEF HasThread
  <2>3. mainLoop # "ended"
    BY <2>2 DEF WorkersInv
  <2> QED
    BY <2>1, <2>3
    DEF Terminate, WorkersInv, WaitsOnce, PassInv, Listed, ListedOnce, HasThread
<1>5. ASSUME NEW k \in Connections, ThreadSteps(k) PROVE WorkersInv'
  BY <1>0, <1>5, ServerKeeps DEF ThreadSteps
<1>6. ASSUME NEW k \in Connections,
             \/ ClientCloses(k) \/ ClientSteps(k)
             \/ \E kind \in {"ask", "tell", "bye"} : SendRequest(k, kind)
             \/ Answers(k) \/ GivesUp(k) \/ Interrupted(k)
      PROVE  UNCHANGED serverVars
  BY <1>6 DEF ClientCloses, ClientSteps, SendKeys, SendProof, FinishAuth, ReceiveResponse,
     SendRequest, Answers, AuthStep1, AuthStep2, AuthStep3, ReceiveRequest, Respond, GivesUp,
     Interrupted
<1>7. CASE UNCHANGED netVars
  BY <1>1, <1>7 DEF netVars
<1> QED
  BY <1>1, <1>2, <1>3, <1>4, <1>5, <1>6, <1>7 DEF SessionNext

(* mainLoop(): whatever the workers do, none is forgotten or kept twice,   *)
(* all are asked to quit before the first is joined, and when the server   *)
(* has ended there is no thread left that could use a deleted worker.      *)
THEOREM NoWorkerForgotten == SessionSpec => [](KeptOnce /\ AskedFirst /\ NoneLeft)
<1>1. SessionInit => WorkersInv
  BY DEF SessionInit, ServerInit, WorkersInv, WaitsOnce, PassInv, Listed, ListedOnce, HasThread
<1>2. SessionIInv /\ WorkersInv => KeptOnce /\ AskedFirst /\ NoneLeft
  BY KeptByInv DEF SessionIInv
<1> QED
  BY <1>1, <1>2, WorkersStep, SessionInvariant, PTL DEF SessionSpec
=============================================================================
