------------------------- MODULE CryptoClientServer -------------------------
(***************************************************************************)
(* CryptoServer and CryptoClient (Net/CryptoClientServer) on connections   *)
(* of a TcpServer: three steps of authentication with signed challenges    *)
(* and a Diffie-Hellman exchange, then encrypted requests and responses    *)
(* under one nonce that both sides count.  Cryptography is symbolic: a     *)
(* message opens with the key and the nonce it was sealed with, and what   *)
(* is drawn at random is new.  Both parties run this code.                 *)
(***************************************************************************)
EXTENDS TcpServer, FiniteSets

CONSTANTS
  MaxRequests      \* bound: for each connection the requests of the client

ASSUME RequestAssumption == MaxRequests \in [Connections -> Nat]

VARIABLES
  client,          \* per connection the CryptoClient
  server,          \* per connection the CryptoServer, a worker
  toServer, toClient, \* per connection the messages under way
  sealed           \* every message that was ever encrypted (history)

sessionVars == <<client, server, toServer, toClient, sealed>>
netVars == <<serverVars, sessionVars>>

None == <<>>

(* What one side draws at random is named by the connection and the side.  *)
Drawn(k, what) == <<k, what>>
Nonce(k, what, n) == [drawn |-> Drawn(k, what), count |-> n]

(* increment(), and the slip that leaves a nonce as it is.                 *)
Same(nonce, n) == nonce
Plus(nonce, n) == [nonce EXCEPT !.count = @ + n]

(* crypto_box_easy() between the two key pairs of a connection and         *)
(* crypto_secretbox_easy(): what opens them.                               *)
Box(k, nonce, text) == [key |-> <<k, "keyPairs">>, nonce |-> nonce, text |-> text]
SecretBox(key, nonce, text) == [key |-> key, nonce |-> nonce, text |-> text]
Opens(box, key, nonce) == box.key = key /\ box.nonce = nonce

(* getSharedSecret(): a hash over both public keys, the client's first.    *)
SharedSecret(clientDh, serverDh) == <<clientDh, serverDh>>

-----------------------------------------------------------------------------
NewClient == [pc |-> "new", asym |-> None, sym |-> None, key |-> None, sent |-> 0]
NewServer == [pc |-> "step1", asym |-> None, sym |-> None, key |-> None, request |-> None]

SessionInit ==
  /\ ServerInit
  /\ client = [k \in Connections |-> NewClient]
  /\ server = [k \in Connections |-> NewServer]
  /\ toServer = [k \in Connections |-> <<>>]
  /\ toClient = [k \in Connections |-> <<>>]
  /\ sealed = {}

Requests(k) == [kind : {"ask", "tell", "bye"}, number : 1..MaxRequests[k]]

SessionTypeOK ==
  /\ ServerTypeOK
  /\ \A k \in Connections :
       /\ client[k].pc \in {"new", "greeted", "keysSent", "proofSent",
                            "session", "waiting", "failed", "closed"}
       /\ client[k].sent \in 0..MaxRequests[k]
       /\ server[k].pc \in {"step1", "step2", "step3", "serve", "handle", "leaving", "left"}
       /\ Len(toServer[k]) <= 3 + MaxRequests[k] /\ Len(toClient[k]) <= 1
       /\ server[k].pc = "handle" => server[k].request \in Requests(k)

(* A message is read whole; one that is written when the other side has    *)
(* closed the connection, or not read by then, is lost.                    *)
FromClient(k) == Head(toServer[k])
FromServer(k) == Head(toClient[k])
ReadFromClient(k) == toServer' = [toServer EXCEPT ![k] = Tail(@)]
WriteToClient(k, m) ==
  toClient' = IF client[k].pc = "closed" THEN toClient ELSE [toClient EXCEPT ![k] = Append(@, m)]
ReadFromServer(k) == toClient' = [toClient EXCEPT ![k] = Tail(@)]
WriteToServer(k, m) ==
  toServer' = IF server[k].pc = "left" THEN toServer ELSE [toServer EXCEPT ![k] = Append(@, m)]

(* The end of one side: of a client, and closeSocket() of a worker.        *)
CloseClient(k) ==
  /\ client' = [client EXCEPT ![k] = [NewClient EXCEPT !.pc = "closed"]]
  /\ toClient' = [toClient EXCEPT ![k] = <<>>]
CloseServer(k) ==
  /\ server' = [server EXCEPT ![k] = [NewServer EXCEPT !.pc = "left"]]
  /\ toServer' = [toServer EXCEPT ![k] = <<>>]

-----------------------------------------------------------------------------
(* The client.  It connects and sends the magic phrase.                    *)
Connect(k) ==
  /\ client[k].pc = "new" /\ Len(backlog) < maxConCount
  /\ mainLoop \notin {"ended", "terminated"}
  /\ backlog' = Append(backlog, k)
  /\ client' = [client EXCEPT ![k].pc = "greeted"]
  /\ WriteToServer(k, [type |-> "phrase"])
  /\ UNCHANGED <<mainLoop, at, workers, isStopRequested, ws, ps, server, toClient, sealed>>

(* authStep2(), first half: its public key and a challenge.                *)
SendKeys(k) ==
  /\ client[k].pc = "greeted" /\ toClient[k] # <<>>
  /\ ReadFromServer(k)
  /\ client' = [client EXCEPT ![k].pc = "keysSent"]
  /\ WriteToServer(k, [type |-> "keys", challenge |-> Drawn(k, "clientChallenge")])
  /\ UNCHANGED <<serverVars, server, sealed>>

(* authStep2(), second half, and authStep3(): the server has signed the    *)
(* challenge; the client signs the one of the server and its DH key, each  *)
(* under the next nonce, and draws the nonce of the session.               *)
SendProof(k) ==
  /\ client[k].pc = "keysSent" /\ toClient[k] # <<>>
  /\ ReadFromServer(k)
  /\ LET m == FromServer(k)
         proof == Box(k, Plus(m.nonce, 1), m.challenge)
         dh == Box(k, Plus(m.nonce, 2), Drawn(k, "clientDh"))
         sym == Nonce(k, "session", 0)
     IN IF Opens(m.proof, <<k, "keyPairs">>, m.nonce)
           /\ m.proof.text = Drawn(k, "clientChallenge")
          THEN /\ client' = [client EXCEPT ![k] = [@ EXCEPT !.pc = "proofSent",
                                !.asym = Plus(m.nonce, 2), !.sym = sym]]
               /\ sealed' = sealed \cup {proof, dh}
               /\ WriteToServer(k, [type |-> "proof", proof |-> proof, sym |-> sym, dh |-> dh])
          ELSE /\ client' = [client EXCEPT ![k].pc = "failed"]
               /\ UNCHANGED <<sealed, toServer>>
  /\ UNCHANGED <<serverVars, server>>

(* authStep3(), second half: the key of the session.                       *)
FinishAuth(k) ==
  /\ client[k].pc = "proofSent" /\ toClient[k] # <<>>
  /\ ReadFromServer(k)
  /\ LET m == FromServer(k) nonce == Plus(client[k].asym, 1)
     IN client' = [client EXCEPT ![k] =
          IF Opens(m.dh, <<k, "keyPairs">>, nonce)
            THEN [@ EXCEPT !.pc = "session", !.asym = nonce,
                    !.key = SharedSecret(Drawn(k, "clientDh"), m.dh.text)]
            ELSE [@ EXCEPT !.pc = "failed"]]
  /\ UNCHANGED <<serverVars, server, toServer, sealed>>

(* encryptAndWrite(): a request that is answered, one that is not, or the  *)
(* last one.  ASSUMED of the application: it waits for every answer before *)
(* it writes again.                                                        *)
SendRequest(k, kind) ==
  /\ client[k].pc = "session" /\ client[k].sent < MaxRequests[k]
  /\ LET sym == Plus(client[k].sym, 1)
         m == SecretBox(client[k].key, sym, <<"request", [kind |-> kind, number |-> client[k].sent + 1]>>)
     IN /\ client' = [client EXCEPT ![k] =
             [@ EXCEPT !.sym = sym, !.pc = IF kind = "tell" THEN "session" ELSE "waiting",
                       !.sent = IF kind = "bye" THEN MaxRequests[k] ELSE client[k].sent + 1]]
        /\ sealed' = sealed \cup {m}
        /\ WriteToServer(k, m)
  /\ UNCHANGED <<serverVars, server, toClient>>

(* readAndDecrypt() of the client; one that times out changes nothing.     *)
ReceiveResponse(k) ==
  /\ client[k].pc = "waiting" /\ toClient[k] # <<>>
  /\ ReadFromServer(k)
  /\ LET sym == Plus(client[k].sym, 1)
     IN client' = [client EXCEPT ![k] = [@ EXCEPT !.sym = sym,
          !.pc = IF Opens(FromServer(k), client[k].key, sym) THEN "session" ELSE "failed"]]
  /\ UNCHANGED <<serverVars, server, toServer, sealed>>

(* The application is done, or a step of the authentication has timed out  *)
(* or refused the server's key.                                            *)
ClientCloses(k) ==
  /\ client[k].pc \notin {"new", "closed"}
  /\ CloseClient(k)
  /\ UNCHANGED <<serverVars, server, toServer, sealed>>

-----------------------------------------------------------------------------
(* The worker of the server.  preemptiveRead() looks at the request to     *)
(* quit before and after it reads.                                         *)
Waits(k, step) == Running(k) /\ server[k].pc = step
Reads(k, step) == Waits(k, step) /\ ps[k] = "Continue" /\ toServer[k] # <<>>

AuthStep1(k) ==
  /\ Reads(k, "step1")
  /\ ReadFromClient(k)
  /\ server' = [server EXCEPT ![k].pc = "step2"]
  /\ WriteToClient(k, [type |-> "OK"])
  /\ UNCHANGED <<serverVars, client, sealed>>

AuthStep2(k) ==
  /\ Reads(k, "step2")
  /\ ReadFromClient(k)
  /\ LET asym == Nonce(k, "authentication", 0)
         proof == Box(k, asym, FromClient(k).challenge)
     IN /\ server' = [server EXCEPT ![k] = [@ EXCEPT !.pc = "step3", !.asym = asym]]
        /\ sealed' = sealed \cup {proof}
        /\ WriteToClient(k, [type |-> "proof", proof |-> proof, nonce |-> asym,
                             challenge |-> Drawn(k, "serverChallenge")])
  /\ UNCHANGED <<serverVars, client>>

(* The client has signed the challenge and its DH key; the server's DH key *)
(* goes back under the nonce after theirs.                                 *)
AuthStep3(k) ==
  /\ Reads(k, "step3")
  /\ ReadFromClient(k)
  /\ LET m == FromClient(k)
         dh == Box(k, Plus(server[k].asym, 3), Drawn(k, "serverDh"))
     IN IF /\ Opens(m.proof, <<k, "keyPairs">>, Plus(server[k].asym, 1))
           /\ m.proof.text = Drawn(k, "serverChallenge")
           /\ Opens(m.dh, <<k, "keyPairs">>, Plus(server[k].asym, 2))
          THEN /\ server' = [server EXCEPT ![k] =
                    [@ EXCEPT !.pc = "serve", !.asym = dh.nonce, !.sym = m.sym,
                              !.key = SharedSecret(m.dh.text, Drawn(k, "serverDh"))]]
               /\ sealed' = sealed \cup {dh}
               /\ WriteToClient(k, [type |-> "dh", dh |-> dh])
          ELSE /\ server' = [server EXCEPT ![k].pc = "leaving"]
               /\ UNCHANGED <<sealed, toClient>>
  /\ UNCHANGED <<serverVars, client>>

(* The loop of doTheWork(): readAndDecrypt() without a time limit; the     *)
(* slip does not count the message.                                        *)
Received(k, sym) ==
  server' = [server EXCEPT ![k] = [@ EXCEPT !.sym = sym,
    !.pc = IF Opens(FromClient(k), server[k].key, Plus(server[k].sym, 1)) THEN "handle" ELSE "leaving",
    !.request = FromClient(k).text[2]]]

ReceiveWithoutCounting(k) ==
  /\ Reads(k, "serve")
  /\ ReadFromClient(k)
  /\ Received(k, server[k].sym)
  /\ UNCHANGED <<serverVars, client, toClient, sealed>>

ReceiveRequest(k) ==
  /\ Reads(k, "serve")
  /\ ReadFromClient(k)
  /\ Received(k, Plus(server[k].sym, 1))
  /\ UNCHANGED <<serverVars, client, toClient, sealed>>

(* handleRequest() returns what to do: an answer and more, an answer and   *)
(* the end, or no answer.                                                  *)
Respond(k) ==
  /\ Waits(k, "handle")
  /\ LET r == server[k].request
         sym == Plus(server[k].sym, 1)
         m == SecretBox(server[k].key, sym, <<"response", r>>)
     IN IF r.kind = "tell"
          THEN /\ server' = [server EXCEPT ![k].pc = "serve"]
               /\ UNCHANGED <<toClient, sealed>>
          ELSE /\ server' = [server EXCEPT ![k] =
                    [@ EXCEPT !.sym = sym, !.pc = IF r.kind = "bye" THEN "leaving" ELSE "serve"]]
               /\ sealed' = sealed \cup {m}
               /\ WriteToClient(k, m)
  /\ UNCHANGED <<serverVars, client, toServer>>

(* A step of the authentication times out or the client's key is refused;  *)
(* a read fails; the handler throws or wants to quit.                      *)
GivesUp(k) ==
  /\ \E step \in {"step1", "step2", "step3", "serve", "handle"} : Waits(k, step)
  /\ server' = [server EXCEPT ![k].pc = "leaving"]
  /\ UNCHANGED <<serverVars, client, toServer, toClient, sealed>>

Interrupted(k) ==
  /\ \E step \in {"step1", "step2", "step3", "serve"} : Waits(k, step)
  /\ ps[k] # "Continue"
  /\ server' = [server EXCEPT ![k].pc = "leaving"]
  /\ UNCHANGED <<serverVars, client, toServer, toClient, sealed>>

(* A write to a client that has gone may throw, in doTheWork() outside of  *)
(* any try block (or raise SIGPIPE).  ASSUMED of every other write: it     *)
(* returns, as the client reads or the socket has room for the message.    *)
WriteThrows(k) ==
  /\ client[k].pc = "closed"
  /\ \/ \E step \in {"step1", "step2", "step3"} : Reads(k, step)
     \/ Waits(k, "handle") /\ server[k].request.kind # "tell"
  /\ Terminate
  /\ UNCHANGED sessionVars

ThreadSteps(k) ==
  \/ RunBegins(k) /\ UNCHANGED sessionVars
  \/ /\ server[k].pc = "leaving"
     /\ CloseServer(k) /\ RunEnds(k)
     /\ UNCHANGED <<client, toClient, sealed>>
  \/ ThreadExits(k) /\ UNCHANGED sessionVars

Answers(k) == AuthStep1(k) \/ AuthStep2(k) \/ AuthStep3(k) \/ ReceiveRequest(k) \/ Respond(k)

ClientSteps(k) == SendKeys(k) \/ SendProof(k) \/ FinishAuth(k) \/ ReceiveResponse(k)

(* What clients do when the process of the server has ended is left out.   *)
SessionNext ==
  /\ mainLoop # "terminated"
  /\ \/ MainLoop /\ UNCHANGED sessionVars
     \/ RequestStop /\ UNCHANGED sessionVars
     \/ \E k \in Connections :
          \/ Connect(k) \/ ClientCloses(k) \/ ClientSteps(k)
          \/ \E kind \in {"ask", "tell", "bye"} : SendRequest(k, kind)
          \/ ThreadSteps(k) \/ Answers(k)
          \/ GivesUp(k) \/ Interrupted(k) \/ WriteThrows(k)

SessionSpec == SessionInit /\ [][SessionNext]_netVars

(* The threads of the server run, the handler returns and a read ends when *)
(* there is data or a request to quit; a client that waits for an answer   *)
(* reads it.                                                               *)
SessionFairSpec ==
  /\ SessionSpec
  /\ WF_netVars(MainLoop /\ UNCHANGED sessionVars)
  /\ \A k \in Connections :
       /\ WF_netVars(ThreadSteps(k)) /\ WF_netVars(Answers(k) \/ Interrupted(k))
       /\ WF_netVars(mainLoop # "terminated" /\ ReceiveResponse(k))

-----------------------------------------------------------------------------
(* Two honest parties never refuse each other's messages: when the client  *)
(* has finished the authentication so has the server, with the same key,   *)
(* and every message under way opens with the key and the nonce that its   *)
(* reader will have counted to by then.                                    *)
SessionsAgree ==
  \A k \in Connections :
    LET c == client[k] s == server[k] IN
    /\ c.pc \in {"session", "waiting"} =>
         \/ s.pc = "left"
         \/ s.pc \in {"serve", "handle", "leaving"} /\ s.key = c.key /\ c.key # None
    /\ s.pc \in {"serve", "handle"} =>
         \A i \in 1..Len(toServer[k]) : Opens(toServer[k][i], s.key, Plus(s.sym, i))
    /\ (c.pc = "proofSent" /\ toClient[k] # <<>>) =>
         Opens(FromServer(k).dh, <<k, "keyPairs">>, Plus(c.asym, 1))
    /\ (c.pc = "waiting" /\ toClient[k] # <<>>) =>
         Opens(FromServer(k), c.key, Plus(c.sym, 1))
    /\ (c.pc = "session" /\ s.pc = "serve" /\ toServer[k] = <<>>) => c.sym = s.sym

(* No nonce serves two messages under the same key, neither in the         *)
(* authentication nor in the session, where both directions share one key  *)
(* and one nonce.                                                          *)
NonceOnce ==
  \A a, b \in sealed : (a.key = b.key /\ a.nonce = b.nonce) => a = b

(* After a stop request the accepting thread asks its workers to quit      *)
(* before it joins them, ends whatever they wait for, and forgets and      *)
(* deletes none whose thread has not ended; a request is answered unless   *)
(* the worker leaves or the client closes.  All this as long as no write   *)
(* has killed the process: what is left of it then is the next property.   *)
Killed == mainLoop = "terminated"

StopEnds == isStopRequested ~> (mainLoop = "ended" \/ Killed)

RequestsAnswered ==
  \A k \in {c \in Connections : MaxRequests[c] > 0} :
    (client[k].pc = "waiting") ~>
      (client[k].pc # "waiting" \/ server[k].pc \in {"leaving", "left"} \/ Killed)

StopsUnlessKilled == [](KeptOnce /\ AskedFirst /\ NoneLeft) /\ StopEnds /\ RequestsAnswered

(* A response that cannot be sent ends the worker that sends it, and not   *)
(* the server with its other connections (doTheWork()).  VIOLATED: the     *)
(* write throws where the worker expects it to return FALSE.               *)
FailedWriteEndsItsWorker == ~Killed
=============================================================================
