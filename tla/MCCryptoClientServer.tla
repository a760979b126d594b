------------------------ MODULE MCCryptoClientServer ------------------------
(* Two connections, so that one worker is accepted, joined and deleted     *)
(* while the other is at work.  One client sends up to two requests, the   *)
(* other none.                                                             *)
EXTENDS CryptoClientServer

CONSTANTS k1, k2

BothClients == {k1, k2}
TwoAndNone == [k \in BothClients |-> IF k = k1 THEN 2 ELSE 0]
=============================================================================
