------------------------ MODULE MCCyclicWorkerThread ------------------------
(* TLC instances of CyclicWorkerThread. *)
EXTENDS CyclicWorkerThread

CONSTANTS c1, c2

OneController == {c1}
TwoControllers == {c1, c2}
=============================================================================
