---------------------- MODULE MCManagedFileDescriptor ----------------------
(* TLC instances of ManagedFileDescriptor: a descriptor is moved from its   *)
(* first owner to a default-constructed object, perhaps more than once.    *)
EXTENDS ManagedFileDescriptor, TLC

CONSTANTS t1, t2, oA, oB, fA

OneFd == (oA :> fA @@ oB :> Nil)
MoveAB == {<<oA, oB>>}
SomeSizes == {<<0, 0>>, <<2, 2>>, <<3, 0>>}
ThreeBytes == (fA :> 3)

\* One thread, one object that keeps its descriptor.
OneFdOnly == (oA :> fA)
NoMoves == {}
OneByte == {<<0, 0>>}
=============================================================================
