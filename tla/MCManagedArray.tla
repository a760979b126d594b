--------------------------- MODULE MCManagedArray ---------------------------
(* Three arrays and a buffer of the caller: a copy, its source and a       *)
(* bystander.  The names of the arrays and the elements are interchangeable *)
(* but for the element that new memory is filled with.                     *)
EXTENDS ManagedArray, TLC

Interchangeable == Permutations(Arrays)
=============================================================================
