------------------------------- MODULE MCData -------------------------------
(***************************************************************************)
(* The classes that hold data and are called by one thread, in one TLC     *)
(* instance: a behaviour is one of CsvTable, PasswordProtectedSecret or    *)
(* ManagedArray.  They share no state; those that are not the subject of a *)
(* behaviour stay as they are when it begins.                              *)
(*                                                                         *)
(* Of the secret: two passwords, two secrets, two strengths, and a bound   *)
(* on the random values that allows for two objects with an encryption     *)
(* each and for a change of the password between two encryptions.  No      *)
(* operation compares these values but for equality.                       *)
(***************************************************************************)
EXTENDS CsvTable, PasswordProtectedSecret, ManagedArray, TLC

CONSTANTS n1, n2, n3, n4, v1, v2

Interchangeable ==
  Permutations(Passwords) \cup Permutations(Secrets) \cup Permutations(Strengths)

VARIABLE subject
dataVars == <<subject, vars, secretVars, arrayVars>>

DataInit ==
  /\ subject \in {"table", "secret", "array"}
  /\ heap \in IF subject = "array" THEN [Buffers -> [1..MaxSize -> Elements]]
              ELSE {[b \in Buffers |-> [i \in 1..MaxSize |-> 0]]}
  /\ Init /\ SecretInit /\ ArrayInit

\* A table whose iterator has left its row stops there.
DataNext ==
  /\ UNCHANGED subject
  /\ \/ subject = "table" /\ Next /\ UNCHANGED <<secretVars, arrayVars>>
     \/ subject = "table" /\ ~defined /\ UNCHANGED <<vars, secretVars, arrayVars>>
     \/ subject = "secret" /\ SecretNext /\ UNCHANGED <<vars, arrayVars>>
     \/ subject = "array" /\ ArrayNext /\ UNCHANGED <<vars, secretVars>>

DataSpec == DataInit /\ [][DataNext]_dataVars
=============================================================================
