-------------------------- MODULE MCFilesAndTexts --------------------------
(***************************************************************************)
(* The class that reads and writes descriptors and the one that reads      *)
(* template files, in one TLC instance: a behaviour is one of              *)
(* ManagedFileDescriptor or one of TemplateStore.  The two share no state; *)
(* the one that is not the subject of a behaviour stays as it is when that *)
(* begins.                                                                 *)
(***************************************************************************)
EXTENDS MCManagedFileDescriptor, MCTemplateStore

VARIABLE subject
filesVars == <<subject, fdVars, storeVars>>

FilesInit ==
  /\ subject \in {"descriptor", "store"}
  /\ files \in IF subject = "store" THEN Files ELSE {[p \in {A} |-> <<Char>>]}
  /\ FdInit /\ StoreInit

FilesNext ==
  /\ UNCHANGED subject
  /\ \/ subject = "descriptor" /\ FdNext /\ UNCHANGED storeVars
     \/ subject = "store" /\ StoreNext /\ UNCHANGED fdVars

\* Fairness of calls that have begun: those of the threads that share a
\* descriptor, and get(), which is plain sequential code.
FilesSpec ==
  FilesInit /\ [][FilesNext]_filesVars /\ FdFairness /\ WF_storeVars(Expand)
=============================================================================
