------------------------------ MODULE MCPipes ------------------------------
(***************************************************************************)
(* The classes that talk through pipes, in one TLC instance: a behaviour   *)
(* is one of ThreadSafeQueuePipe or one of SubProcess.  The two share no   *)
(* state; the one that is not the subject of a behaviour stays as it is    *)
(* when that begins.                                                       *)
(***************************************************************************)
EXTENDS ThreadSafeQueuePipe, MCSubProcess

CONSTANTS w1, w2, x, y
TwoWriters == {w1, w2}
TwoElements == {x, y}

VARIABLE subject
pipesVars == <<subject, vars, commandVars>>

PipesInit ==
  /\ subject \in {"queue", "command"}
  /\ script \in IF subject = "command" THEN Scripts ELSE {<<>>}
  /\ Init /\ CommandInit

PipesNext ==
  /\ UNCHANGED subject
  /\ \/ subject = "queue" /\ Next /\ UNCHANGED commandVars
     \/ subject = "command" /\ CommandNext /\ UNCHANGED vars

\* Fairness of the two, where the parent of the command, which runs from the
\* beginning, is scheduled in behaviours of its own.
PipesSpec ==
  /\ PipesInit /\ [][PipesNext]_pipesVars
  /\ Fairness
  /\ WF_commandVars(subject = "command" /\ Parent) /\ PollFairness /\ ChildFairness

(* Whenever execCmd() is called, neither process keeps the other waiting   *)
(* for ever: the call ends, and so does the command.                       *)
CommandsEnd == subject = "command" => BothEnd
=============================================================================
