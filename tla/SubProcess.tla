----------------------------- MODULE SubProcess -----------------------------
(***************************************************************************)
(* Sloppy::execCmd(): a command is run in a child process; the parent      *)
(* collects its stdout and stderr from two pipes until it hangs up.        *)
(*                                                                         *)
(* Data is counted in units of arbitrary size.  The command is any         *)
(* sequence of writes; it blocks in a write to a full pipe.                *)
(***************************************************************************)
EXTENDS Integers, Sequences

CONSTANTS
  Scripts,       \* what the command may do: sequences of "out" and "err"
  PipeCapacity,  \* room in a pipe
  ReadBufSize,   \* the most that one blockingRead() takes
  SysErrors      \* TRUE if system calls of the parent may fail

Streams == {"out", "err"}

ASSUME ScriptsAssumption == Scripts \subseteq Seq(Streams)
ASSUME PipeSizesAssumption ==
  /\ PipeCapacity \in Nat \ {0} /\ ReadBufSize \in Nat \ {0}
  /\ SysErrors \in BOOLEAN

VARIABLES
  step,      \* where the parent is
  readEnds,  \* the streams whose pipe the parent has open for reading
  writeEnds, \* the streams whose pipe the parent has open for writing
  in, hup,   \* the streams for which the last poll() reported data, hang-up
  late,      \* history: the streams whose last poll() came too late to tell
  hungUpYet, \* outHup and errHup: the streams that have hung up
  data,      \* per stream: what the parent has collected
  child,     \* the state of the child process
  script,    \* what the command still has to write
  pipe,      \* per stream: what is in the pipe
  written    \* per stream: what the command has written

parentVars == <<step, readEnds, writeEnds, in, hup, late, hungUpYet, data>>
childVars == <<child, script, written>>
commandVars == <<parentVars, childVars, pipe>>

CommandInit ==
  /\ step = "outPipe"
  /\ readEnds = {} /\ writeEnds = {}
  /\ in = {} /\ hup = {} /\ late = {} /\ hungUpYet = {}
  /\ data = [s \in Streams |-> 0]
  /\ child = "none" /\ script \in Scripts
  /\ pipe = [s \in Streams |-> 0] /\ written = [s \in Streams |-> 0]

-----------------------------------------------------------------------------
(* The parent before the loop.                                             *)

Proceed(next) == step' = next

\* pipe() for stdout.
OpenOut ==
  /\ step = "outPipe"
  /\ \/ readEnds' = {"out"} /\ writeEnds' = {"out"} /\ Proceed("errPipe")
     \/ SysErrors /\ Proceed("threw") /\ UNCHANGED <<readEnds, writeEnds>>
  /\ UNCHANGED <<in, hup, late, hungUpYet, data, childVars, pipe>>

\* pipe() for stderr; if it fails the first pipe is closed again.
OpenErr ==
  /\ step = "errPipe"
  /\ \/ readEnds' = Streams /\ writeEnds' = Streams /\ Proceed("fork")
     \/ SysErrors /\ readEnds' = {} /\ writeEnds' = {} /\ Proceed("threw")
  /\ UNCHANGED <<in, hup, late, hungUpYet, data, childVars, pipe>>

\* fork(); the parent closes its write ends.  If it fails the pipes stay open.
Fork ==
  /\ step = "fork"
  /\ \/ child' = "forked" /\ writeEnds' = {} /\ Proceed("pollOut")
     \/ SysErrors /\ Proceed("threw") /\ UNCHANGED <<child, writeEnds>>
  /\ UNCHANGED <<readEnds, in, hup, late, hungUpYet, data, script, written, pipe>>

-----------------------------------------------------------------------------
(* The loop of the parent.                                                 *)

\* The child has the write ends of both pipes until it terminates, whatever it
\* does to stdout and stderr.
ChildHasWriteEnds == child \in {"forked", "running", "unwinding"}
HangUp(s) == s \notin writeEnds /\ ~ChildHasWriteEnds
HasData(s) == pipe[s] > 0

Ready(s) == HasData(s) \/ HangUp(s)

\* What poll() tells of a stream: data, hang-up or both; nothing if its time is
\* over before; and nothing if its time is over before it has looked, which for
\* stderr, with time limit zero, takes a delay of one millisecond.
Polled(s) ==
  /\ Ready(s)
  /\ in' = IF HasData(s) THEN in \cup {s} ELSE in \ {s}
  /\ hup' = IF HangUp(s) THEN hup \cup {s} ELSE hup \ {s}
  /\ late' = late \ {s}

TooLate(s) ==
  /\ in' = in \ {s} /\ hup' = hup \ {s}
  /\ late' = IF Ready(s) THEN late \cup {s} ELSE late \ {s}

Poll(s, next) ==
  /\ Polled(s) \/ TooLate(s)
  /\ Proceed(next)
  /\ UNCHANGED <<readEnds, writeEnds, hungUpYet, data, childVars, pipe>>

\* Slip: the parent waits for stdout as long as it takes.
PollOutWaits ==
  step = "pollOut" /\ Ready("out") /\ Poll("out", "pollErr")
PollOut == step = "pollOut" /\ Poll("out", "pollErr")
PollErr == step = "pollErr" /\ Poll("err", "readOut")

\* Slip: the buffer is taken for full.
FullBuffer(s) == ReadBufSize
\* What one read() finds in the pipe.
Available(s) == IF pipe[s] < ReadBufSize THEN pipe[s] ELSE ReadBufSize

\* blockingRead() of at least one and at most ReadBufSize units.
Read(s, next) ==
  /\ IF s \in in
     THEN /\ pipe' = [pipe EXCEPT ![s] = @ - Available(s)]
          /\ data' = [data EXCEPT ![s] = @ + Available(s)]
     ELSE UNCHANGED <<pipe, data>>
  /\ Proceed(next)
  /\ UNCHANGED <<readEnds, writeEnds, in, hup, late, hungUpYet, childVars>>

ReadOut == step = "readOut" /\ Read("out", "readErr")
ReadErr == step = "readErr" /\ Read("err", "hup")

\* Slip: the loop ends with the hang-ups, whatever was read.
LoopEndsOnHangUp(h) == h = Streams
\* The loop ends when both pipes have hung up and nothing was there to read.
LoopEnds(h) == h = Streams /\ in = {}

NoteHangUps ==
  /\ step = "hup"
  /\ hungUpYet' = hungUpYet \cup hup
  /\ Proceed(IF LoopEnds(hungUpYet') THEN "wait" ELSE "pollOut")
  /\ UNCHANGED <<readEnds, writeEnds, in, hup, late, data, childVars, pipe>>

\* poll() or read() fails, e.g. interrupted by a signal: the exception leaves
\* execCmd(), the descriptors are closed, nobody waits for the child.
LoopFails ==
  /\ SysErrors /\ step \in {"pollOut", "pollErr", "readOut", "readErr"}
  /\ step = "readOut" => "out" \in in
  /\ step = "readErr" => "err" \in in
  /\ readEnds' = {} /\ Proceed("threw")
  /\ UNCHANGED <<writeEnds, in, hup, late, hungUpYet, data, childVars, pipe>>

\* waitpid(), whose result is ignored, then the result is returned.
WaitForChild ==
  /\ step = "wait"
  /\ \/ child = "exited" /\ child' = "reaped"
     \/ SysErrors /\ UNCHANGED child
  /\ readEnds' = {} /\ Proceed("returned")
  /\ UNCHANGED <<writeEnds, in, hup, late, hungUpYet, data, script, written, pipe>>

-----------------------------------------------------------------------------
(* The child.                                                              *)

\* execv() succeeds.  If it fails an exception is thrown in the child: a copy of
\* the calling program goes on, with the pipes as stdout and stderr.
Exec ==
  /\ child = "forked"
  /\ child' \in {"running"} \cup IF SysErrors THEN {"unwinding"} ELSE {}
  /\ UNCHANGED <<parentVars, script, written, pipe>>

\* The command writes what comes next if there is room and a reader.
ChildWrites ==
  /\ child \in {"running", "unwinding"} /\ script # <<>>
  /\ Head(script) \in readEnds /\ pipe[Head(script)] < PipeCapacity
  /\ pipe' = [pipe EXCEPT ![Head(script)] = @ + 1]
  /\ written' = [written EXCEPT ![Head(script)] = @ + 1]
  /\ script' = Tail(script)
  /\ UNCHANGED <<parentVars, child>>

\* The command has written everything, or crashes, or SIGPIPE ends it because
\* nobody reads its output any more.
ChildEnds ==
  /\ child \in {"running", "unwinding"}
  /\ child' = "exited"
  /\ UNCHANGED <<parentVars, script, written, pipe>>

ChildFinishes ==
  /\ script # <<>> => Head(script) \notin readEnds
  /\ ChildEnds

-----------------------------------------------------------------------------
Parent ==
  \/ OpenOut \/ OpenErr \/ Fork
  \/ PollOut \/ PollErr \/ ReadOut \/ ReadErr \/ NoteHangUps
  \/ WaitForChild

Child == Exec \/ ChildWrites \/ ChildEnds

CommandNext == Parent \/ LoopFails \/ Child

CommandSpec == CommandInit /\ [][CommandNext]_commandVars

\* Both processes are scheduled, and a poll() that has something to tell again and
\* again is not too late every time.  The command goes on writing while there is
\* room, and terminates once it has nothing left to write.
PollFairness ==
  SF_commandVars(PollOut /\ Polled("out")) /\ SF_commandVars(PollErr /\ Polled("err"))
ChildFairness == WF_commandVars(Exec \/ ChildWrites \/ ChildFinishes)
CommandFairness == WF_commandVars(Parent) /\ PollFairness /\ ChildFairness
FairCommandSpec == CommandSpec /\ CommandFairness

-----------------------------------------------------------------------------
(* Properties.                                                             *)

CommandTypeOK ==
  /\ step \in {"outPipe", "errPipe", "fork", "pollOut", "pollErr", "readOut",
             "readErr", "hup", "wait", "returned", "threw"}
  /\ readEnds \subseteq Streams /\ writeEnds \subseteq Streams
  /\ in \subseteq Streams /\ hup \subseteq Streams /\ late \subseteq Streams
  /\ hungUpYet \subseteq Streams
  /\ data \in [Streams -> Nat]
  /\ child \in {"none", "forked", "running", "unwinding", "exited", "reaped"}
  /\ script \in Seq(Streams)
  /\ pipe \in [Streams -> 0..PipeCapacity] /\ written \in [Streams -> Nat]

\* CmdReturnData "contains the complete output of an external program": everything
\* that was written to a pipe has been taken out of it.  The code does not keep
\* this: the loop ends on the hang-ups it remembers, with data in a pipe whose
\* last poll() came too late to look.
OutputComplete ==
  step = "returned" => \A s \in Streams : data[s] = written[s]

\* That is the only way to lose output, and nothing is ever added to it: a stream
\* whose last poll() looked at the pipe is complete when execCmd() returns,
\* however writes, polls, reads and hang-ups of both streams interleave.
LostOnlyWhenLate ==
  /\ \A s \in Streams : data[s] <= written[s]
  /\ step = "returned" => \A s \in Streams : data[s] = written[s] \/ s \in late

\* execCmd() ends, by returning or by throwing.
CommandReturns == <>(step \in {"returned", "threw"})

\* The command is never left blocked: neither on the pipe that the parent does
\* not wait for, nor by a parent that has given up.
ChildTerminates == child # "none" ~> child \in {"exited", "reaped"}

\* Neither process keeps the other waiting for ever.
BothEnd == CommandReturns /\ ChildTerminates
=============================================================================
