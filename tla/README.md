# libSloppy in TLA+

This directory holds a formal model of libSloppy: TLA+ modules translated from
the C++ sources, TLC configurations that model-check them on small instances, and
theorems that TLAPS proves for every value of the parameters. Paths such as
`CSV.cpp:555` are relative to `src/Sloppy/`.

`PROJECT.json` is the machine-readable index: the components, the runs with
their properties, the source lines each definition stands for (`map`), the
hazards with the properties that cover them, the findings and the theorems.

## 1. The system

libSloppy is a library; there is no program that ties its parts together. Its
own logic falls into four groups: classes that coordinate threads, classes that
own resources (descriptors, processes, memory), sequential data structures and
algorithms, and a client/server protocol.

### 1.1 Components that are modelled

| Component | State | Operations | What makes it hard | What makes it correct |
|---|---|---|---|---|
| **CyclicWorkerThread** (`CyclicWorkerThread.h/.cpp`) | `curState`, `reqState`, `isTransitionPending`, `forceQuitThreadFromDtor`, the cycle timer, a condition variable, `stateMutex` | `run`, `pause`, `resume`, `terminate`, `terminateAndJoin`, `waitForStateChange`, destructor; the thread's `mainLoop`/`doStateMachine` with the hooks `onFirstRun`, `onSuspend`, `onResume`, `onTerminate` and `worker()` | unlocked early tests, the mutex is released around hooks, notifications that nobody waits for, several controllers | only life-cycle edges that are documented, but for `worker()` ahead of a hook; hooks and `worker()` never overlap; the "inconsistency" exception is unreachable; requests are served and calls return |
| **ThreadSafeQueue** (`ThreadSafeQueue.h`) | a deque, `listMutex`, a condition variable | `put`, `get` (without, with positive, with zero timeout), `clear` | `get()` takes its decision under one lock and the element under another; wake-ups, spurious ones, timeouts | a FIFO queue: nothing lost, duplicated or reordered per writer, no lost wake-up, no pop of an empty deque |
| **ThreadSafeQueue_PipeSynced** (`ThreadSafeQueue.h`) | a deque and a pipe with one byte (token) per element | the same, announced by `write()`, waited for by `epoll_wait()` and `read()` | a blocking `write()` under the mutex whose failure is ignored, EINTR, stale tokens after `clear()` | together they are one FIFO queue; tokens and elements agree but for interrupted writes; calls return unless the pipe is full |
| **AsyncWorker** (`AsyncWorker.h`) | input and output queue, `isRunning`, `joinRequested`, `suspendRequested`, statistics | `suspend`, `resume`, `join`, destructor; the thread's `mainLoop` | flags are read before a wait and acted upon after it | one output for each input in order, `join()` drops nothing, `suspend()` stops after at most one more input |
| **ManagedFileDescriptor** (`ManagedFileDescriptor.h/.cpp`) | descriptor, atomic state, `fdMutex`, default read size | `blockingWrite`, `blockingRead`, `poll`/`waitForInput`, `close`, `releaseDescriptor`, moves, destructor | several threads, several system calls per operation, timeouts, failing calls, ownership under moves | one owner per descriptor, reads and writes of different threads do not mix, calls return |
| **SubProcess** (`SubProcess.h/.cpp`, `execCmd`) | two pipes, the child, remembered hang-ups, collected output | `execCmd()` | two pipes with limited room, hang-up and data racing, failing `pipe`/`fork`/`poll`/`read` | output is lost only by a delay inside `poll()`, the call ends, the command is never left blocked |
| **CsvTable** (`CSV.h/.cpp`, `CSV_Table`) | `colCount`, `rows`, `header2columnIndex` | `append`, `setHeader` (one, all), `erase` (rows), `eraseColumn`, parsing constructor | three containers that every operation has to keep in step, legal call sequences that reach an odd state | header index is a bijection to the columns, rows of equal length, erasing a column touches no other |
| **TemplateStore** (`TemplateProcessor/TemplateSys.h/.cpp`) | the syntax trees, the language, the string lists; during `get()` the dictionary, the stack of visited templates and the scope of the loop variables of each activation | constructor (parses all files), `setLang`, `setStringlist`, `get` | recursion over includes, conditions and loops that depend on the data, trees linked through indices and two flags, exceptions on the way | the tree is the text in its order, `get()` returns what the text means, every `get()` returns |
| **PasswordProtectedSecret** (`Crypto/Sodium.h/.cpp`) | hash configuration (strength, salt), cipher, nonce, password in clear, derived key | two constructors, `setSecret`, `getSecret`, `setPassword`, `changePassword`, `isValidPassword`, `asString` | every library call may fail between two assignments; records outlive objects | the secret that was set last opens with the password, stored records open with theirs only, no nonce serves twice |
| **Memory** (`Memory.h`: `ManagedArray`, `MemArray`) | pointer, size, flag of ownership; the heap they share | constructors, copy and move, assignments, `resize`, `releaseMemory`, element writes, `copyOver`, `operator==`, destructor | ownership is a flag in each object; allocations fail half way | until `operator==` breaks it: one owner for each block, arrays are values |
| **TcpClientServer** (`Net/TcpClientServer.h/.cpp`) | list of workers and threads, status and preemption of each worker, stop request | `mainLoop` (accept, sweep, quit, join), `run`, the interruptible read, `requestStop` | a thread for each connection, joins of threads that wait for data | a stop request ends the server with all its workers, unless a failed write has killed the process |
| **CryptoClientServer** (`Net/CryptoClientServer.h/.cpp`) | on each side step, nonce of the authentication, session nonce, session key | three steps of authentication, `encryptAndWrite`, `readAndDecrypt`, `doTheWork` | both directions share one key and one nonce, which both sides count on their own | the sides agree on key and nonce, no nonce serves twice, requests are answered |

### 1.2 How they interact

* `AsyncWorker` owns a thread that reads one `ThreadSafeQueue` and writes
  another; the owner feeds and collects. Shared state: the two queues and three
  atomic flags.
* `CyclicWorkerThread` calls back into user code (hooks, `worker()`) with the
  mutex released; controllers share `stateMutex` with the worker thread.
* `ThreadSafeQueue` and `ThreadSafeQueue_PipeSynced` share `put`, `get` and
  `clear` of `AbstractThreadSafeQueue` and differ in `notify`/`waitForData`.
* `execCmd` reads both pipes through `ManagedFileDescriptor::poll` and
  `blockingRead`.
* `ManagedSocket`, `TcpClientServer` and `CryptoClientServer` build on
  `ManagedFileDescriptor`; the last two are taken out of the build
  (`CMakeLists.txt:60-61`, `72-73`) and use an older interface of `SodiumLib`.
* A `CryptoServer` is a worker of a `TcpServerWrapper`: the server creates it with
  the connection, runs it in a thread, asks it to quit and joins it; the worker
  reads that request whenever it waits for data.
* `PasswordProtectedSecret` reaches libsodium through `SodiumLib`;
  `TemplateStore` reads its dictionary through `json2String` (`Utils.cpp`).

### 1.3 Components that are not modelled

| Component | Why |
|---|---|
| NetMessages (`Net/Net.*`) | values appended to and cut from a byte array: one position as state. A pure algorithm whose interest lies in byte counts and bounds; one observation in section 4 |
| ConfigFileParser, ConstraintChecker | a fold of lines into sections and keys, the last value of a key winning; predicates on one string with regular expressions, the file system and the calendar |
| Crypto (`Crypto/Crypto.*`) | Base64 and SHA-256: numerical algorithms on bytes, out of reach of explicit-state checking but for trivial lengths |
| CsvText (values and rows of `CSV.*`), String, Utils, DateTime, HTML, MailAndMIME, Logger, BasicTypes, MiniCert | text processing, layout, conversions or straight-line checks without state of their own. `json2String` of Utils is part of `TemplateStore` |
| SodiumLib, ManagedSocket | wrappers: one library or system call per operation. `increment`, `pwhash` and the secret boxes are part of the models that use them |
| Timer, ThreadStats, GenericRange | a few values; where a model needs time it passes nondeterministically (`Elapse`, `LimitPasses`) |
| VendoredCode (`json.hpp`, `json_fwd.hpp`, `DateTime/date.h`, `tz.*`) | third party, about 42000 of the 67000 lines of the repository |

Most of the remaining lines are wrappers, text and layout. The share of the
source that definitions stand for is therefore small, and it would not grow much
with more models: what has state and more than one order of events is modelled.

Of the components above two are partial. *SubProcess* leaves out the splitting
into lines and the return code. *Memory* leaves out `ArrayView` and `MemView`,
which have no state beside a pointer of somebody else, and `MemFile`.

## 2. Modules

| Module | Models | Extended or instantiated by |
|---|---|---|
| `CyclicWorkerThread` | the worker thread and its controllers | `MCCyclicWorkerThread`, `MCThreads`, `CyclicWorkerThread_proofs` |
| `WorkerLifecycle` | the life cycle documented in `CyclicWorkerThread.h:48-62` and at the methods, as an abstract specification | `CyclicWorkerThread` (`Lifecycle`) |
| `ThreadSafeQueue` | the queue with a condition variable | `MCThreads`, `ThreadSafeQueue_proofs` |
| `FifoQueue` | abstract FIFO queue with one reader | `ThreadSafeQueue` and `ThreadSafeQueuePipe` (`Fifo`) |
| `ThreadSafeQueuePipe` | the queue with a pipe | `MCPipes`, `ThreadSafeQueuePipe_proofs` |
| `AsyncWorker` | the worker between two queues | `MCThreads`, `Workers_proofs` |
| `ManagedFileDescriptor` | objects, descriptors, threads, the peer | `MCManagedFileDescriptor`, `MCFilesAndTexts`, `Descriptors_proofs` |
| `SubProcess` | `execCmd()` and the child process | `MCSubProcess`, `MCPipes`, `Descriptors_proofs` |
| `CsvTable` | `CSV_Table` | `MCData`, `Texts_proofs` |
| `SyntaxTree` | `SyntaxTree::parse()`: tokens to a linked tree, and what a well-nested text is | `TemplateStore` |
| `TemplateStore` | the store and the recursive expansion in `get()` | `TemplateMeaning` |
| `TemplateMeaning` | the meaning of a text, as reference for `get()` | `MCTemplateStore`, `MCFilesAndTexts`, `Texts_proofs`, `TemplateMeaning_proofs` |
| `PasswordProtectedSecret` | objects and the records stored between them | `MCData`, `Memory_proofs` |
| `ArrayValues` | abstract specification: arrays as plain values | `ManagedArray` (`PlainValues`) |
| `ManagedArray` | arrays and the heap | `MCManagedArray`, `MCData`, `Memory_proofs` |
| `TcpServer` | the accepting thread and its workers | `CryptoClientServer` |
| `CryptoClientServer` | both sides of a connection, on top of `TcpServer` | `MCCryptoClientServer`, `Workers_proofs` |

`MC*` modules give constants to TLC. Four of them put classes of one kind into one
instance: `MCThreads` (CyclicWorkerThread, ThreadSafeQueue, AsyncWorker), `MCPipes`
(ThreadSafeQueuePipe, SubProcess), `MCFilesAndTexts` (ManagedFileDescriptor,
TemplateStore) and `MCData` (CsvTable, PasswordProtectedSecret, ManagedArray). A
behaviour is one of a single class, its `subject`; the variables of the others keep
their initial values. The classes of an instance share nothing, so this checks what
separate runs would check; it is why definitions such as `QueueInit` or `FdNext`
carry the name of their component. A liveness property of one class holds in the
behaviours of the others because nothing it waits for ever begins there; only
`CommandsEnd` has to name its subject, as `execCmd()` is under way from the beginning.

A definition whose comment calls it a
slip is a variant with a plausible bug of the definition below it; no specification uses it. Substituted for the original, it makes the
property it is paired with in `PROJECT.json` fail. That shows that the property
depends on what the code does there.

### 2.1 CyclicWorkerThread

Every variable has the name of the member or local it stands for. `stateMutex`
is not a variable: the worker thread owns it exactly while `wpc` is in
`LockedPcs`, and the locked part of a controller method is one step that needs
the mutex to be free. What the code does without the mutex is a step of its
own: the early test of `isTransitionPending` in `run()`, `pause()` and
`resume()` (`CallRequest`), the polling of `waitForStateChange()` (`CallWait`,
`WaitReturn`), the destructor's write of `forceQuitThreadFromDtor` (`Dtor`).

`mainLoop()` is `StartThread`, `LoopHead`, `WorkerReturn`, `LeaveStateMachine`,
`BeginWait` or `SkipWait`, `WakeByTimeout`/`WakeByNotify`; `doStateMachine()` is
`DoStateMachine` up to the hook and `HookReturn` after it. `notified` says that
the condition variable has been signalled during the present wait; a signal at
any other time is lost, as in C++. Time is one bit per cycle, `elapsed`; whether
the cycle time is positive is what `NoCycleTime` distinguishes.

`WorkerLifecycle` has the state, the target and whether `worker()` is being
executed. `LifecycleSafety` is the refinement: `curState`, `reqState` and
`wpc = "worker"` follow it. In the documented life cycle `worker()` runs in state
Running only, after the hook. The code calls it as soon as Running is asked for
(`CyclicWorkerThread.cpp:192`); `HookBeforeWorker` states the documented order and is
violated, and `LifecycleSafety` shows `worker()` to the life cycle only where the
state is Running.

### 2.2 ThreadSafeQueue and FifoQueue

A section under `listMutex` that does not wait is one step. `get()` is
`CallGet`, `WaitForData` (test, sleep, wake up, test again, give up) and `Pop`;
between the last two the mutex is free and other threads may act. Elements carry
their writer and a number. One thread reads, as the class comment demands; it
calls `clear()` as well. `ClearByOthers` lets other threads call it, too.

`FifoQueue` is the promise: `Put` appends, `Deliver` hands out the head, `GiveUp`
ends a `get()` that has a timeout when the queue is empty, `Clear` empties.

### 2.3 ThreadSafeQueuePipe

The deque holds arbitrary `Elements`, the pipe is a number of tokens. `put()` is `CallPut`, `Push` (mutex obtained, element in
the deque) and `Notify` (the token fits into the pipe, mutex released), or
`NotifyFails`: a signal interrupts the `write()` that waits for room, nobody looks at
its result, and the element stays without a token (`lostTokens`). The
writer owns the mutex between the last two, which is why `owner` is a variable
here. `get()` is `Epoll`, `ReadToken` and `Pop`; `Interrupt` is a signal that
ends `epoll_wait()` early. `disturbed` records whether `clear()` has removed
elements or a signal has hit `get()`; what holds only without one of them says so.
The pipe may be smaller than the number of elements. Then a writer waits with the
mutex (`Jammed`), and if the reader waits for that mutex, both wait for a signal
(`Deadlocked`); calls return unless they are caught in that.

This queue is a `FifoQueue`, too, if an element is taken to be put by the next token
that is written. That is its own one unless a `write()` has failed or `clear()` has
left tokens without elements. Between `push_back()` and `write()` a `get()` that does not wait finds
nothing although there is an element in the deque. No thread can see that, because
`size()` and `empty()` need the mutex, which the writer holds. A `get()` that has become
`undefined` never returns in the model.

### 2.4 AsyncWorker

The queues are abstract: `put()` and `get()` are single steps. `ImplementsFifo`
in `ThreadSafeQueue_proofs` justifies that for a queue with one reader. Inputs
are numbered and the result of `worker()` carries the number of its input, so
that order and loss are visible. `lateStarts` counts inputs taken after
`suspend()`.

### 2.5 ManagedFileDescriptor

Objects, descriptors and threads are sets. A call is a record (object,
operation, sizes, time limit, source of a move); `Start` chooses one, `Locking`
is the part up to the mutex, `CallSteps` goes on to the return, with one step for
each system call. The bytes of the peer are numbered, so a read is described by
the numbers it got; what is written is described by the thread that wrote it.
`Errors` allows every system call to fail or to be interrupted. The peer
(`PeerSend`, `PeerHangUp`) is external.

A time limit is `finite`, `infinite` or `zero`. Only a finite one can pass
(`LimitPasses`), because `blockingRead()` looks at its timer only if `timeout_ms > 0`;
with limit zero it polls until there is data, against the header
(`ZeroReturnsAtOnce`, violated). `DataKeptTogether` is about reads that succeed: a
read that fails half way, through an error (`ReadFails`) or because `minLen` exceeds
the buffer (`ReadOutOfRange`), has taken bytes from the stream that nobody gets. The
one that times out passes them on in its exception. The `std::out_of_range` of
`ReadOutOfRange` (`ManagedFileDescriptor.cpp:291-293`) is not among the exceptions
that the header lists (`299-315`).

### 2.6 SubProcess

The parent is one process with the steps of `execCmd()` (`OpenOut`, `OpenErr`,
`Fork`, `PollOut`, `PollErr`, `ReadOut`, `ReadErr`, `NoteHangUps`,
`WaitForChild`); `LoopFails` is an exception in the loop. The command is any
sequence of writes to its two outputs, blocks on a full pipe and may end at any
moment. Data is counted in units of arbitrary size. A poll may find its time over
before it has looked (`TooLate`; `ManagedFileDescriptor.cpp:258-260`), for which, with
limit zero, a delay of a millisecond suffices; `late` records the streams whose last
poll skipped data or a hang-up that way. `OutputComplete`, what the header promises,
is violated by it; `LostOnlyWhenLate` says that nothing else loses output.
`waitpid()` may fail, which nobody notices; the return code is not part of the model.

### 2.7 CsvTable

Sequential. A call that returns `false` changes nothing, so the actions are the
calls that succeed, with the reasons to fail as guards; header names that the
code rejects are one value, `Invalid`. `EraseColumn` on a row that is too short
is undefined behaviour in the code (`std::advance` past the end, then
`erase()`); the model notes that in `defined` and stops. `hollow` records that
there have been rows while `colCount` was 0.

### 2.8 SyntaxTree and TemplateStore

A text is a sequence of pieces: a character, a newline, or a token that has been
classified (variable, string, include, `if`, `for`, `endif`, `endfor`, empty,
malformed). The regular expressions that cut and classify are in the kinds of
the pieces. `Parse` folds the pieces with the code's `updateLinks`, `levelDown`
and `levelUp`, its two flags and its treatment of newlines beside control tokens;
`WellFormed` says, without a parser, what a text should be; `IsDocumentTree` how
its tree should be linked: a walk over the links meets every item in the order of
the text; and `HoldsText` what its items should hold: all pieces of the text but the
ends of blocks and hidden newlines. What the parser makes of an empty token, a text
item with the rest of that token (`TemplateSys.cpp:180`), is stated by none of them:
`ParsedAsWritten` and `GetIsRight` leave texts with empty tokens out as far as their
content goes, and `EmptyTokensAreSkipped`, after the comment in the code, is
violated. All are recursive functions, so that theorems can
be stated about them.

The recursion of `getTemplate_Recursive` and `getSyntaxSubtree` is an explicit
stack: an activation for each template, in it a block for each open loop or
condition. One step of `Emit` handles one item; `Enter`, `EndBlock`, `LoopRound`
and `Return` are the calls and returns, `Throw` an exception that leaves all of
them. The module `TemplateMeaning` is the reference. `Meaning` gives every place of a
text, for every scope of loop variables, the text from there to the end of its block;
`Expansion` gives the templates their meaning, if only some of them may still be
included; `Answer` is the first exception in it, or all of it. No tree, stack,
visited list or intermediate result occurs in them: blocks are found by counting what is
open in the text (`Closer`). They are recursive functions as well, over the
scopes made of `LocalNames` and `JsonValues`. `MeaningAssumption` says that these two
constants cover what the files and dictionaries contain, that a directory has finitely
many files and that no text is an exception.

### 2.9 PasswordProtectedSecret

One object at a time lives; `New` and `Load` replace it, so that the program may
end between any two calls and load any record it has stored. Random values are
numbers that are drawn once (`fresh`); a hash is the pair of password and
configuration, a cipher the triple of key, nonce and message. Each call is one
action for each way it ends; those that fail after the first assignment are
actions of their own (`SetPasswordFails`, `SetPasswordUnchecked`,
`ChangePasswordHashFails`, `ChangePasswordCopyFails`, the `fails` branches). The two
in the middle of `password2SymKey()` differ: the derivation may fail before the key
is replaced, the locked copy of the password after it (`Sodium.cpp:3016-3020`). `truth` is the password and secret of a user who believes what
the calls report, `spoiled` what a failing call has left half done, `sealed`
every message that was ever encrypted. `SecretKept` and `RecordsOpen` hold in part
whatever is spoiled: `getSecret()` never returns anything but the secret that was set
last, and no stored record holds another one. That an accepted password opens the
secret, and that a record opens with its password, is claimed as long as nothing, or
nothing before the record was stored, was spoiled.

### 2.10 ManagedArray and ArrayValues

The heap is a function from the blocks that are allocated to their contents. Each
method is an action on the pointers and flags; allocation may fail
(`ConstructFails`, `CopyAssignFails`, `ResizeFails`). `op` is the operation of
the last step. In `ArrayValues` an array is a sequence of elements and an
operation changes the arrays it is called with and no other; `ArraysAreValues` is
the refinement. Arrays on a buffer of the caller share it and are opaque there:
their value is `Borrowed`, that of an array which does not exist `Gone`, and
neither is a sequence of elements (`OpaqueAssumption`).
`operator==` assigns a pointer (`Memory.h:694`). `EachHasOneOwner` is violated by that;
`overwritten` notes it, behaviours end there, and `OneOwner` and `ArraysAreValues` are
about what comes before. The promise for an assignment of an array to itself is the
documented deep copy (`Memory.h:612`), which leaves it as it is; the code empties it,
so that `ArraysAreValues` leaves this assignment out.
A moved-from object is `Empty`, a destroyed one is not in the domain of `arr`.

### 2.11 TcpServer and CryptoClientServer

`TcpServer` has the accepting thread: `Accept`, the sweep over the list of
workers, `RequestQuit` and `JoinAll` after a stop request; and the life of a
worker's thread (`RunBegins`, `RunEnds`, `ThreadExits`). What a worker does is
left to the extending module. `CryptoClientServer` adds, for each connection, both
sides with one action for each message that is read and the messages it causes,
and the two channels. Messages of a connection arrive whole and in order, as TCP
and the framing provide; they are lost when a side closes.

Assumptions, each named where it is used:

* Cryptography is symbolic: a box opens with its key and nonce only, and what is
  drawn at random is new. Both parties run this code; there is no third one.
* `ThreadsHaveStarted`: a thread has taken its worker before the next connection
  is accepted. Nothing in the code makes sure of it. The code captures the variable by reference
  (`TcpClientServer.cpp:319`), so a late thread finds the worker of another
  connection, or a destroyed variable. Starting a thread does not fail, nor does the
  factory of the workers.
* The application of the client waits for each answer before it writes again. Both
  directions count one nonce; a client that writes again, for instance after a
  timeout, seals with the nonce the answer is sealed with.
* `requestTermination()` of the worker has no caller and is left out.
* Writes return: there is room for every message of the protocol. A worker that is
  blocked in a write to a client that does not read cannot be asked to quit; the
  server would then not end.

## 3. Runs

All instances are small enough to be explored completely.

| Run | Class and instance | What it shows |
|---|---|---|
| `Threads` | CyclicWorkerThread: 2 controllers, positive cycle time | `StateMachineSafe`: no inconsistency, `worker()` only when asked for, end after `onTerminate()`; `LifecycleSafety`: refinement of `WorkerLifecycle`; `Served`: calls return, requests are carried out |
| | ThreadSafeQueue: 2 writers, 3 elements each | `GetIsSafe`: no empty pop, no lost wake-up; `FifoSafety`: refinement of `FifoQueue`; `AnswersInTime`: `get()` gives up neither early nor never |
| | AsyncWorker: 4 inputs, with output queue | `ExactlyOneOutput`, `SuspendIsSafe`: quiet when not running, at most one late input; `InputsServed`: inputs processed, `suspend()` and `join()` take effect |
| `Pipes` | ThreadSafeQueuePipe: 2 writers, 2 values, 3 elements, room for 1 token | `PipeInStep`: tokens and elements agree but for interrupted writes, nothing undefined before `clear()` or a signal, blocking only on a full pipe; `DeliversInOrder`: refinement of `FifoQueue`, and calls return unless caught in a full pipe |
| | SubProcess: all commands of up to 4 writes, pipes of 3, reads of 2, errors, delays | `LostOnlyWhenLate`; `CommandsEnd`: `execCmd()` ends, the command is not left blocked |
| `FilesAndTexts` | ManagedFileDescriptor: 2 threads, 2 objects, 1 descriptor, 3 bytes, chunks of 2, 2 calls, errors | `OneOwner`; `DataKeptTogether`: reads and writes contiguous, no byte skipped, successful reads deliver what they promise; `StaysUsable`: no object left busy, calls return |
| | TemplateStore: all texts of up to 4 pieces; 400 stores of 5 files with loops, conditions, includes, localized and empty templates; 2 dictionaries, unreadable files | `ParsedAsWritten`: exactly the well-nested texts are accepted, linked in order and kept whole; `GetIsRight`: the result is the meaning, no template inside itself; `GetReturns` |
| `Data` | CsvTable: 4 names, 2 values, 3 rows, 3 columns | `TableFits`: header index and row lengths; `ErasesNothingElse` |
| | PasswordProtectedSecret: 2 passwords, 2 secrets, 2 strengths, 6 random values, 1 record | `SecretKept`, `RecordsOpen`, `NonceOnce` under every failing call and every reload |
| | ManagedArray: 2 arrays, 2 elements, sizes up to 2, 3 allocations, 1 buffer of the caller | `OneOwner`: no leak, no double free, no dangling pointer; `ArraysAreValues`: refinement of `ArrayValues` |
| `CryptoClientServer` | 2 connections, one with 2 requests, backlog of 1 | `SessionsAgree`, `NonceOnce`, `StopsUnlessKilled`: no worker is forgotten or joined unasked, a stop request ends the server, requests are answered, unless a failed write kills the process |

The runs that end in a violation each check one statement of the documentation that
the code does not keep; they are described in section 4: `CyclicWorker_termlost`,
`CyclicWorker_hookfirst`, `FileDescriptor_zero`, `SubProcess_late`,
`TemplateStore_empty`, `ManagedArray_compare`, `CryptoClientServer_write`.

### Bounds and why they suffice

* *CyclicWorkerThread* is finite; two controllers are what the races between two
  early tests and between a wait and a request need. The safety part is proved
  for any number.
* *ThreadSafeQueue*: `MaxPuts` bounds the puts of each writer. Three allow an
  element to be taken, one to wait and one to be put at the same time.
* *ThreadSafeQueuePipe*: two values tell an order from another, as the queue never
  looks at them; `MaxElems` bounds elements in the queue or being put, and is more
  than the pipe has room for (`Capacity`), so that a writer blocks, also while another
  element waits for its token.
* *AsyncWorker*: `MaxInputs = 4` is one input in each place (queue, hand, output
  queue, delivered).
* *ManagedFileDescriptor*: with three bytes and chunks of two a read needs more than one
  chunk; two calls are enough for one to meet another half way; the second
  object is the target of a move. `CallBound` and `MaxBytes` bound the run.
* *SubProcess*: four units (`MaxLen`) exceed a pipe (3), and a pipe exceeds a read (2), so
  the command blocks and output remains after a read.
* *CsvTable*: `MaxCols` bounds the length of a row or header that is passed,
  `MaxRows` the table. Three columns have one before, one erased and one behind;
  the fourth name is free for renaming.
* *TemplateStore*: four pieces hold a block with content, two blocks in a row, one
  in the other, and every way to nest wrongly; newlines occur on both sides of a
  token. Larger texts are chosen: loops over two elements with an include, a
  condition or a loop in them, and what follows the loop; included templates that
  include back, an empty one, or one in another language. `MaxCalls` is one
  `get()`: a call starts with an empty stack of visited templates, so calls do not
  influence each other but through `setLang` and `setStringlist`, which precede it.
* *PasswordProtectedSecret*: `MaxRandom` bounds the salts and nonces ever drawn; six are two
  objects with a salt and a nonce each and a change of the password in between.
  `MaxRecords` bounds what is stored at a time. Passwords, secrets and strengths are
  compared for equality only, so `SYMMETRY` is sound for them (the run `Data` has no
  liveness property).
* *ManagedArray*: no operation has more than two arrays; that a third one is left
  alone follows from the theorems. Two elements of two kinds show copies that are too short or shared.
  `MaxBlock` bounds the allocations of a behaviour, not the blocks in use.
* *CryptoClientServer*: one worker can be swept while another works. Two requests
  pass the nonce on after an answer. `MaxRequests` bounds the requests of a client.

`CHECK_DEADLOCK FALSE` stands where the system may stop: `Pipes` (undefined
behaviour of `get()` ends the model; `execCmd()` is over), `FilesAndTexts` (all
`CallBound` calls are made), `CryptoClientServer` (the server has ended), and in the
runs with a violation in these modules. The other runs look for deadlocks.

### Fairness

Fairness stands for what scheduler, kernel and users are trusted to do, never
for what the classes promise.

* A thread that can continue is scheduled: weak fairness of the worker thread
  (`WorkerStep`), of the reader's steps, of `CallSteps(t)`, of `Parent`. Hooks,
  `worker()` and a `join()` of an ended thread return.
* Time passes: `Elapse`, `Expire`, `LimitPasses`.
* A `std::mutex` that is free again and again is obtained eventually: strong
  fairness of the locking steps (`LockedBody`, `Push`, `Pop`, `QueryReturn`). With the usual implementations that is a matter of probability;
  without it no call of a mutex user could be shown to return. For a descriptor,
  where calls are bounded, one that stays free is enough (`Locking`).
* A `poll()` that finds something again and again is not too late every time
  (`PollFairness`).
* The kernel accepts what is written to a descriptor. The command of
  `execCmd()` goes on writing while there is room and ends when it has nothing
  left to write.
* An expansion that has begun goes on (`TemplateStore`). In the server the threads
  run, the request handler returns and a read ends when there is data or a request
  to quit; a client that waits for an answer reads it when it is there.
* Nobody is forced to call anything, to send data, to fail or to wake up
  spuriously. `LoopFails` is not part of the fair action `Parent`: an exception
  may, but need not happen.

## 4. Findings

Seven runs end in a violation: the code does not do what the repository says of it.

* `CyclicWorker_termlost` (`TerminateSucceeds`): "A request for termination will always
  succeed, regardless of the current state" (`CyclicWorkerThread.h:142`). A
  `terminate()` during another hook is forgotten, because the end of the hook clears
  `isTransitionPending` and a later request overwrites `reqState`.
* `CyclicWorker_hookfirst` (`HookBeforeWorker`): "the `onFirstRun()` hook is executed and
  immediately afterwards the worker is called", and the same for `onResume()`
  (`CyclicWorkerThread.h:94-98`). `mainLoop()` looks at `reqState` and calls `worker()`
  first (`CyclicWorkerThread.cpp:192`).
* `FileDescriptor_zero` (`ZeroReturnsAtOnce`): "the timeout (0 = return immediatly, even
  if no data is avail; < 0 = wait infinitely)" (`ManagedFileDescriptor.h:316`). The loop
  of `blockingRead()` has no end for limit 0 until there is data
  (`ManagedFileDescriptor.cpp:146-171`), and keeps the mutex.
* `SubProcess_late` (`OutputComplete`): "Contains the complete output of an external
  program" (`SubProcess.h:21`). A delay of a millisecond inside `poll()`
  (`ManagedFileDescriptor.cpp:258-260`) makes `execCmd()` leave output behind.
* `TemplateStore_empty` (`EmptyTokensAreSkipped`): an empty token is skipped up to its
  closing bracket, say the comments at `TemplateSys.cpp:172-173` and `177-178`. The code
  adds the number of submatches instead of their length (`180`), and the rest of
  the token is text.
* `ManagedArray_compare` (`EachHasOneOwner`): "a resource should only be owned by one
  instance" (`Memory.h:682-683`). `operator==` assigns the pointer of the other array
  instead of comparing it (`694`), so that both own one block and another is lost.
* `CryptoClientServer_write` (`FailedWriteEndsItsWorker`): the branch for a response that
  cannot be sent ends the loop of its worker (`CryptoClientServer.cpp:151-155`). When a
  client has gone it is not taken: the write throws, nobody catches that, and the
  process ends with all its connections.

ThreadSafeQueue with `ClearByOthers = TRUE` would show one more: `clear()` by a thread
other than the reader makes `get()` pop an empty deque (`NeverPopEmpty`). The
documentation does not say who may call it.

Observations met while modelling:

* CyclicWorkerThread: `waitForStateChange()` returns at once if the request is not
  visible yet; with a cycle time of zero an idle worker thread never releases the
  mutex. The destructor of the base class joins a thread that still executes methods
  of the derived class, which has been destroyed by then; so does that of AsyncWorker.
* AsyncWorker: `running()` stays true after `join()`.
* PipeSynced queue: after `clear()` the stale tokens make later `get()` calls
  undefined and may fill the pipe; a full pipe blocks a writer that holds the mutex the
  reader needs in order to drain it, and a signal that ends this `write()` leaves an
  element without a token, to be delivered with that of a later element or not at all
  (`Notify`, `ThreadSafeQueue.h:328`); a signal during `get()` without timeout makes it
  dereference an empty optional.
* ManagedFileDescriptor: `ReadTimeout` carries the whole result buffer, so
  `getNumBytesRead()` reports its size; bytes a failing read has taken are lost; `poll()` with a negative timeout returns at
  once although it is documented to wait; a read without time limit spins after the
  peer has closed, with the mutex held (`ReadsForEver`); two crossing move assignments, or a move to itself, lock in
  opposite order (`MovePairs` of the run has one direction); an object that was
  default-constructed and moved to stays Reading after a failed read, and a move
  hands that state on to another object (`336-337`, `360-361`; `MayBeStuck`).
* SubProcess: after a failed `execv()` the exception is thrown in the child, a
  second copy of the calling program; a failed `fork()` leaves four descriptors
  open; an exception in the loop leaves the child unreaped; a
  `waitpid()` that fails leaves the return code to an uninitialised variable (`162`).
* CsvTable: after the last column has been erased, or an empty row appended to an
  empty table, rows of different lengths are accepted, and erasing a column is
  undefined. `RowsFit` states exactly this exception to "all rows have the same
  number of columns" (`CSV.h:368`).
* TemplateStore: an empty template returns before it is taken off the stack of
  visited templates (`TemplateSys.cpp:724-727`, against the comment at `735-738`):
  its includer is taken off in its place, and a later legal include is reported as
  circular. A loop that reuses the variable of a loop around it reads the outer
  value and removes the variable (`871-873`). Both are excluded in `GetIsRight`, in
  words of their own. `getLocalizedTemplateName` (`684-700`) refuses a template that exists in
  the requested language only.
* PasswordProtectedSecret: a failing `setSecret()` keeps the old cipher under a new
  nonce that does not open it (`Sodium.cpp:2840`, against the comment at `2847`); a
  failing `changePassword()` leaves a new salt beside the old key, and `asString()`
  then stores a record that nothing opens (`2921`); an exception in `setPassword()`
  leaves a password that was never checked (`2954`). If the copy of the password fails
  in `password2SymKey()`, key and configuration are new, password and cipher old
  (`3016-3020`). `SecretKept` and `RecordsOpen`
  except the states between such a failure and the call that repairs it (`spoiled`).
* Memory: assigning an array to itself empties it (`Memory.h:616-626`), where a deep copy
  is documented (`612`); `MemFile::getString(idx)` does not advance its pointer; move assignment of
  `MemFile` drops its own mapping and descriptor; sums of offsets and lengths in
  `copyOver` and `assertIndex` can wrap around.
* Net: a closed client is not noticed by
  `readAndDecrypt(0)`, because end of file counts as "no data", so its worker stays
  until the server stops. `InMessage` throws on an empty last field, because
  `slice_byCount` rejects its start.

## 5. Proofs

Each `*_proofs` module extends the modules of its components. Constants are
arbitrary values that satisfy the named assumptions; the proofs do not depend on
the bounds of section 3. `Workers_proofs`, `Descriptors_proofs`, `Texts_proofs` and
`Memory_proofs` hold the theorems of two components each: the worker threads that
serve requests, what works on descriptors, what takes a text apart, and what is kept
in memory. The two specifications in a module share no definition.
`TemplateMeaning_proofs` continues `Texts_proofs`.

Every invariant, action property and refinement that a passing run checks is a theorem,
some under an assumption that the table names; the other properties contain liveness
(5.3).

| Module | Theorems | Argument |
|---|---|---|
| `CyclicWorkerThread_proofs` | `TypeCorrect`, `StateMachineIsSafe` from `NeverInconsistent`, `SettledWithoutPending`, `WorkerOnlyWhenAsked`, `EndsAfterOnTerminate`, `TerminatesForGood`, `ImplementsLifecycle` (but for `worker()` ahead of a hook) | `IInv` adds which requests can be outstanding in which state (`RequestInv`) and that a transitional state means a running hook (`HookInv`). Without the first, a request stored during a hook could lead to a pair of states that `doStateMachine()` does not know. `PendingSettled` ties the flag to the request. |
| `ThreadSafeQueue_proofs` | `TypeCorrect`, `GetsAreSafe` from `WakeUpsArrive` and `PopsAreSafe`, `KeepsOrder`, `ImplementsFifo` | the reader at `pop` has an element, as only the reader removes any; order follows from the numbers of `Put`. `PopsAreSafe`, `GetsAreSafe` and `ImplementsFifo` assume `~ClearByOthers`. |
| `ThreadSafeQueuePipe_proofs` | `TypeCorrect`, `PipeStaysInStep` from `NothingStaysBehind`, `OneTokenPerElement`, `GetIsDefined` and `NobodyBlocks`, `ImplementsFifo` | token counting across the owner of the mutex, the reader between `read()` and its lock, and the writes that failed (`lostTokens`). `ImplementsFifo` maps the first elements of the deque, as many as have a token, to the abstract queue. None needs an assumption on the capacity, nor that `clear()` and signals stay away. |
| `Workers_proofs`, on AsyncWorker | `TypeCorrect`, `OneOutputPerInput`, `JoinDropsNothing`, `SuspendingIsSafe` from `NotRunningIsQuiet` and `SuspendsAfterOneInput` | `IInv`: the input in hand is the one taken last, and the three sequences continue one another without gap. |
| `Workers_proofs`, on CryptoClientServer | `SessionTypeCorrect`, `NonceServesOnce`, `SessionsAlwaysAgree`, `ClientsNeverFail`, `NoWorkerForgotten` | `SessionIInv` says for each connection, at every pair of steps of its two sides, which messages are under way and what both sides hold (`Handshake`, `ServerSide`, `Session`): in the session the client has counted as far as the server will have when it has read what waits for it. `SealedInv` ties every message ever sealed to a connection and to a nonce that both sides have counted past (`Used`), so that the next nonce is new; `Unopened` keeps the worker of a connection that nobody opened from running. Each step of a side is first a lemma about one connection (`SendProofAgrees`, `RespondAgrees`, ...), without channels or other connections, then one about the state. `WorkersInv` is about the accepting thread: where its index stands in its list, who has been asked to quit or joined up to there (`PassInv`), and that the list names each worker with a thread once (`Listed`, `ListedOnce`), also while a sweep takes entries out. |
| `Descriptors_proofs`, on ManagedFileDescriptor | `TypeCorrect`, `OneOwnerEach`, `ReadsStayTogether`, `DataStaysTogether`, `NoObjectLeftBusy` | `IInv` relates a call in progress to its object (`CallInv`), closed and destroyed objects to their descriptors (`OwnerInv`), a running operation to the mutex it holds (`MutexInv`), and the bytes collected to the position in the stream (`ReadInv`); the last needs all the others. `DataInv`, inductive on top of it, adds that the last bytes of the output are those of the write that is running, and that a read keeps within its buffer and ends with enough; both rest on `BusyKeepsFd`: the descriptor of a busy object does not change. `BusyInv` says which state an object has under each call that holds its mutex (`StateOf`). |
| `Descriptors_proofs`, on SubProcess | `CommandTypeCorrect`, `NothingLost` | what was written is collected or in the pipe (`Conserved`); a hang-up means the child is gone (`HupInv`); a stream that has hung up and was polled in vain is empty unless that poll was too late (`EmptyInv`). |
| `Texts_proofs`, on SyntaxTree | `ParserAcceptsNestedTexts` | see 5.1 |
| `Texts_proofs`, on TemplateStore | `StoreTypeCorrect`, `StoreHoldsTexts`, `NoTemplateWithinItself`, `RecursionIsBounded` | see 5.1 |
| `TemplateMeaning_proofs` | `AnswersAreRight` | see 5.2 |
| `Texts_proofs`, on CsvTable | `TypeCorrect`, `TableAlwaysFits` from `OneHeaderPerColumn` and `RowsHaveEqualLength`, `ErasedColumnOnly` | lemmas on cutting a sequence (`WithoutElements`, `RowWithoutColumn`); `IInv` adds that a table without columns is empty until `hollow`, which is what lets `append` and `setHeader` choose a new number of columns. |
| `Memory_proofs`, on ManagedArray | `ArrayTypeCorrect`, `OneOwnerForEachBlock`, `ImplementsValues` | `ArrayIInv`: the flag of ownership of an array that points to a block is set unless the block is a buffer the caller has not given away (`PointersFit`), no two arrays own one block (`OwnersDiffer`), every other block has an owner (`NothingLeaks`), and the allocator's next address is free (`Unallocated`). All operations are instances of four: a block of its own (`FreshInv`), one taken over (`MovedInv`), one given up (`EmptiedInv`), elements written (`WrittenInv`); the refinement has the same four lemmas on values. Once `overwritten` is set, the invariant says nothing, and no more steps are taken. |
| `Memory_proofs`, on PasswordProtectedSecret | `TypeCorrect`, `SecretIsKept`, `RecordsAlwaysOpen`, `NoncesServeOnce` | the invariant ties cipher, key, configuration and the user's view together (`CipherFits`, `KeyFits`, `OwnerFits`), as far as `spoiled` allows, and the same for each record (`RecordsFit`); `FreshNonces` keeps every nonce that has been used below the next one to be drawn. Without the parts about keys and configurations a reload could pair a key with another record's cipher. |

### 5.1 The parser and the store

`ParserAcceptsNestedTexts` is about the result of a loop, for texts of any length.
The loop is a recursive function on the positions of the text, and the proofs go by
induction over them. `SetInduction` and `DownwardSetInduction` give this induction
the form of a statement about the *set* of positions at which something holds,
derived from the least element of a set of numbers (`LeastNat`), and that from the
well-foundedness of finite sets: the induction theorems of the library are about
operators, which the provers cannot instantiate.

* *The links* (`ParserFits`). While items are added, a tree keeps that the parents
  nest (`ParentsFit`), that a first child is the next item or none
  (`ChildrenFit`) and that a next sibling is the next item with the same parent
  (`SiblingsFit`). That needs what the local variables of `parse()` mean
  (`PlaceFits`): the last sibling is the last item under the current parent, and
  the flag for a new parent is set exactly if that parent is the last item of all.
  `PushFits`, `LevelDownFits` and `LevelUpFits` are its three helper lambdas.
* *The nesting* (`SameBlocks`). The parents from the current one up to the root are
  the blocks that the reduction `Opened` still has open (`Chain`); once the parser
  has stopped, the reduction holds an error that nothing removes (`WrongStays`).
* *The text* (`TextFits`). The pieces in the items, followed by those read since the
  last item, are the pieces of the text that are to be kept; a newline is hidden
  exactly if the parser has moved the start of the next static text behind it.
* *The order* (`WalkIsInterval`). From an item on, the walk meets exactly the items
  up to the end of its block, in their order: by induction from the last item
  down, as children and next sibling come later.

`StoreIInv`, the invariant of the store, says beyond the type invariant that every
activation but the innermost stands at its include command and each open block at
the item that opened it, without which a return would have nowhere to go on; that
`visitedTemplates` names no template twice and has the templates of the activations
in their order; and that the store holds results of `parse()`, whose links stay
within the tree. The early return for an empty template leaves one name too many in
`visitedTemplates` (section 4), so the two lists differ; the invariant states an
order-preserving map from the one into the other, and `Popping` shows that it
survives even when the wrong name is taken off. `RecursionIsBounded` follows for the
includes: the activations map one-to-one into the templates. For the blocks of one
activation it follows from `Descends`: links lead onward in the tree, so that a block
that is `b` deep stands at item `b` or a later one.

### 5.2 The answers

`AnswersAreRight` relates two descriptions of an expansion: the code walks trees with
a stack of activations and one scope for each, the reference reads texts.

* *The places of the items* (`ParseLays`). Every item comes from a place in the text,
  and its links lead to where the text goes on: the first child to what follows
  the token, the next sibling to what follows the end that belongs to it, and where there
  is no link only ends and hidden newlines are left. The end that belongs to a token is the
  first place with fewer open blocks (`Closer`); that the parser's nesting is the same
  is part of the induction over the loop (`Lay`).
* *The meaning, item by item* (`ItemMeans`, `ChildMeans`). `From(r, j, scope)` is the
  meaning from the place of item `j`; it is the text of the item followed by the
  meaning from its next sibling. `VariableMeans`, `IncludeMeans`, `ConditionMeans` and
  `LoopMeans` say what the text of an item is, the last as the rounds of a loop one by
  one.
* *What is left of a call* (`Remains`, `Below`, `Call`). An activation has yet to produce
  what follows in its innermost block, and behind each block the rounds left of its
  loop and what follows the loop; then come the activations below.
  `Call` says: the text so far, which holds no exception, followed by all that, is what the
  template means.
* *The steps* (`StaticOnward`, `VariableOnward`, `ConditionOnward`, `LoopOnward`,
  `IncludeOnward`, `EndOnward`, `GetOnward`). Each either keeps `Call`, or throws the first
  exception of the whole, or returns the whole.

`MeaningInv` is the inductive invariant: `StoreIInv`, `Call` for the running call,
`OutputIsMeaning` for the last one, and that `visitedTemplates` has exactly the
templates of the activations where no template is empty (`VisitedIs`): without that, an
exception about a circle could be raised where the reference sees none. The theorem
covers every nesting of blocks and templates, which the run only samples. It leaves out
what `GetIsRight` leaves out: a loop that reuses the variable of a loop around it, for
which `erase()` removes the outer variable, the false alarm behind an
empty template, and files with empty tokens; all are behaviours of the code described in section 4.

### 5.3 What is left to TLC

* All liveness: `Served`, `InputsServed`, `AnswersInTime`, `DeliversInOrder`, `StaysUsable`,
  `CommandsEnd`, `GetReturns`, `StopsUnlessKilled`. Liveness under fairness is outside of what
  the provers handle here. The safety parts that are checked together with
  some of them are proved: `ImplementsFifo` (in `DeliversInOrder`), `NoObjectLeftBusy`
  (in `StaysUsable`) and `NoWorkerForgotten` (in `StopsUnlessKilled`).
* What follows from fairness in the server (`StopsUnlessKilled`), and everything about two
  parties of which one does not run this code.

## 6. Plan

What would come next, in this order:

1. Message serialisation (`OutMessage` and `InMessage` as inverse operations) and
   configuration parsing as pure algorithms against reference definitions.
2. AsyncWorker over the detailed ThreadSafeQueue instead of abstract queues.
