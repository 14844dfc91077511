# A TLA+ verification of websocket_test

`src/` holds a small C++ server framework (`common/`: a message queue, worker
threads, an epoll reactor with TCP and UDP tasks, service discovery over
ZooKeeper, Redis and HTTP clients, logging, configuration) and a websocket
load test built beside it (`client/`, `server/`). This directory holds TLA+
modules of its core, the configurations that check them with TLC, and proofs
checked by TLAPS.

* [1 Inventory](#1-inventory) -- the components, modelled or not
* [2 Modules](#2-modules) -- what is modelled, and how it corresponds to the code
* [3 Runs](#3-runs) -- what is checked, within which bounds, under which fairness
* [4 Proofs](#4-proofs) -- what is proved, and along which argument
* [5 Findings](#5-findings) -- where the code differs from what it says
* [6 Limits](#6-limits) -- what is abstracted or left out, and why
* [7 What could come next](#7-what-could-come-next)

Run `tlc -config <cfg> <module>` for a run of section 3 and `tlapm <module>.tla`
for the proofs. `PROJECT.json` lists for every definition the source lines it
models, for every property a mutation of the code that the property catches,
and every hazard of the code at its line.

## 1 Inventory

### Message queue: `CSynQueue<T>` (common/synqueue_t.h)

* State: a deque of pointers, a mutex, and two semaphores: `m_sem_write`, the
  free slots (from `m_maxsize - 1`), and `m_sem_read`, the readable elements.
* Operations: `put(pMsg)` at the back, `put(pMsg, pri)` at the front when `pri`
  is `CQUE_PRI_HIGH`, `get()`, `size()`.
* Interaction: called by any number of threads; `CWorkThread` owns one.
* Hard: `get` reads and removes the first element in two steps; the capacity
  is kept only by tokens travelling between two semaphores through the hands of
  many threads.
* Correct: a message is with one thread or in the queue, never twice and never
  nowhere; the capacity is respected; `get` returns a message, in order.

### Worker thread: `CWorkThread` (common/work_thread.h, .cpp)

* State: the run flag, the thread, the queue.
* Operations: `Start`, `Run` (get, `Process`, delete), `Stop`,
  `PutMsgToInputList`, and a destructor that empties the queue.
* Interaction: fed by the reactor's tasks (`PutMsgToList`), answers over UDP.
* Hard: `Stop` does not wake a blocked worker; the destructor looks at `size()`
  without the lock and then calls a blocking `get()`.
* Correct: every message object is deleted once; the destructor ends; a running
  worker takes what is queued.

### Tasks: `CBaseTask`, `CTcpTask`, `CUdpTask` (common/basetask.*, mytask.*)

* State: the socket, the list of messages to send, the message being sent and
  how much of it has gone, a receive buffer (`CVBuffer`, common/buffer.*) with a
  read position, the parser's state, and the events asked of epoll.
* Operations: `Init`/`AddToEpoll`, `PutMsgToSendList`, `HandleProcess`
  (`RecvProcess` on EPOLLIN, `SendProcess` on EPOLLOUT), `DestroySelf`.
* Interaction: called by the reactor; received bodies go to a worker's queue.
* Hard: partial sends and receives with any number of events in between;
  EPOLLOUT is asked for in one place and withdrawn in another; an error deletes
  the object whose method is running.
* Correct: the peer gets exactly the bytes put, in order; nothing waits
  unasked-for; frames are handed on intact; memory accesses stay in the buffer;
  nothing touches a deleted task.

### Service discovery: `zookClient` (common/zooClient.*)

* State: the ZooKeeper handle, per observed path the list of servers and the
  two callbacks; in the ensemble, this process's ephemeral node.
* Operations: `registerSelf` (look, delete, create), `observer`,
  `updateServer` (read the children and watch, compare, call back), `init`
  again when the session has expired.
* Interaction: all of it runs in the ZooKeeper library's completion thread.
* Hard: the connection may be lost, the session expire, other servers come and
  go between any two calls; watches fire once.
* Correct: a client at rest is registered under its present session, knows the
  servers there are, and watches for the next change; the callbacks add up.

### Reactor: `CEpoll`, `CAcceptTask`, `CLongConTask`, `CMySingleton` (common/myepoll.*, mytask.*, common.h)

* State: the epoll set, the array of reported raw task pointers and the place
  in it, one singleton task per class, each task's descriptor.
* Operations: `EpollWait`, `Add`/`Del`/`Modify`; the accept loop, `Init` and
  `Connect` of a new task; replacing the singleton instance deletes its
  predecessor.
* Interaction: calls `HandleProcess` of every task; one thread runs it all.
* Hard: a task deleted by one event of an array may be named by a later one; an
  address is used again; a second accepted connection deletes the task of the
  first; descriptors run out.
* Correct: the epoll set leads to living tasks; a deleted one is called only by
  an event reported before, and only where the design cannot help it; each open
  descriptor belongs to one task; what arrives is taken.

### Redis access (common/redisCliMgr.h, operation.h, redisclient.h)

* State: a pool of clients under a lock; per client a socket, the database it
  has selected, the stream of commands and replies under way, and how much of a
  reply has been read.
* Operations: `get`/`giveback` with a guard, single commands, pipelines and
  transactions, and the macros that reconnect and repeat.
* Interaction: any number of threads; nothing in `src/` expands the macros, so
  the users of the model are what they prescribe.
* Hard: a lost reply and a repeated command; an exception between replies or
  within one; a reconnect that fails half-way.
* Correct: a client has one user at a time; a reply is read by the command it
  answers; a command is repeated only when its connection was lost; the pool is
  bounded; every operation ends.

### Logging (common/writeRunInfo.*)

* State: per log type a flag, a counter and the suffix of its file, which other
  types share; one mutex; the files.
* Operations: `LogWrite` (test the flag; under the mutex stat, rename, append),
  `WriteStat`, `SetLogFlag`; restarts.
* Hard: two types number the same files by counters of their own, in memory; the
  size is read and the file renamed in two calls; an error is logged from within
  a function that holds the mutex.
* Correct: reading the files in the order of their numbers gives the records in
  order; a record is lost only with a file that was renamed over; only full
  files are renamed; every call returns.

### Load test: client/ and server/

* State: ten processes of ten threads, each with a websocket connection; the
  server's reply.
* Operations: connect, send on open, compare the reply, join, wait for children.
* Hard: nobody closes a connection, so threads, processes and the parent wait
  for each other; failed forks and threads are not acted upon.
* Correct: nobody ends before those it answers for; a reply is judged once; the
  test ends when the server does.

### Not modelled

* **Command dispatch** (`CWorkThread::Process`, PlugContext.h, common.cpp): a
  sequential function over a map filled at static initialisation. It is one step
  of `WorkThread`, as its result is ignored. The handlers, and the `CMyserver`
  that would send the reply, are not in `src/`.
* **Configuration** (`CConfig`): a parser and writer of one file; nothing in
  `src/` calls `WriteItem`, so there is no sequence of writes to model.
* **HTTP client**: straight sequences of libcurl calls on local variables.
* **Locks**: one pthread call each, and steps of the modules whose code takes
  them; `CThreadCond` is used by nothing.
* **UDP receiving and binding**: a loop that hands each datagram on and keeps
  nothing between two; `SendPath` models the sending half of the task.
* `process/` and `testclient/` are try-outs without state; `anet` wraps socket
  calls; `common.pb.*` is generated; `zk_*.h`, `zookeeper.jute.h` and everything
  under `depends/`, `client/json` and `server/json` is third-party.

### How the parts interact

    peer --bytes--> CTcpTask/CUdpTask --bodies--> CWorkThread's CSynQueue --> Process
                         ^                                                      |
                         |  epoll events                               reply over UDP
                      CEpoll <-- EPOLLOUT on/off -- PutMsgToSendList <----------+
    ZooKeeper --events--> zookClient --add/delete callbacks--> the list of servers
    peers --connect--> CAcceptTask --new--> CLongConTask, in CMySingleton's one place
    any thread --get/giveback--> RedisCliMgr      any thread --LogWrite--> files

The modules meet where the code does: `WorkThread` is built on an instance of
`SynQueue`; `Reactor` knows of a task what `TcpFraming` and `SendPath` say
it does to its socket and its life (quiet, ended, deleted), and they in turn know
of the reactor that it reports what is ready.

## 2 Modules

| module | models | role |
|---|---|---|
| `SynQueue` | synqueue_t.h | the queue, one step per synchronisation operation |
| `BoundedDeque` | -- | what the queue promises: calls with one atomic effect |
| `WorkThread` | work_thread.* | the worker over an instance of `SynQueue` |
| `SendPath` | basetask.*, `SendData` of mytask.cpp | sending, TCP and UDP |
| `TcpFraming` | `CTcpTask::RecvProcess`, buffer.* | receiving a TCP stream |
| `ZookClient` | zooClient.* | discovery, against a model of ZooKeeper |
| `Reactor` | myepoll.*, accept and connect in mytask.cpp, `CMySingleton` | tasks, descriptors and events |
| `LogRotation` | writeRunInfo.* | the log files and their rotation |
| `LoadTest` | client/, server/ | processes, threads, connections, verdicts |
| `RedisPool` | redisCliMgr.h, operation.h, redisclient.h | the pool and the stream of replies |
| `SynQueueProofs`, `WorkThreadProofs`, `TaskProofs`, `ReactorProofs`, `SupportProofs`, `LoadTestProofs`, `RedisPoolProofs` | -- | the theorems (section 4) |
| `SequenceLemmas` | -- | lemmas about sequences and FlattenSeq for `TaskProofs` and `SupportProofs` |
| `MCSynQueue`, `MCSendPath`, `MCTcpFraming`, `MCLogRotation` | -- | symmetry and constants for TLC |

Every definition called "Mutant" is a plausible bug put beside the definition
it would replace; no specification uses it.

### SynQueue and BoundedDeque

Each thread has a program counter; a call is the sequence `wait`, `lock`, the
deque operations, `unlock`, `post`, and other threads act between any two of
them. `get` has separate steps `GetRead` and `GetPop`, as the code has lines 67
and 68. Messages are addresses: the producer allocates one (`PutCall`), the
consumer deletes it (`Release`), and an address freed may be allocated again,
so double delivery shows as a second owner. `Pris` says which forms of `put` an
instance calls; `"other"` is a priority other than `CQUE_PRI_HIGH`, which queues
nothing. `MaxSize` is `MAX_QUEUE_SIZE`.

`BoundedDeque` has neither semaphore nor mutex: a call is made, takes effect at
one instant, and returns. `SynQueue!Abs` maps the detailed state to it: the
effect of `put` is the push, that of `get` the pop; between read and pop the
message is still the queue's.

### WorkThread

`WorkThread` instantiates `SynQueue` with the worker and the owner (who
empties the queue in the destructor) as its consumers, and embeds the queue's
own steps in `PutMsgToInputList`, `RunGet` and `DrainGet`. The life of the
object is the variable `own`: made, armed, started, stopped, quiet, drained.
Three things are not in the class and are modelled as its users must do them:
setting the protected run flag, joining the thread, and not putting messages
during destruction. `Process` is one step: `Run` ignores its result and deletes
the message in any case.

### SendPath

One task, which `kind` makes a TCP or a UDP one. A message of `Size[m]` bytes
leaves as units `<<m, i>>`; the history variables `accepted` and `wire` are what
was put and what the kernel took. The kernel takes any part that fits
(`TcpSendData`), refuses when full (EAGAIN) or fails; as `send` is called without
MSG_NOSIGNAL and nothing in `src/` ignores SIGPIPE, a failure ends the task
(`DestroySelf`) or the process (`Killed`). The turn limit `SendNum` is
`m_nSendNum`. `HandleProcess` is split at its calls, `RecvProcess` and each
turn of `SendProcess`, so that peer and kernel act in between. `DestroySelf` is
the end of the object; a step after it would show as `at # "wait"` with
`task # "alive"`. `PutMsgToSendList` may be called while the task is not
yet in the epoll set (its `epoll_ctl` then fails unnoticed) and from within
`RecvProcess`.

### TcpFraming

The buffer is modelled byte by byte with its two positions, `m_uOffset` and
`m_uGetOffset`, because what could go wrong is arithmetic on them. Byte i of
frame f is `<<f, i>>`: two neighbouring bytes that are the first two of a frame
read as its length, any other two as any length at all, and memory never
written holds `Junk`. `Recv` writes where the code does, at `JumpBuffer()`.
The peer may close, which `recv` answers with 0 once all is read, or reset, which
it may answer with an error even before (`RecvNothing`); both end the task.
`cut` remembers whether some recv ended inside a frame; the properties about
content hold exactly as long as none did (section 5 says why). `MaxShort` is
32767 in the code, where `m_iDataSize` is a `short`; `DataSize` wraps.

### ZookClient

The completion thread handles one event at a time: `at` is its place in a
handler, `todo` the paths the loop of `observer` has left. Each call to
ZooKeeper is a step of its own, and finds the connection up or not. The library
and the ensemble are external, modelled from what zooClient.cpp relies on:
sessions, one ephemeral node, one-shot child watches, which the library sets
again when the same session reconnects (`missed` are those that fire then),
requests applied in order, pending requests dropped with the connection.
A failed `zoo_exists` leaves its result uninitialised, so the next step is a
free choice (`Exists`); behind it `registerSelf` writes to a file whatever `fopen`
returned, which may end the process (`Crash`). Owner 0 stands for the session of an earlier process.

### Reactor

The thread's place (`at`) is `epoll_wait`, the loop over the array (`batch` is
what is left of it), or the accept loop, which is split at `SetInstance`. Tasks
are addresses and are allocated again after a deletion, so an event may reach a
new task by an old pointer. A call of a deleted task, and a delete of one, lead
to `at = "undefined"`, of which nothing is said. `sock` is all the reactor sees
of a connection: quiet, data, or an end on which `RecvProcess` answers -1.
`CLongConTask::Init` tests `m_iTimeOut`, which the constructor for accepted
sockets does not set: both outcomes are steps (`InitSockets`). Where `Connect`
is called, its new socket replaces the accepted one (`orphans`).

### LogRotation

A call is the sequence flag, lock, stat, rename, open-write-close, unlock, and
the mutex is a variable that only the models of `Lock` and `UnLock` touch.
Records are numbered per suffix in the order in which they reach the file, so
files are sequences of numbers, sizes are counted in records, and what a rename
destroys is known (`gone`). A restart may come at any step; it forgets flags and
counters and keeps the files. Any call of the system may fail, `stat` on a file
that is there as well.

### LoadTest

One variable per actor: the parent, each child, each thread's connection, the
server. Payloads are two texts, `Written` puts the newline of JsonCpp's writer
behind each. `pthread_join` of what is no thread may return or kill the child
(`Join`, `JoinNothing`).

### RedisPool

A user is a thread inside `GET_REDIS_CLIENT` ... `CATCH_REDIS_EXCEPTION`.
Commands are pairs of operation and position; `req` and `rep` are the two
directions of the one connection, so that a reply left unread shows as a later
reader's wrong reply. A reply is read in parts, as the code reads a line, then a
body, or one element after another: `midway` holds the clients whose first reply
is read in part (`RecvPart`), and `RecvReply` reads the last of it. Where an
operation throws is free (`RecvThrows`), and so is what it has taken from the stream by
then (`Wrong`): the whole reply, as of an error in one line; or its first line or
some elements, when it is of another type than the reader's; or nothing. In the last two
cases, or when other replies were still to come, the client leaves
`insync`, and from then on what its users read may be anything: any part of the
stream, as a reply, a piece of one or an exception (`RecvAstray`), or a wait
without end, since text is taken for a length. Any exception ends in one of the
two catch clauses: `Closed` reconnects and repeats once, `Logged` gives the client
back as it is, or ends the process, because the logged format has a `%s` without an
argument. An EXEC is never answered `*-1`, which the code would read on after:
redis does so only after a WATCH, and nothing in `src/` sends one.
`times`, `lost`, `peak` and `insync` are history.

## 3 Runs

All runs are exhaustive within their bounds.

| run | module, cfg | states | checks |
|---|---|---|---|
| `queue_messages` | MCSynQueue, SynQueueMessages | 281 k | `TokenConservation` `SoleOwner` `NoLeak` `ImplementsDeque` |
| `queue_read_tokens` | MCSynQueue, SynQueueReadTokens | -- | violation of `ReadTokensAreElements` |
| `work` | WorkThread, WorkThread | 15 k | `DrainNeverBlocks` `NothingLeaks` `AtMostOneAfterStop` `QueuedIsProcessed` `MessageEndsStopped` |
| `send` | MCSendPath, SendPath | 12 k | `NothingLost` `ArmedWhilePending` `EventuallySent` `IdleDisarms` |
| `framing` | MCTcpFraming, TcpFraming | 923 k | `FramingTypeOK` `StaysInBuffer` `FramesIntact` `NeverCrashes` `EveryFrameDelivered` |
| `framing_split` | MCTcpFraming, TcpFramingSplit | -- | violation of `ReceivedIsKept` |
| `zook` | ZookClient, ZookClient | 372 k | `ToldIsKnown` `QuietIsCurrent` `QuietIsRegistered` `DelIsGoneOrDown` `Settles` |
| `reactor` | Reactor, Reactor | 206 k | `RegisteredLive` `DescriptorsAccounted` `StaleOnlyReplaced` `FirstConnectionSafe` `Served` |
| `log_rotation` | MCLogRotation, LogRotation | 335 k | `ReadsAsOne` `NothingElseLost` `RotatedFull` `CallsReturn` |
| `load_test` | LoadTest, LoadTest | 102 k | `NothingLeftBehind` `JudgedOnce` `Ends` |
| `load_verdict` | LoadTest, LoadTestVerdict | -- | violation of `JudgedAsExpected` |
| `redis_pool` | RedisPool, RedisPool | 585 k | `OneUser` `InStep` `RepeatedOnlyIfLost` `PoolWithinPeak` `OperationsEnd` |

The type invariants are proved (section 4); `TcpFraming` checks its own in a run
as well, since the arithmetic of the positions in the buffer is in it. The
definitions of `TcpFraming` and `LogRotation` that would be called `Init`, `Next`,
`Spec`, `TypeOK` carry a prefix (`FramingInit`, `LogInit`, ...), because a proof
module extends each of them together with another component.

**Queue.** Three producers and two consumers meet at two slots (`MaxSize = 3`):
producers wait for each other and for consumers, both consumers are inside
`get` at once, and both ends of the deque are used. Four addresses are fewer
than the threads and slots could hold, so they are used again. Deadlock is
checked. There is no symmetry: the refinement is a temporal property. The
priority that drops messages is in `queue_read_tokens` and in the proofs.

**Worker.** Two putters, two slots, four addresses, one life of the object,
with `Start` failing or not. It shows that shutdown deletes every message, that
the destructor's `get` never blocks once the worker has ended, that at most one
message is processed after `Stop`, and that messages are taken while it runs.
`MessageEndsStopped` states what holds instead of "Stop ends the worker", which
does not: a worker blocked in `get` ends with the next message.

**Send.** Three messages of one, two and three bytes, a socket buffer of two and
a turn limit of two: messages are cut in every way, EAGAIN and the limit strike
in the middle of a message, and a message is put before registration, between
events and within one.

**Framing.** Frames of 4, 2 (empty body) and 6 bytes (body larger than the
signed size's maximum, 3) in a buffer of 8: neighbouring frames fit together, not
all three, every recv takes any part, and the last one overflows `m_iDataSize`.
The size properties hold for every cut; the content properties have the premise
that no recv ended inside a frame. The peer may close or reset between any two steps.

**Discovery.** Two paths (so that a handler has a place between them), two
servers, two losses, one expiry and two changes, at any step of any handler.
Two losses allow one within the handler of the reconnection after the other;
two changes allow one that is read and one that is missed.

**Reactor.** Four connections over three descriptors, three task addresses and
an array of two: an accepted and an overwriting socket leave one descriptor, so
they run out; addresses and descriptors are used again while an old pointer is in the
array. When the thread waits, at most one task is registered besides the
listening socket, so an array of two holds all that can be ready, and two are needed
for an old event to stand behind that of the acceptor; arrays that are too short
for the ready set are in the theorems, where the size is any. `FirstConnectionSafe` and
`StaleOnlyReplaced` bound a real defect: from the second connection on a deleted
task may be called, and only one that `SetInstance` deleted.

**Logging.** Two threads; two types that share a file and one of its own (the
one that is always on); two numbers, two records to a file: with six records the
counter comes round and a file is renamed over, and two failures or restarts fall anywhere.
The premise of `ReadsAsOne` says what order depends on: one of the types of a
suffix has done all the rotating, since the process began.

**Load test.** Two children of two threads and two failing forks or threads: one
child fails to be made or makes no thread at all, or both children have lost one.
The server may fail to listen and may end at any time.

**Redis.** Two users, two clients (what two users need), two operations of one to
three commands and three faults: one connection is lost, and made again, while the
other is in use; the repetition is lost as well; the replies of one operation, or a
part of one, are left behind and met by the other, which is the next user of the same client.
With three commands an exception falls before, between and behind others. Only
two operations: the pool of two clients is filled but not used again after both
are back; `ClientHasOneUser` and the other theorems have no such bound.

**Fairness.** A thread or a handler that can take its next step takes it (weak
fairness of the worker, the drain, each put under way, the reactor's thread, the
completion thread, a thread inside a log call, each process and thread of the
load test, each redis user that has begun and whose stream is in step); epoll is level-triggered, so a ready
socket is reported; the peer reads what it is sent; a lost connection to the
ensemble is made again; redis executes what it is sent, the websocket server
answers while it is up, and its connections go when it does. The log mutex has
strong fairness: a thread is not passed over for ever while others lock and unlock
it. That is an assumption about the scheduler: a pthread mutex promises no order, but
a log call does I/O while it holds it and the next call is not made at once. None is assumed of the calls of users (`put`, `Stop`,
the destructor, `LogWrite`, `get`), of losses, errors or changes, or of the
library's delivery of a watch it missed. Weak fairness is enough for the queue
although a semaphore hands its token to any waiter: the worker is the queue's
only consumer until it ends, and the putters are bounded by the slots. Runs with
liveness properties stop by design (the object is destroyed, every message or
frame was sent, every bound is used up), so deadlock checking is off in them.

## 4 Proofs

TLAPS proves the following for all values of the constants; the assumptions are
the named ASSUMEs of the modules (finite sets of threads and paths, positive
capacities, distinct null values), which every instance meets. That of
`TcpFraming` is the one with numbers in it: the buffer is twice as large as the
first number a `short` cannot hold (65536 and 32768 in the code), and a frame is at least
its two bytes of length and smaller than the buffer.

Together the theorems state every invariant that a passing run checks, the
action properties and the refinement. What only TLC checks is liveness.

**SynQueueProofs.** `QueueInvariant` (types, token conservation, the bound on
the deque), `DequeWithinTokens`, `OneOwner`; and, without the dropping priority,
`GetNeverEmpty`, `NothingDropped` and `QueueRefinesDeque`: every step of the
semaphores, the mutex and the deque is a step of `BoundedDeque` or a stutter. The
statements are about the *number* of threads at given program points, so the
lemmas `Count...` first say how one thread's step changes such a number. The
invariant adds to the token equation who is where when the mutex is held, that a
thread about to pop has a message to pop, and that the deque's length is bounded
on both sides by read tokens in the semaphore and in hands; each step then is
arithmetic. For the owners (`Hold`) it says of each message at which of the
places (in a hand before the push, in the deque, in a hand after the read) it is.
The refinement needs both: that the abstract deque has room when the push
happens is the token equation, that the abstract `get` finds the message the
concrete one has read is `Hold`.

**WorkThreadProofs.** `PartiesFit` (types), `DestructorGoesOn`, `NoneOutlives`,
`OneAfterStop`. `SynQueueProofs` is instantiated with the putters and with the
worker and owner as consumers: every step of `WorkThread` is a step of that queue
or leaves it alone, so the queue's invariant holds inside. `Life` adds where the
object is in its life and that worker and owner are never consumers together.

**TaskProofs, sending.** `SendPathTypes`, `ArmedTask`, `DestroyedTaskIsLeft`,
`UdpTaskSurvives`, `DatagramsInOrder`, `NothingIsLost`. The second is nearly
inductive; what it needs is that only a living task is in the epoll set, that only
a task in it is handled, that the loop has turns left when it goes round, and that
a datagram is never half sent. `InOrder` is the UDP half of `NothingLost`, where a
sequence of messages is compared. For TCP, `StreamInOrder` says that what has left,
then the rest of the message that was begun, then the bytes of those that
wait, is the bytes of what was put. `SendData` moves the line between the first two
(`UnitsJoin`), `SendProcess` takes a message from the front of the last, and
`PutMsgToSendList` adds one at the end of both sides: so the concatenation has to
be taken apart at either end (`SequenceLemmas`). When an error ends the task
or the process, what remains of the equation is that the peer has a prefix.

**TaskProofs, receiving.** `TcpTypes`, `TcpStaysInBuffer`, `TcpFramesIntact`,
`TcpNeverCrashes`. The first two need no premise about how the stream is cut:
`BufferInv` relates the two positions and the parser's state (the read position is
0, or 2 with at least two bytes before it), says that the signed size is what
16 bits of the total make of it (`SizeFits`), and that there is room when the task
goes to receive (`RoomLeft`). That `memcpy` and `recv` stay inside the buffer is
then arithmetic. The other two hold while no recv ended inside a frame. `Stream`
says so of every place a byte can be in: what was delivered is the bodies
up to some frame, the buffer holds whole frames from the next one on
(`Whole`: around each byte is all of its frame, behind a frame's last byte begins
its successor), the connection those that follow, and the peer has yet to
send the rest; once its length has been read, the total is that of the first frame in
the buffer. Nothing counts bytes: each names its frame and its place,
so that one statement about neighbours replaces sums of lengths.

**SequenceLemmas.** What `Append`, `Tail`, `SubSeq` and `\o` do to the elements, and
`FlattenSeq`: it is a sequence of the parts' elements, and may gain a last part
(`FlattenAppend`) or lose the first (`FlattenTail`). The library defines it by
a fold, that is by a recursive function over the length. The theorems on
induction cannot be instantiated here, as their parameter is an operator, but
`WFMin` can be, whose parameters are sets: a set of naturals has a least
element (`LeastNat`). So a set with 0 and all successors is all of Nat (`Induction`),
and the statement proved about every length is put as the set of lengths for
which it holds.

**SupportProofs, the log.** `RotatesOnlyFull`, `RecordsAccounted`, `ReadsInOrder`.
`Held` says that a thread between lock and unlock is the mutex's holder;
`StillFull` that what `stat` saw is still so at the rename, across restarts.
`NothingElseLost` counts the files that hold a record. The invariant says instead that
no two do, and that none does exactly if the record is gone (`InOnePlace`), and that
no file holds one not yet written (`Accounted`), so that the next is nowhere;
only the last step turns this into a cardinality. For `ReadsAsOne`, `Latest` says that the
files from the counter on, round the numbers and then the current one, read as consecutive
records. A rename moves the current file to the end of that round and drops its
first file (`Rotated`), which leaves the end of the sequence as it was; a write
appends. `Counted` says that a type that has rotated a suffix's files has that
suffix, and that while none has, all counters are 0, so that a first rotator
continues where the files are read from.

**SupportProofs, the directory.** `QuietClientIsCurrent`, `QuietClientIsRegistered`,
`ToldAddsUp`, `DeletedIsGone`. The first two speak of a client at rest; the invariant
says what stands in for their conclusion while it is not. For each path (`Fresh`), when
connected: the list is right and watched, or the running handler will still
read it, or an event that will make it do so is pending. For the node
(`Registering`): it is this session's, or `registerSelf` will run, or is before
its delete, or the place is free and the create is next or under way. An
expiry event never outlives its session's expired state (`ExpiryIsOver`): so
handling it leads to a new session and never hides a connected one. The lemmas
`News...` say what taking an event off the queue, or adding one, does to the
events in it. `DeletedIsGone` is the action property `DelIsGoneOrDown`: it follows
from the types, as `updateServer` alone calls back.

**ReactorProofs.** `ReactorInvariant` (with `DescriptorsAccounted`),
`NoDeadTaskRegistered`, `SingletonIsSingle`, `StaleMeansReplaced` and `FirstIsSafe`.
`Tables` relates the epoll set, the tasks'
descriptors and the sockets; `History` adds that the tasks of an array are
distinct (otherwise a task that ended itself could be named again), and how the
numbers of accepted and of replaced tasks are related.

**LoadTestProofs.** `NobodyLeftBehind`, `OneVerdict`, `LoadTestTypes`. `Tree`
says that what a loop has passed, joined or reaped, has ended; `Talk` that of
request, reply and verdict each connection has at most one.

**RedisPoolProofs.** `ClientHasOneUser`, `PoolIsBounded`, `RedisPoolTypes`,
`RepliesInStep`, `RepeatedWhenLost`. A client is with one user or at one place in
the pool (`Apart`, `Somewhere`). The bound counts those that are being made in
(`Enough`): the peak is at least the clients that exist plus the users waiting for a
new one. The types need that whoever has a client has an operation (`Numbered`), so
that what is sent carries its number. For `InStep`, `Sync` says of each client that no
exception has left half read: with nobody reading, both directions are empty; with
a reader, the replies under way and then the commands to be served are, in
order, the rest of the reader's operation (`Contents`), all of it unless the
connection was lost (`Amount`). That a reply half read is the first of those under way
(`midway`) makes the silence of an unused client one to the last byte; for an
exception the proof has a case for each thing it may have taken, and only the one that has
taken all of the last reply keeps the client. Of `RepeatedOnlyIfLost`, which speaks of what the server
executed, `Tally` is the side of the client: an operation's first command is in
at most one place of one stream, an operation not yet begun in none, and one that is about to be
sent a second time was executed at most once, and then only if its connection
was lost.

Only model-checked: the liveness properties, which need fairness: `QueuedIsProcessed`,
`MessageEndsStopped`, `EventuallySent`, `IdleDisarms`, `EveryFrameDelivered`,
`Settles`, `Served`, `CallsReturn`, `Ends` and `OperationsEnd`. The statements of the
runs that expect a violation are false and have no theorem.

## 5 Findings

* **A queued element that is none** (`queue_read_tokens`). `put(pMsg, pri)` with
  a priority other than `CQUE_PRI_HIGH` adds nothing to the deque and posts
  `m_sem_read` all the same (synqueue_t.h:50-56), the number of readable
  elements according to line 88. The message is lost, and a later `get` returns
  NULL.
* **A frame in two pieces is corrupted** (`framing_split`). After a partial
  frame the code returns for "more data" (mytask.cpp:109, 130), but the next
  `recv` is given `JumpBuffer()` (line 68), the read position, and not the end
  of the data: it overwrites what was kept. `AddDataSize` then counts bytes
  that were never written.
* **A right reply is an error** (`load_verdict`). `on_message` prints "ok!" when
  `payload.compare(coo)` is not 0, that is when the two differ
  (client/cclient.cpp:33); README:6 counts a reply that is as expected as a
  success. The server's `FastWriter` ends the text with a newline
  (server/main.cpp:27), so the inverted test is what lets the test pass.
* **No copy is sent back** (`load_test`). The comment at client/cclient.h:22-23 says
  that the handler "prints the message and then sends a copy of the message back
  to the server"; `on_message` (client/cclient.cpp:30-38) prints a verdict and
  sends nothing. `JudgedOnce` says what the code does, and it holds; with the copy (the mutant
  `OnMessageEcho`) it does not, and as the server answers every message, the two
  would go on for ever. The comment is what is wrong here.

Observations that no doc or comment contradicts, which the models contain:

* A body larger than 32767 bytes, which the 16-bit length allows, makes
  `m_iDataSize` negative (mytask.cpp:122); `ProcessOnePacket` then copies some
  four gigabytes. `NeverCrashes` has it as a premise.
* A failed `zoo_get_children` looks like an empty path, so every known server is
  reported deleted and, after the reconnection, added again (zooClient.cpp:303).
* When `zoo_exists` fails, its uninitialised result decides whether the
  process deletes its own registration (zooClient.cpp:258-269); a create follows.
* With more than 255 children a `uint8_t` counter never ends its loop
  (zooClient.cpp:99, 351). The lists of the model are sets without that limit.
* From the second accepted connection on, `SetInstance` may delete a task that
  an event of the same array still names, or one that has already deleted itself
  (common.h:156, myepoll.cpp:86).
* `CLongConTask::Init` tests `m_iTimeOut`, which this constructor leaves
  uninitialised (mytask.cpp:193, 213); if it then connects, the accepted
  descriptor is never closed.
* `Connect` puts its socket into an `fd_set` even when it is -1 or above 1023
  (mytask.cpp:229).
* An exception between the replies of a pipeline leaves the others in the stream,
  and one at the first line of a reply of another type leaves the rest of that reply,
  where the next users of the client read them as their own (redisclient.h:700,
  2328-2333, 2405);
  after a reconnect whose SELECT failed the client is in the wrong database (399).
  `InStep` has it as its premise that neither has happened: it says that nothing
  else puts a client out of step, and does not catch these.
* A peer that is gone when a TCP task sends to it may end the process by SIGPIPE
  (mytask.cpp:153). So may a directory without room for lzp.log, as the result of
  `fopen` is not looked at (zooClient.cpp:260-263).
* `reconnect` does not close the old socket. The logged message of the macro has
  a `%s` and no argument (operation.h:65).
* The flag of a log type is tested before the mutex is waited for: each thread
  may write one record of a type that was switched off meanwhile.
* A type that shares its file with another, and a restart, rename over files out
  of order (writeRunInfo.cpp:353): `ReadsAsOne` has their absence as a premise.

## 6 Limits

* The memory model is sequential consistency. `m_nRunFlag` and `size()` are
  read without a lock; the reads are steps of their own.
* `sem_wait` interrupted by a signal, and failing allocation, are left out:
  nothing in `src/` installs a handler.
* `SendPath` has one thread, the reactor's. Whether `PutMsgToSendList` is also
  called by a worker depends on a class derived from `CMyserver` that is not in
  the repository; the list is not locked.
* `TcpFraming` and `SendPath` describe the two halves of the same task
  separately. They share the socket and `DestroySelf` only; `SendPath` takes
  the verdict of `RecvProcess` as free.
* `CVBuffer`'s storage and stream operators are used by nothing on this path.
* `ZookClient` starts when `zookeeper_init` has returned. The library may
  deliver the first event before `_zhandle_t` is assigned (zooClient.cpp:65);
  nothing in the code orders the two. An expiry needs a connection made
  before, and a retry of `zookeeper_init` after a failure does not exist: then
  the client stays closed, which `Settles` allows.
* `Reactor` goes on after a write outside an `fd_set` as if it had hit unused
  memory, and says nothing of what follows the use of a deleted task. An
  `epoll_wait` that times out or fails changes nothing. A connection's data
  and end are flags, so that bytes are never counted there.
* `LogRotation` leaves out the formats, and the three functions that write
  a file of the day as `WriteStat` does; a record that does not fit the disk is a
  failing call.
* `RedisPool` has clients of one connection: the classes for several servers at
  the end of redisclient.h, its some hundred wrappers that format one
  command each, and descriptors leaked by `reconnect` are left out. The server
  answers in order and executes each command it receives once. Of a reply that
  the connection loses in part, the part is lost too; what is read out of step has no
  content, only an extent.
* `LoadTest` takes websocketpp as it is used: handlers run in the thread that
  called `run`, and messages of one connection are in order.
* The definitions map some 1600 lines of the hand-written sources. Most of the
  other lines under `src/` are headers of libraries and generated code
  (section 1); measured over all of them the share is small and cannot grow much.
* Names, addresses, formats and log output are abstracted everywhere.

## 7 What could come next

* A refinement of the reactor's view of a task (quiet, data, ended) by `TcpFraming`
  and `SendPath` together, sharing one socket.
* The descriptors `reconnect` leaks, with the kernel's limit.
