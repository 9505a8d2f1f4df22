# ffead-cpp: TLA+ models of the server and its services

ffead-cpp is a C++ web framework with an embedded HTTP server. These modules
model the parts of it that keep state across steps, threads or messages: the
thread pools, a connection's life from `accept` to `delete`, the readers of
HTTP/1.1, HTTP/2 and WebSocket input, the job scheduler, the caches, the
connection pool and identifier blocks of the ORM, and the asynchronous
PostgreSQL data sources. Paths below are relative to the repository's `src/`;
a bare file name is unique there.

## The system

### Parts, their state and operations

| Part | State | Operations | What makes it correct |
|---|---|---|---|
| Thread pool, `ThreadPool.cpp`, `PoolThread.cpp`, `Mutex.cpp` | shared index `currentThread`; per worker a lock-free queue, mutex and condition variable, `condVar`, `runFlag`, `complete` | `submit`, `addTask`, `run`, `stop`, `joinAll` | no task behind a sleeping worker; a socket's tasks one at a time and in order; a shutdown that ends |
| Task pool, `TaskPool.cpp`, `FutureTask.cpp`, `Task.cpp` | shared queue, `count`, scheduled tasks and timers, result flags | `addTask`, `addPTask`, `addSTask`, `getTask`, `getResult` | every queued task runs; none before its time; a result only after the call |
| Event multiplexer, `SelEpolKqEvPrt.cpp` | the kernel's registration of each descriptor | `registerRead`, `registerWrite`, `unRegisterWrite`, `getDescriptor`, `loop` | no edge lost while a registration is replaced |
| Connection, `RequestHandler2.cpp` | input buffer, `isHeadersDone`, `bytesToRead`, `outbuf`, `closed` | `handle`, `read`, the `WRITE_READY` callback | requests framed as sent; responses in order and whole |
| Connection, `RequestReaderHandler.cpp`, `SocketInterface.cpp`, `HttpServiceHandler.cpp` | input buffer, `reqPos`, `current`, `wtl`, `closed` | `HttpReadTask`, `HttpWriteTask`, `pushResponse`, `completeWrite`, `closeSocket` | the same, across two tasks and two threads |
| Service handler, `ServiceHandler.cpp` | queue of closed sockets, use counters | `registerReadRequest`, `registerWriteRequest`, `closeConnections` | a socket is deleted once, after its last use |
| HTTP/2 and WebSockets, `http/http20`, `http/http11` | streams, HPACK tables, partial frames and messages | frame handlers, `encode`, `decode`, `nextFrame`, `processFrame` | frames cut where they end; one request per stream; header fields arrive |
| Job scheduler, `jobs`, `Date.cpp` | one thread and one `nextRunDate` per job | `start`, `stop`, `run`, `tryIncrement` | a job runs in the minutes its expression names, once in each |
| In-memory cache, `cache/memory` | two LRU lists with maps of iterators, a map of queues | `set`, `add`, `replace`, `get`, `remove`, `increment`, queue calls | list and map agree; a bounded LRU map to its callers |
| Distributed cache, `distocache` | named containers, their types and mutexes; shared connections | `allocate`, `deallocate`, the list, set, map and object commands | calls look atomic; every call returns |
| Connection pool, `ConnectionPooler.cpp`, `SQLDataSourceImpl.cpp` | queue of idle connections; a connection and a transaction per session | `checkout`, `release`, `destroyPool`, transaction calls | one holder per connection; none lost; work committed by its own session |
| Id generators, `IDGenerator.cpp`, `HiloIdGenerator.cpp` | a block of identifiers in memory, the high value in the database | `init`, `next`, table row or sequence | no identifier twice |
| Asynchronous PostgreSQL, `LibpqDataSourceImpl.cpp` | queue of requests, the query in hand, statements out, prepared statements | post, `submit`, `run` in three variants | each request gets its own results and one final callback |
| Message queues, object pool, other back ends, framework, serialization, reflection, templates, search, IoC, client utilities, common | see "Not modelled" | | |

### How the parts meet

The acceptor thread registers a new descriptor with an event loop, which owns
the descriptor's registration and calls back into the handler.
`RequestHandler2` serves in the callback itself, so one thread does everything
for a connection. `RequestReaderHandler` submits a task to the pool for every
event; the pool pins all tasks of a socket to one worker (`SocketInterface::tid`),
which is the only thing that keeps them from overlapping, since their locks are
commented out. Both the loop and the worker may close a socket; a sweeping
thread deletes it later. The peer acts at any time and is seen only through the
kernel: readiness, short reads, partial writes, `EAGAIN`, hangups. The bytes of a
socket go to the reader of its protocol; the service function above it may use
sessions (a connection from the pool, an identifier block), the caches, and the
asynchronous data sources, whose sockets are served by the same event loop.

### What is hard

Wakeups between a lock-free queue and a counter kept partly outside its mutex;
edges that are reported once; a registration that is replaced while events
arrive; responses begun by one task and finished by another; a hangup seen by
two threads and an object deleted by a third; check-then-act over several
critical sections; transactions and identifier blocks that outlive the session
or the process that began them; results that return after their request has
failed; dates at the ends of months and years. `PROJECT.json` lists these
hazards at their lines, with the properties that cover each of them and the part
of it that no property catches; one has no property, with the reason.

## The modules

| Module | Models | Run |
|---|---|---|
| `ThreadPool`, proofs in `ThreadPoolProofs` | the plain pool | `pool_two_loops`, `pool_server` |
| `TaskPool`, proofs in `TaskPoolProofs` | the pool with priorities or schedules, futures | `timed_work` |
| `CronTimer`, `CronSchedule`, `JobScheduler` (proofs in `TaskPoolProofs`) | cron expressions and dates (operators); the dates of one job; the job threads | `timed_work` |
| `Http11Socket`, proofs in `Http11SocketProofs` | a connection of `RequestHandler2` | `conn` |
| `SocketInterface`, proofs in `SocketInterfaceProofs` | a connection of `RequestReaderHandler` | `socket`, `socket_stall` |
| `PipelinedResponses` | abstract: an in-order, gapless response stream | refined in `conn`, `socket` |
| `CloseQueue`, proofs in `CloseQueueProofs` | closing, queueing and deleting connections | `close_queue` |
| `WebSocket`, `Http2Stream` (proofs in `ProtocolProofs`), `Hpack`, `HpackCodec`, `HpackInputs` | the other protocols' readers | `protocols`, `websocket_served` |
| `ConnectionPool`, proofs in `SessionsProofs` | connections that sessions share | `sessions` |
| `HiloIds`, proofs in `SessionsProofs` | identifier blocks that threads and processes share | `sessions` |
| `PgReadTask`, `PgPipeline`, `FpgWire` | the three asynchronous data sources | `postgres` |
| `AsyncQueries` | abstract: one final callback each, in order | refined in `postgres` |
| `CacheMap` (proofs in `CacheMapProofs`), `CacheContainers` | the distributed cache; what a command does to a container (operators) | `caches` |
| `AtomicContainers` | abstract: calls take effect at one moment | refined in `caches` |
| `MemoryCache`, proofs in `CacheMapProofs` | the cache in memory | `caches` |
| `LruMap` | abstract: a bounded LRU map | refined in `caches` |
| `TimedWork`, `Protocols`, `Caches` | two of the above side by side: `TaskPool` with `JobScheduler`, `WebSocket` with `Http2Stream`, `CacheMap` with `MemoryCache` | extended by the run and by the proofs, so that both mean the same property |

`MC...` modules give the constants their values. Four of them put parts that
share no state side by side: `MCTimedWork`, `MCSessions`, `MCProtocols` and
`MCAsyncQueries` have a variable (`part` or `mode`) that is chosen in `Init` and says
which part moves, while the variables of the others rest; in `MCCaches` the plan
does so. Every behaviour of each part is a behaviour of the composition, so a
property of one of them means what it means in its own module.

A definition whose comment begins with "Mutant:" is a plausible mistake in the
definition that follows it. `PROJECT.json` pairs each with the property that
detects it; nothing else refers to them.

### ThreadPool

Variables carry the names of the fields they stand for. `pc[p]` is where
submitter `p` stands in `submit`, `addTask` or `joinAll`; `wpc[w]` where worker
`w` stands in `PoolThread::run`. One action is one step another thread can
observe: `SubmitFresh` is `currentThread++`, `LoadIndex`, `CasSucceeds` and
`CasFails` are the compare-exchange loop (which may also fail spuriously),
`AddTaskEnqueue` and `AddTaskNotify` are the two halves of the critical section
and hold the worker's mutex between them. `Heads` is the only assumption about
`moodycamel::ConcurrentQueue`: entries of one producer keep their order, entries
of different producers have none. `WorkerDrainNull` is the dereference of a null
task in the drain loop, after which the process is gone (`crashed`).

A socket belongs to one event loop (`Owner`): its first submit and all later
ones come from the same thread, as in the code. `MaxJobs` and `MaxRounds` bound
submissions and passes of `joinAll`.

### TaskPool, CronTimer, CronSchedule, JobScheduler

`TaskPool` has the shared queue, `count` and condition variable of
`runWithTaskPool`. `std::priority_queue<Task*>` compares pointers, so `getTask`
takes any task. A future is marked (`SetFuture`) after it is published, as in
`ThreadPool::submit`; a worker may run it in between. In the scheduled mode the
timer thread moves at most `Batch` due tasks; `isWaitOver` is evaluated on
milliseconds with the code's integer divisions. `joinAll` of such a pool waits for
workers that nobody wakes (`PoolThread.cpp:121`), and a scheduled task is moved
without a signal (`TaskPool.cpp:112`); both are in the model, and the liveness
property stops at a shutdown and is about the priority queue.

`CronTimer` has the parts of an expression, `isValid` and the calculation of the
next run after a run (`tryIncrement`, `correctNextRunDateTime`) with `Date`'s
carries. Months are numbered as the code does it, which is in two ways: the clock
from 0 (`Date.cpp:148`), the expression and the date arithmetic from 1. So an
expression's months come a month late, January is month 0, which like minute 0
and hour 0 `isValid` never accepts (`CronTimer.cpp:450`), and days are carried by
the length of the month before. `InReach` says where this arithmetic finds the
next date all the same: within a month up to its 28th day; into another
month when days up to the 28th are named, and into another year when months up to
the 11th are named too, for they are then set and not counted; in no case when the
year is named. An
expression with a single year out of range is accepted as one for every year.
`CronSchedule` compares each calculated date with the calendar and goes on until
a date never comes. `JobScheduler` runs the threads against the clock, minute by
minute, with functions that return, take time or throw. `nextRunDate` begins as
the minute of the start, so a job started in a minute its expression does not
name never runs; neither does one whose function is still busy when its next date
goes by. `strayed` records the jobs that any of this has happened to.

### Http11Socket

The peer's bytes are positions of one stream, so a request is three positions:
where it begins, where its headers end, where it ends. The buffer is an interval
of positions; `Fin` says where a match of `HDR_FIN` ends, in bodies too. Each
`recv` and each `send` is a step of its own, with every size the kernel may
choose. `armed` is epoll's ready list: an edge sets it, delivering the event
clears it, and `EPOLL_CTL_MOD` sets it again if something is pending. `recv`
and `send` on a closed descriptor fail; reuse of the number is `CloseQueue`'s
subject.

`read` is split at the point where headers are complete; `handle`'s loop around
it and the local `pd` (new output this time) are as in the code. `hsh` is the
size of the answer: 0 is a handler that answers by another way. Not modelled:
SSL, io_uring, the `handleWrites` thread, chunked requests (`isTeRequest` is
never set by the code).

### SocketInterface

The event loop (`lpc`) and the worker (`wpc`) interleave; `tasks` is the
worker's queue of this socket's tasks, which `ThreadPool` justifies
(`SocketSerial`, `SocketInOrder`). A request is one message here; framing
is `Http11Socket`'s subject. `closeSocket` takes two steps, because `closed` is
set after the descriptor is closed and the socket queued: `queued` counts how
often that happens. `completeWrite` computes its `reqPos` once and `wtl[...]`
creates missing entries, both as in the code.

The peer sends a request after it has read the response before it. With
pipelining this handler can let a later response overtake one that is blocked;
no document promises pipelining for it, so the runs keep to the peers for which
it is meant, and the hazard list says so.

### PipelinedResponses

What both connections promise: units leave in the order of the requests, each
response whole before the next, until the connection is closed. The refinement
mappings are `served <- Len(served), open <- ~closed` and
`served <- reqPos, open <- fdOpen`.

### CloseQueue

Two connections over descriptor numbers that the kernel hands out again. Event loop
and worker go through `closeSocket` step by step (test, close the descriptor, queue,
set `closed`); a task may still be queued when its socket closes. The sweep of
`closeConnectionsInternal` deletes what was closed more than `Grace` seconds ago,
puts the rest back, and stops after `MaxKept` of those; it also asks that
`useCounter` be 0, which it always is, since nothing calls `use`. So the ten seconds
alone protect queued tasks, and `MaxWait` says how long those may wait. `raced`
records that both threads were inside `closeSocket` of one connection at once, the
one way in which the code deletes twice or closes another's descriptor.

### WebSocket, Http2Stream, Hpack

`WebSocket` cuts frames out of a byte stream delivered in any pieces and joins
fragments by the last opcode seen. `completed` has the messages whose last frame
has come, each with whether it is `handed` over: the entry of an opcode is made by
the first byte of payload and stays (`entries`), so an empty message is dropped
until some frame of its opcode had a payload. `Direct` says which `readFrom` fills the
buffer (see the findings). `Http2Stream` has the stream states of
`Http2StreamHandler::handle`, with `endofstream` as the code sets it
(`Http2StreamHandler.cpp:43`); as called today `readRequest` gives up before its frame
loop (`Http2Handler.cpp:189`), so this is what the loop does when it is fed.
`Hpack` has both tables, looked up by name and value run together. Against a peer
that follows HPACK it differs in never-indexed fields, in the numbering (oldest
first, no duplicate pairs; `Http2HPACKContext.cpp:631`, `:1049`), so the property
for such a peer covers at most one indexed field. `HpackCodec` has the number and
Huffman codings bit by bit and is compared with the strings and numbers of
`HpackInputs`; numbers of more than two bytes and strings of one byte do not
come back, and the property says so.

### ConnectionPool, HiloIds

A session checks out at its first statement: from the queue, after `Tries` misses by
a new connection out of the pool, or not at all when connecting fails. `release`
closes what is out of pool. The database keeps `auto` and `pending` per handle, so
that work left by one session and committed by another is visible. `commit` and
`rollback` do not look whether autocommit could be turned on again
(`SQLDataSourceImpl.cpp:1376`, `:1405`); a handle on which it could not is
`abandoned`, like one that is given back in the middle of a transaction. `HiloIds`
has the reservation of a block in its statements under autocommit, in a table row or
a sequence, the shared block in memory, and processes that end at any point and
start again. An update of the row that meets another's new value misses silently
(`SQLDataSourceImpl.cpp:375`); `missed` records it. Statements may fail, and nobody
looks: a failed update (`unsaved`) leaves a block that the next one reserves again,
a failed query (`failed`) leaves -1, which is installed as the block from `-Low` on.
A thread that finds the block used up gets a new one and still assigns the -2 that
told it so (`IDGenerator.cpp:89`); the identifier its inner call took goes to
nobody.

### PgReadTask, PgPipeline, FpgWire

Three ways to run the same requests: one command at a time, libpq's pipeline,
the server's own wire protocol. Each has the queue of requests, the query in
hand, the callbacks, and a database (external) that answers in order, refuses
some statements, and in a pipeline skips to the sync after an error. Requests
are plans of queries, posted at any time and from callbacks. `AsyncQueries` is
the promise: a final callback per request, once, in the order of the posts.

What the code does when something goes wrong is in the models, and the properties
say where each of them ends:

* `PgReadTask`: a final callback for a command that could not be sent runs inside
  `submit` with `flux` down and `ritem` and `q` set (`LibpqDataSourceImpl.cpp:616`,
  `:704`). `calling` counts such calls on the stack. If the callback posts, `submit`
  is entered again, sends or fails the same query once more, and the outer call
  drops whichever request is then in front: `reentered`. A failed SELECT leaves
  `q` behind (`unset`); a multi query that could not be sent is not noticed.
* `PgPipeline`: a request that holds a multi query, or whose command cannot be
  queued, is refused in the middle of a batch (`rejected`); a callback that posts
  there enters `submit` within `submit` (`outer`). `run` on an idle connection, for
  a notice, asks for results for ever (`used = "spins"`, `:1189`).
* `FpgWire`: an ErrorResponse is the last message that is ever taken: `readString`
  returns more than it has read (`:2005`), so its fields seem to end early and the
  next length is text. `lost` is that `run` stands there. With pipelining a refused
  request makes `submit` erase another (`:2723`, `astray`). When the connection is
  gone nobody is answered (`:2572`, against the comment at `:2628`).
  Callbacks of requests that `submit` refuses are taken not to post.

### CacheMap, CacheContainers, AtomicContainers

Callers share connections under a lock; one server thread per connection runs
`CacheMap`'s methods, one critical section a step: exists, type, container,
mutex, lock, work, unlock. `CacheContainers` is what the work does.
`AtomicContainers` says that a call takes effect at one moment, with the answer
that moment gives, or is refused with no effect. What takes effect is what the
client sends: `Query` exchanges the two pushes, since `pushBackValue` sends
`pushfront` and `pushFrontValue` sends `pushback`
(`DistoCacheClientUtils.cpp:411`, `:427`), and `Read` lets `isEmpty` have any
answer, since it reads the response after its deletion (`:320`, `:545`).

Every `Dist*` constructor allocates its key, so several connections manage a key in
normal use. `allocate` looks for the key in one critical section and inserts in
another (`CacheMap.cpp:48`): a second allocation may replace a container that calls
have already changed, and a second `deallocate` succeed on nothing. A thread whose
check another one has outdated so, or whose container was so replaced, is
`Overtaken`; `Implements` allows its step, provided that it touches no other key and
no other call (`Stray`), and asks of every other step that it is atomic. Three map
methods throw with the mutex locked (`CacheMap.cpp:267`); `Abandoned` is that a
container is so. Reads that overlap writes of the maps and uses of freed memory set
`undefined`, where the model stops.

### MemoryCache, LruMap

A list node is an identity and the map holds identities, so that a dangling
iterator would show. An `add` of a key that is present erases it and stores
nothing, an `increment` of a text throws with the lock held. `LruMap` is the map this
implements: entries are stored, used or dropped, and evicted only when the map is
full; an `add` of a present key is a drop there.

## The runs

| Run | Shows | Bounds |
|---|---|---|
| `pool_two_loops` | `NoLostWakeup`, `SocketSerial`, `SocketInOrder`: two loops and a concurrent shutdown | 2 workers, 2 sockets, 2 tasks each, 2 passes of `joinAll` |
| `pool_server` | `JoinedIsQuiet`, `EveryTaskRuns`, `ShutdownEnds`: one loop that submits and then joins | the same |
| `conn` | `Framed`, `OutputWatched`, `EdgeKept`, `PeerClosesFirst`, `ImplementsResponses`, `EveryRequestAnswered` | 4 pipelined requests, 12 positions, recv of 3, send buffer of 2 |
| `socket` | `WindowExact`, `ImplementsResponses`, `OnceBlockedAnswered`, `HangupCloses` | responses of 3, 3, 4 and 0 units over a buffer of 2 |
| `socket_stall` | **violated**: `EveryRequestAnswered` | a response of 5 units over a buffer of 2 |
| `close_queue` | `NoUseAfterDelete`, `ClosesOwnDescriptor`, `ClosedIsDeleted` | 2 connections, 2 numbers, grace of 2 s, sweep each second, 1 put back |
| `timed_work` | `FutureOutcome`, `EveryTaskRuns`, `NeverEarly`, `OnSchedule`, `StopTouchesLive`, `ExactNext` | 2 workers, 2 tasks and a future; 5 scheduled tasks in every unit up to an hour; 4 jobs over 3000 minutes from 4 starts; 8 expressions, up to 400 dates |
| `protocols` | `MessagesExact`, `OneRequest`, `HeadersArrive` | 3 WebSocket frames of 7 kinds; 4 HTTP/2 frames on 2 streams; 3 header fields of 12 kinds; strings of 4 symbols, numbers up to 700 |
| `websocket_served` | **violated**: `MessagesArrive` | as `protocols` |
| `sessions` | `OneOwner`, `OwnWork`, `CallReturns`, `Unique` | 2 sessions, pool of 1 and 1 beyond it, 2 tries; 2 threads of a process over a table row, or 2 processes over a sequence, blocks of 4, 3 high values, 1 failing statement |
| `postgres` | `OwnResults`, `Implements`, `RequestAnswered` | 4 requests of up to 4 statements in 7 plans, 2 statements out |
| `caches` | `UndefinedOnlyByOverlap`, `Implements`, `EveryCallReturns`, `ImplementsMap` | 2 or 3 callers, 2 connections, 2 or 3 calls each, 6 containers; an LRU of 2 over 3 keys |

Why the bounds are enough. Two sockets on two workers give both contention on one
worker and concurrency between two; a second task per socket is the first that can
overtake; two passes of `joinAll` are the first that can leave a null entry for a
draining worker. `HDR_FIN` is two positions long, so a read can split it; one body
contains a terminator and ends in the first half of another; a recv of three is
shorter than a request and than what may be pending, so full and short reads both
occur; a send buffer of two makes a response of three block once and one of five
block twice. One connection kept back per sweep is the first that can hide another.
The three WebSocket frames suffice for a fragmented message with a frame between;
four HTTP/2 frames for headers, continuation, data and something after the
hand-over. Two sessions over one connection make checkouts hit, miss and connect
beside the pool; three high values let a reservation overlap two others, or both
processes hold a block and one restart. The plans of `MCAsyncQueries` put a failure
before, between and after good requests. In `MCCaches` every pair of methods that
share a container and a critical section meets in one plan. In one of them both
callers allocate and deallocate the same key, which takes six containers at most.
The dates of `MCTimedWork` cross month ends and leap years until the arithmetic
misses one, and the yearly expression goes through seventy years; a start in
January, one between two runs, a job for minute 0 and functions of up to two minutes
put each exception of `OnSchedule` to use.

`CHECK_DEADLOCK FALSE` where peers, submitters or callers may have nothing
more to do: a server is then at rest. `CloseQueue` has no such end; its clock
runs on.

### Fairness

Everywhere the threads of the program are weakly fair for the steps inside a
call or their own loop: the operating system runs a thread that can run.
Nobody has to submit, post, call, send, hang up, begin a shutdown or be woken
spuriously, and no mutex is promised to be fair. Beyond that:

* in the connection modules a peer that has not reset the connection keeps
  reading what is in flight; without that no server can finish a response;
* in `CloseQueue` the clock is strongly fair: time passes although handlers
  keep interrupting;
* in `postgres` the database answers what it was asked and the event loop reads it, in
  the three modes that `RequestAnswered` is about (`mixed`, `failing`, `ending`); a notice
  need not come;
* in `websocket_served` bytes that were sent arrive and are read.

### The findings

`socket_stall`: `SocketInterface::completeWrite` leaves its loop on `EAGAIN`
with `registerWrite` commented out (`SocketInterface.cpp:213`), after the
`WRITE_READY` callback has dropped `EPOLLOUT` (`RequestReaderHandler.cpp:192`).
A response that fills the send buffer a second time is never finished although
the peer reads everything. `tests/test.csv:9` expects a file of 49 884 bytes to
arrive whole; whether it does depends on the size of the send buffer.
`OnceBlockedAnswered` is what does hold, and `RequestHandler2` registers again
and has no such stall (`conn`).

`websocket_served`: `HttpReadTask::run` calls `readFrom` through a
`SocketInterface*` (`HttpServiceHandler.cpp:111`), and `readFrom` is not virtual
(`SocketInterface.h:84`). After an upgrade the bytes go to the HTTP handler's
buffer and the WebSocket handler cuts frames from its own, which stays empty.
README.md lists "Web Socket Support". Fed directly, the reader does what it
should (`protocols`).

Other places where the code does less than a reader may expect are described
with their modules above; no document contradicts them, so the properties state
exactly where the guarantee ends, and each such exception is reached by the run.

## The proofs

TLAPS proves these for every value of the constants. Each invariant below was
first checked by TLC on the run of its module. A theorem that needs more of the
constants than the module assumes says so in its hypothesis; TLC's runs satisfy
each of these hypotheses.

`ThreadPoolProofs`, from `ConstantsAssumption` and `NullAssumption`:

* `TypeCorrect`, `SocketSerialHolds`, `NoLostWakeupHolds`, `SocketInOrderHolds`,
  and, where the thread that joins is the only one that submits
  (`Submitters = {Joiner}`, the server), `JoinedIsQuietHolds`.
* The invariant is `TypeOK /\ Pins /\ Waking`. `SocketSerial` is not inductive:
  that two running tasks belong to different sockets depends on where queued
  and half-submitted tasks will go. `Pins` says that everything submitted for a
  pinned socket (in a submitter's hands, queued, running) is on its worker, and
  that an unpinned socket has nothing queued. `Waking` says that, until a
  worker meets its first null entry, `condVar` equals the length of its queue, or is
  one less while a submitter holds the mutex; null entries exist only after
  `runFlag` is cleared, which is why their not lowering `condVar` is harmless.
* `SocketInOrder` is about the task that runs now and the one that ran before.
  `Order` adds what lies between: the tasks of a socket that are
  running, queued or in its submitter's hands are numbered consecutively, in
  this order, from the last that ran (`InLine`). The queue orders the entries of
  one producer only; that is enough because a socket's tasks come from one
  thread (`FromOwner`).
* `JoinedIsQuiet` holds because nobody submits behind the joiner's back: a worker
  that has ended has drained its queue, and only the joiner could fill it again
  (`Quiet`). With a second submitter it is false.

`Http11SocketProofs`, from `StreamAssumption` (what a conforming peer sends:
the terminator ends the headers and does not occur in them before):

* `TypeCorrect`, `FramedHolds`, `OutputWatchedHolds`, `EdgeKeptHolds`,
  `PeerClosesFirstHolds`, and `ImplementsResponsesHolds`: the specification
  implements `PipelinedResponses`.
* The invariant adds `InStream` (between two reads the buffer begins where the
  next request or its body begins, and `bytesToRead` is that body's length),
  `Registered` (which registration and which output go with each place of the
  loop) and `EdgeTaken` (an event that is not on the ready list is being
  handled right now). The first two make `Framed` and `OutputWatched`
  inductive, the third `EdgeKept`.
* The lemma under `Framed` is about the search: at the start of a request, the
  first match in whatever has arrived ends its headers, however the bytes were
  cut and whatever follows them.
* The refinement needs `OutLine`: `outbuf` holds exactly the responses of
  served requests that are not finished, in order, only its head begun, and
  that head continues the last unit on the wire.

`SessionsProofs`, about `ConnectionPool`, from `PoolAssumption` (the sessions may
be infinitely many):

* `OneOwnerHolds`, `OwnWorkHolds`.
* The invariant is `TypeOK /\ Places /\ NoneLost /\ Sized /\ Mine`. `OneOwner` needs
  that only a session without a connection checks one out (`Places`), else a
  dequeue could lose the handle it replaces, and that the sets it counts are
  finite (`Sized`). `OwnWork` speaks of committed work only; `Mine` adds where
  uncommitted work is: until a connection is `abandoned`, an
  open handle with autocommit off belongs to a session with `isTransaction`
  set, and all work pending on a handle is its holder's.

`TaskPoolProofs`, from `TaskPoolAssumption`, for both modes:

* `TypeCorrect`, `FutureOutcomeHolds`, `NeverEarlyHolds`.
* That a future is complete only if it was called, and is not completed by a
  worker that ran it unmarked, needs that no task runs twice: what is
  queued or held has not been executed (`NotYetRun`), is in one place only
  (`OnePlace`), and `taskComplete` comes after `call` (`CalledFirst`).
* `NeverEarly` rests on arithmetic: for each unit
  the code's truncating divisions cannot make a wait over more than a second
  early (`WaitOverIsLate`). The run tries 5 waits, the theorem covers all
  and every instant at which the timer looks. The other half is that the sweep
  moves only tasks whose wait is over (`OnlyOverLeave`).
* `StopTouchesLiveHolds`, about `JobScheduler`, for any jobs, expressions and
  durations. The property speaks of what `stop` has touched; the invariant
  `Ended` adds why there is nothing else to touch: until `stop` is called `doRun` is set in
  every task, so a thread that has ended did so by itself.

`SocketInterfaceProofs`, from `SocketAssumption` and the hypothesis
`ElsewhereLast`: requests that are answered by another way come last.

* `TypeCorrect`, `WindowExactHolds`, `ImplementsResponsesHolds`.
* The invariant is `Lockstep` (how far the peer, the worker and the finished
  responses may be apart when the peer awaits each response), `Window` (`wtl`
  holds the requests after `current`, only the last with bytes of its own),
  `Position` (what the worker writes is the first of them), `Ended` and
  `ClosedFirst`; `Continues`, that the wire ends where `wtl` says, carries the
  refinement.
* The hypothesis is needed: a request that is answered by another way stays in
  `wtl`, and `completeWrite` looks at `current + 1`. With responses of 0, 1 and 3
  units over a buffer of 2 the third is looked for at 2. Connections on which such
  a request is followed by an ordinary one are not covered by these theorems.

`CloseQueueProofs`, from `CloseAssumption`:

* `TypeCorrect`, `ClosesOwnDescriptorHolds`, and, when no task waits longer than
  the grace period (`MaxWait <= Grace`), `NoUseAfterDeleteHolds`.
* The invariants hold until a race of two closers (`raced`). `Own` says that
  kernel and socket objects agree on whose number a descriptor is and that
  one thread at a time closes a connection. `Safe` adds that what a thread, a
  queued task, the kernel or the close queue knows is not deleted, that a
  connection is queued once, and, the reason for both, that a queued connection
  somebody still knows has been queued no longer than that one has waited
  (`Young`). This is where the comparison with the grace period enters.

`SessionsProofs`, about `HiloIds`, from `HiloAssumption`, which is a hypothesis of
the theorems because the module is also instantiated with other constants:

* `HiloTypeCorrect`, `UniqueHolds`, `SequenceIsUnique`.
* `Unique` is `Once` (no identifier from 0 on given twice unless an update missed
  or failed), `Reserved` (all of them lie below what the database has still to give,
  unless an update failed) and `Negative` (where the others come from). The
  invariant adds `Sources` (a block in memory or a high value in hand is negative
  only after a failed query), `Below` (whatever is reserved, in memory or given lies
  under the database's value, at every point at which a process may die) and
  `Exclusive` (until an update misses or fails, blocks from 0 on that are reserved
  or in memory do not overlap and nothing of them has been given). A sequence is
  read in one statement and cannot miss (`NeverMissed`), so there the identifiers
  from 0 on are unique without exception.

`CacheMapProofs`, from `CallersAssumption`:

* `TypeCorrect`, `UndefinedOnlyByOverlapHolds`, and `ImplementsHolds`: `CacheMap`
  implements `AtomicContainers` up to the steps of overtaken threads, whoever
  manages a key.
* The invariant says that a thread serves a query only while its caller waits
  (`Called`), that the thread holding the maps' mutex is the one changing them
  and every other query served meanwhile is disturbed (`Changer`, `Watched`),
  that keys share no container and the maps hold no freed one (`Live`), and that
  an undisturbed thread's pointer and mutex are what the maps still say
  (`Undisturbed`). The last two together exclude every undefined step of an
  undisturbed query.

* The moment at which a call takes effect is the change of the maps, the work inside
  the container's critical section, or the look-up that refuses it. That the answer
  is the one this moment gives needs a second invariant, `RInv`: a waiting caller
  has its connection to itself (`Served`), an `allocate` that is about to change the
  maps has a type that exists (`Reserved`), the container a thread works on is that
  of no other key (`Kept`), so that an overtaken thread harms only its own, and a
  positional command that passed the check against `size()` has a position and a
  count that are no error by themselves (`Knows`); only the container may have
  changed since, and the work checks that again.
* `ImplementsMapHolds`, about `MemoryCache`, from `CacheAssumption`: each of the two
  caches implements `LruMap`. The invariant `InStep` relates a list and a map:
  identities and keys are distinct, the map has just the keys of the nodes, its
  iterators point to their nodes. Then the size `clean` reads off the map is the
  length of the list, so the list is never more than one entry too long, a node is
  free for `push_front`, and the entries the callers see are the pairs in the list.
  Each of erase, push, splice and clean commutes with taking these pairs
  (`EraseKeeps`, `PushKeeps`, `SpliceKeeps`, `CleanKeeps`).

`ProtocolProofs`, from `WebSocketAssumption` and `StreamAssumption`, hypotheses of
the theorems:

* `MessagesExactHolds`, about `WebSocket`, for any frames, any number of them, any
  thresholds of the length encoding and either `readFrom`. The invariant adds
  `Stream` (frames lie one behind the other and only their bytes are read),
  `Members` (only frames that were cut are collected or complete), that an opcode
  under which a payload waits has its entry (`HasEntry`), and
  `Collected`: on an orderly stream nothing is collected between
  messages, and within a message exactly its frames so far, under the opcode that
  began it. That `lastOpCode` names this opcode is true except after `nextFrame` threw on
  a frame that begins something else; without this exception the invariant is
  false, because the code sets `lastOpCode` before it throws.
* `OneRequestHolds`, about `Http2Stream`, for any streams and frames. `OneRequest`
  needs that a stream whose request was handed over has none (`HandedIsGone`):
  this is what keeps it from being handed over again, while `RequestPresent`
  keeps the frame handlers from needing one.

Only model-checked, and why:

* Liveness (`EveryTaskRuns`, `ShutdownEnds`, `EveryRequestAnswered`,
  `OnceBlockedAnswered`, `HangupCloses`, `ClosedIsDeleted`, `CallReturns`,
  `RequestAnswered`, `EveryCallReturns`): out of the prover's reach.
* `HeadersArrive`, `OnSchedule` and `ExactNext`: about what recursive definitions
  compute (HPACK codings, the calendar), which needs induction over data.
* `OwnResults` and the refinement of `AsyncQueries`: what a request must be
  answered is computed by recursive functions and filters over its statements, which needs
  induction as well.

## Not modelled

* Other multiplexers (select, poll, kqueue, event ports, devpoll, IOCP, picoev,
  io_uring): other builds of the same interface. SSL sockets, which share the
  control flow of plain ones, and the upgrade handshakes.
* The sending side of HTTP/2 with its flow-control windows: no request reaches
  it, because `readRequest` gives up before its frame loop (`Http2Handler.cpp:189`).
* Message queues and topics: `MessageHandler::service` cuts every request at its
  last `>`, which GET and SUBSCRIBE requests do not contain; only the branch that
  appends a message to a file is reachable.
* The object reuse pool, which nothing instantiates; the global transaction
  manager, which the build leaves out; the thread that selects for a data source
  of its own.
* The Redis, memcached, MongoDB and Scylla adapters, search, client utilities:
  blocking calls into libraries.
* Parsing and formatting of requests and responses, XML and JSON, serialization,
  reflection, code generation, templates, configuration, controllers, filters
  and security: sequential code without state across requests, which a unit
  test reaches. By lines this is most of the repository, with vendored code (`csv.hpp`,
  `concurrentqueue.h`, `wepoll`, the lithium back end, language bindings, test
  applications). There is no state in it for a model to explore, and a model of
  it would be a transliteration; that is why the mapped lines are a small share of
  all lines although most of the program's stateful parts are mapped.

## Plan

What could follow: `AsyncQueries` with its expected results given by a state
machine instead of a recursive function, so that the three PostgreSQL tasks can be proved to
implement it; the condition of `SocketInterfaceProofs` (`ElsewhereLast`) replaced by
an exact account of which responses are delayed; the sending side of HTTP/2, once
`readRequest` reaches it.
