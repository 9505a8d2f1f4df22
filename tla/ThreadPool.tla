----------------------------- MODULE ThreadPool -----------------------------
(***************************************************************************)
(* The plain mode of ThreadPool (src/modules/threads), the mode the        *)
(* embedded server runs its HTTP tasks in: every PoolThread owns a         *)
(* ConcurrentQueue, a condition variable and the counter condVar, and      *)
(* submit places a task on one of them.  A task belongs to a socket, whose *)
(* tid is -1 until its first task has been placed and pins every later one *)
(* to the same worker.                                                     *)
(*                                                                         *)
(* Submitters are the threads that call submit; Joiner is the one that     *)
(* shuts the pool down (joinAll).  A Joiner outside Submitters means that  *)
(* the pool is never shut down.                                            *)
(***************************************************************************)
EXTENDS Integers, Sequences, FiniteSets, SequencesExt

CONSTANTS
    Submitters,     \* threads that call ThreadPool::submit
    Joiner,         \* the submitter that calls joinAll, if any
    N,              \* maxThreads
    Sockets,        \* the SocketInterfaces tasks are submitted for
    Owner,          \* Owner[s]: the event loop that socket s is registered with
    MaxJobs,        \* bound: tasks submitted per socket
    MaxRounds,      \* bound: passes of joinAll's outer loop
    NULL            \* the null Task*

ASSUME ConstantsAssumption ==
    /\ N \in Nat \ {0}
    /\ MaxJobs \in Nat
    /\ MaxRounds \in Nat
    /\ NULL \notin Sockets
    /\ Owner \in [Sockets -> Submitters]

Workers == 0 .. N - 1

VARIABLES
    currentThread,  \* ThreadPool::currentThread, the shared round-robin index
    tid,            \* tid[s]: SocketInterface::tid, -1 when not yet pinned
    submitted,      \* submitted[s]: how many tasks have been submitted for s
    pc,             \* pc[p]: where submitter p is in submit, addTask, joinAll
    sock,           \* sock[p]: the socket whose task p is submitting
    id,             \* id[p]: the worker p is submitting to, or stopping
    old,            \* old[p]: oldValue of the compare-exchange loop
    rounds,         \* passes of joinAll begun
    queue,          \* queue[w]: PoolThread::tasks
    condVar,        \* condVar[w]: PoolThread::condVar
    runFlag,        \* runFlag[w]: PoolThread::runFlag
    complete,       \* complete[w]: PoolThread::complete
    wpc,            \* wpc[w]: where worker w is in PoolThread::run
    cur,            \* cur[w]: the task w is running, NULL when none
    lastRun,        \* lastRun[s]: the number of the last task of s that ran
    crashed         \* a null Task* has been dereferenced

subVars  == <<currentThread, tid, submitted, pc, sock, id, old, rounds>>
workVars == <<wpc, cur, lastRun, complete, crashed>>
vars     == <<subVars, queue, condVar, runFlag, workVars>>

(***************************************************************************)
(* A queue entry.  num numbers the tasks of one socket in the order they   *)
(* were submitted; the null pointer stop() enqueues is an entry without a  *)
(* socket.                                                                 *)
(***************************************************************************)
Task == [src : Submitters, sock : Sockets, num : Nat \ {0}]
Stop == [src : Submitters, sock : {NULL}, num : {0}]

ASSUME NullAssumption == NULL \notin Task

SubmitPcs == {"idle", "load", "cas", "check", "enqueue", "notify"}
JoinPcs   == {"stop", "stopEnqueue", "stopNotify", "joinCheck", "joined"}
WorkerPcs == {"top", "lock", "wait", "dequeue", "run", "drain", "done"}

TypeOK ==
    /\ currentThread \in Nat
    /\ tid \in [Sockets -> {-1} \cup Workers]
    /\ submitted \in [Sockets -> Nat]
    /\ pc \in [Submitters -> SubmitPcs \cup JoinPcs]
    /\ sock \in [Submitters -> Sockets \cup {NULL}]
    /\ id \in [Submitters -> Workers]
    /\ old \in [Submitters -> Nat]
    /\ rounds \in Nat
    /\ queue \in [Workers -> Seq(Task \cup Stop)]
    /\ condVar \in [Workers -> Int]
    /\ runFlag \in [Workers -> BOOLEAN]
    /\ complete \in [Workers -> BOOLEAN]
    /\ wpc \in [Workers -> WorkerPcs]
    /\ cur \in [Workers -> Task \cup {NULL}]
    /\ lastRun \in [Sockets -> Nat]
    /\ crashed \in BOOLEAN

Init ==
    /\ currentThread = 0
    /\ tid = [s \in Sockets |-> -1]
    /\ submitted = [s \in Sockets |-> 0]
    /\ pc = [p \in Submitters |-> "idle"]
    /\ sock = [p \in Submitters |-> NULL]
    /\ id = [p \in Submitters |-> 0]
    /\ old = [p \in Submitters |-> 0]
    /\ rounds = 0
    /\ queue = [w \in Workers |-> <<>>]
    /\ condVar = [w \in Workers |-> 0]
    /\ runFlag = [w \in Workers |-> TRUE]
    /\ complete = [w \in Workers |-> FALSE]
    /\ wpc = [w \in Workers |-> "top"]
    /\ cur = [w \in Workers |-> NULL]
    /\ lastRun = [s \in Sockets |-> 0]
    /\ crashed = FALSE

(***************************************************************************)
(* A worker's c_mutex is held across addTask's and stop's enqueue and      *)
(* notify; the worker itself never keeps it from one step to the next.     *)
(***************************************************************************)
Holds(p, w)  == pc[p] \in {"notify", "stopNotify"} /\ id[p] = w
MutexFree(w) == \A p \in Submitters : ~Holds(p, w)

(***************************************************************************)
(* conditionalNotifyOne: only worker w ever waits on its own condition     *)
(* variable, and it has to take the mutex again before it goes on.         *)
(***************************************************************************)
Signal(w) == wpc' = IF wpc[w] = "wait" THEN [wpc EXCEPT ![w] = "lock"] ELSE wpc

-----------------------------------------------------------------------------
(* ThreadPool::submit(Task* ) *)

\* The task already has a thread: submit goes straight to addTask.
SubmitPinned(p, s) ==
    /\ pc[p] = "idle" /\ Owner[s] = p /\ submitted[s] < MaxJobs
    /\ tid[s] # -1
    /\ submitted' = [submitted EXCEPT ![s] = @ + 1]
    /\ sock' = [sock EXCEPT ![p] = s]
    /\ id' = [id EXCEPT ![p] = tid[s]]
    /\ pc' = [pc EXCEPT ![p] = "check"]
    /\ UNCHANGED <<currentThread, tid, old, rounds, queue, condVar, runFlag, workVars>>

\* index = currentThread++; id = index % maxThreads
SubmitFresh(p, s) ==
    /\ pc[p] = "idle" /\ Owner[s] = p /\ submitted[s] < MaxJobs
    /\ tid[s] = -1
    /\ submitted' = [submitted EXCEPT ![s] = @ + 1]
    /\ sock' = [sock EXCEPT ![p] = s]
    /\ id' = [id EXCEPT ![p] = currentThread % N]
    /\ currentThread' = currentThread + 1
    /\ pc' = [pc EXCEPT ![p] = "load"]
    /\ UNCHANGED <<tid, old, rounds, queue, condVar, runFlag, workVars>>

\* int oldValue = currentThread
LoadIndex(p) ==
    /\ pc[p] = "load"
    /\ old' = [old EXCEPT ![p] = currentThread]
    /\ pc' = [pc EXCEPT ![p] = "cas"]
    /\ UNCHANGED <<currentThread, tid, submitted, sock, id, rounds,
                   queue, condVar, runFlag, workVars>>

\* Mutant: setTid is forgotten, as in the overload for FutureTask.
CasSucceedsUnpinned(p) ==
    /\ pc[p] = "cas"
    /\ currentThread = old[p]
    /\ currentThread' = old[p] % N
    /\ pc' = [pc EXCEPT ![p] = "check"]
    /\ UNCHANGED <<tid, submitted, sock, id, old, rounds, queue, condVar, runFlag, workVars>>

\* The exchange succeeds and the task's socket is pinned: setTid(id).
CasSucceeds(p) ==
    /\ pc[p] = "cas"
    /\ currentThread = old[p]
    /\ currentThread' = old[p] % N
    /\ tid' = [tid EXCEPT ![sock[p]] = id[p]]
    /\ pc' = [pc EXCEPT ![p] = "check"]
    /\ UNCHANGED <<submitted, sock, id, old, rounds, queue, condVar, runFlag, workVars>>

\* compare_exchange_weak fails, because another thread changed the index or
\* spuriously, and re-reads oldValue.
CasFails(p) ==
    /\ pc[p] = "cas"
    /\ old' = [old EXCEPT ![p] = currentThread]
    /\ UNCHANGED <<currentThread, tid, submitted, pc, sock, id, rounds,
                   queue, condVar, runFlag, workVars>>

-----------------------------------------------------------------------------
(* PoolThread::addTask *)

\* A stopped worker takes no more tasks; the task is dropped.
AddTaskCheck(p) ==
    /\ pc[p] = "check"
    /\ pc' = [pc EXCEPT ![p] = IF runFlag[id[p]] THEN "enqueue" ELSE "idle"]
    /\ UNCHANGED <<currentThread, tid, submitted, sock, id, old, rounds,
                   queue, condVar, runFlag, workVars>>

NewTask(p) == [src |-> p, sock |-> sock[p], num |-> submitted[sock[p]]]

AddTaskEnqueue(p) ==
    /\ pc[p] = "enqueue" /\ MutexFree(id[p])
    /\ queue' = [queue EXCEPT ![id[p]] = Append(@, NewTask(p))]
    /\ pc' = [pc EXCEPT ![p] = "notify"]
    /\ UNCHANGED <<currentThread, tid, submitted, sock, id, old, rounds,
                   condVar, runFlag, workVars>>

\* Mutant: addTask does not signal the condition variable.
AddTaskNotifySilent(p) ==
    /\ pc[p] = "notify"
    /\ condVar' = [condVar EXCEPT ![id[p]] = @ + 1]
    /\ pc' = [pc EXCEPT ![p] = "idle"]
    /\ UNCHANGED <<currentThread, tid, submitted, sock, id, old, rounds,
                   queue, runFlag, workVars>>

AddTaskNotify(p) ==
    /\ pc[p] = "notify"
    /\ condVar' = [condVar EXCEPT ![id[p]] = @ + 1]
    /\ Signal(id[p])
    /\ pc' = [pc EXCEPT ![p] = "idle"]
    /\ UNCHANGED <<currentThread, tid, submitted, sock, id, old, rounds,
                   queue, runFlag, cur, lastRun, complete, crashed>>

-----------------------------------------------------------------------------
(* ThreadPool::joinAll and PoolThread::stop *)

JoinBegin(p) ==
    /\ p = Joiner /\ pc[p] = "idle" /\ rounds < MaxRounds
    /\ rounds' = rounds + 1
    /\ id' = [id EXCEPT ![p] = 0]
    /\ pc' = [pc EXCEPT ![p] = "stop"]
    /\ UNCHANGED <<currentThread, tid, submitted, sock, old,
                   queue, condVar, runFlag, workVars>>

StopFlag(p) ==
    /\ pc[p] = "stop"
    /\ runFlag' = [runFlag EXCEPT ![id[p]] = FALSE]
    /\ pc' = [pc EXCEPT ![p] = "stopEnqueue"]
    /\ UNCHANGED <<currentThread, tid, submitted, sock, id, old, rounds,
                   queue, condVar, workVars>>

StopEnqueue(p) ==
    /\ pc[p] = "stopEnqueue" /\ MutexFree(id[p])
    /\ queue' = [queue EXCEPT ![id[p]] = Append(@, [src |-> p, sock |-> NULL, num |-> 0])]
    /\ pc' = [pc EXCEPT ![p] = "stopNotify"]
    /\ UNCHANGED <<currentThread, tid, submitted, sock, id, old, rounds,
                   condVar, runFlag, workVars>>

\* Mutant: stop() does not signal the condition variable.
StopNotifySilent(p) ==
    /\ pc[p] = "stopNotify"
    /\ condVar' = [condVar EXCEPT ![id[p]] = @ + 1]
    /\ IF id[p] + 1 < N
       THEN /\ id' = [id EXCEPT ![p] = @ + 1]
            /\ pc' = [pc EXCEPT ![p] = "stop"]
       ELSE /\ pc' = [pc EXCEPT ![p] = "joinCheck"]
            /\ UNCHANGED id
    /\ UNCHANGED <<currentThread, tid, submitted, sock, old, rounds,
                   queue, runFlag, workVars>>

\* The end of stop(), and joinAll's loop on to the next worker.
StopNotify(p) ==
    /\ pc[p] = "stopNotify"
    /\ condVar' = [condVar EXCEPT ![id[p]] = @ + 1]
    /\ Signal(id[p])
    /\ IF id[p] + 1 < N
       THEN /\ id' = [id EXCEPT ![p] = @ + 1]
            /\ pc' = [pc EXCEPT ![p] = "stop"]
       ELSE /\ pc' = [pc EXCEPT ![p] = "joinCheck"]
            /\ UNCHANGED id
    /\ UNCHANGED <<currentThread, tid, submitted, sock, old, rounds,
                   queue, runFlag, cur, lastRun, complete, crashed>>

\* Mutant: one finished worker is enough for joinAll to return.
JoinCheckAny(p) ==
    /\ pc[p] = "joinCheck"
    /\ \E w \in Workers : complete[w]
    /\ pc' = [pc EXCEPT ![p] = "joined"]
    /\ UNCHANGED <<currentThread, tid, submitted, sock, id, old, rounds,
                   queue, condVar, runFlag, workVars>>

\* joinComplete is the conjunction of isComplete(); while it is false the
\* outer loop stops every worker once more.
JoinCheck(p) ==
    /\ pc[p] = "joinCheck"
    /\ \/ /\ \A w \in Workers : complete[w]
          /\ pc' = [pc EXCEPT ![p] = "joined"]
          /\ UNCHANGED <<id, rounds>>
       \/ /\ \E w \in Workers : ~complete[w]
          /\ rounds < MaxRounds
          /\ rounds' = rounds + 1
          /\ id' = [id EXCEPT ![p] = 0]
          /\ pc' = [pc EXCEPT ![p] = "stop"]
    /\ UNCHANGED <<currentThread, tid, submitted, sock, old,
                   queue, condVar, runFlag, workVars>>

-----------------------------------------------------------------------------
(* PoolThread::run *)

\* while (runFlag)
WorkerLoop(w) ==
    /\ wpc[w] = "top"
    /\ wpc' = [wpc EXCEPT ![w] = IF runFlag[w] THEN "lock" ELSE "drain"]
    /\ UNCHANGED <<subVars, queue, condVar, runFlag, cur, lastRun, complete, crashed>>

\* Mutant: the wait condition is off by one.
WorkerAwaitOffByOne(w) ==
    /\ wpc[w] = "lock" /\ MutexFree(w)
    /\ wpc' = [wpc EXCEPT ![w] = IF condVar[w] <= 1 THEN "wait" ELSE "dequeue"]
    /\ UNCHANGED <<subVars, queue, condVar, runFlag, cur, lastRun, complete, crashed>>

\* lock; while (condVar <= 0) conditionalWait; unlock
WorkerAwait(w) ==
    /\ wpc[w] = "lock" /\ MutexFree(w)
    /\ wpc' = [wpc EXCEPT ![w] = IF condVar[w] <= 0 THEN "wait" ELSE "dequeue"]
    /\ UNCHANGED <<subVars, queue, condVar, runFlag, cur, lastRun, complete, crashed>>

\* pthread_cond_wait may return without a signal.
SpuriousWakeup(w) ==
    /\ wpc[w] = "wait"
    /\ wpc' = [wpc EXCEPT ![w] = "lock"]
    /\ UNCHANGED <<subVars, queue, condVar, runFlag, cur, lastRun, complete, crashed>>

(***************************************************************************)
(* moodycamel::ConcurrentQueue keeps the order of each producer's entries  *)
(* and no order between producers: the entries try_dequeue may return are  *)
(* those no earlier entry of the same producer stands before.              *)
(***************************************************************************)
Heads(q) == {i \in 1 .. Len(q) : \A j \in 1 .. (i - 1) : q[j].src # q[i].src}

WorkerDequeueEmpty(w) ==
    /\ wpc[w] = "dequeue" /\ queue[w] = <<>>
    /\ wpc' = [wpc EXCEPT ![w] = "top"]
    /\ UNCHANGED <<subVars, queue, condVar, runFlag, cur, lastRun, complete, crashed>>

\* A null entry breaks out of the inner loop; condVar is not decremented.
WorkerDequeueNull(w) ==
    /\ wpc[w] = "dequeue"
    /\ \E i \in Heads(queue[w]) :
         /\ queue[w][i].sock = NULL
         /\ queue' = [queue EXCEPT ![w] = RemoveAt(@, i)]
    /\ wpc' = [wpc EXCEPT ![w] = "top"]
    /\ UNCHANGED <<subVars, condVar, runFlag, cur, lastRun, complete, crashed>>

WorkerDequeueTask(w) ==
    /\ wpc[w] = "dequeue"
    /\ \E i \in Heads(queue[w]) :
         /\ queue[w][i].sock # NULL
         /\ cur' = [cur EXCEPT ![w] = queue[w][i]]
         /\ queue' = [queue EXCEPT ![w] = RemoveAt(@, i)]
    /\ condVar' = [condVar EXCEPT ![w] = @ - 1]
    /\ wpc' = [wpc EXCEPT ![w] = "run"]
    /\ UNCHANGED <<subVars, runFlag, lastRun, complete, crashed>>

\* task->run() returns, or throws and is caught; the task is released.
WorkerRun(w) ==
    /\ wpc[w] = "run"
    /\ lastRun' = [lastRun EXCEPT ![cur[w].sock] = cur[w].num]
    /\ cur' = [cur EXCEPT ![w] = NULL]
    /\ wpc' = [wpc EXCEPT ![w] = "dequeue"]
    /\ UNCHANGED <<subVars, queue, condVar, runFlag, complete, crashed>>

\* After the loop the entries still queued are released without being run.
WorkerDrain(w) ==
    /\ wpc[w] = "drain"
    /\ \E i \in Heads(queue[w]) :
         /\ queue[w][i].sock # NULL
         /\ queue' = [queue EXCEPT ![w] = RemoveAt(@, i)]
    /\ UNCHANGED <<subVars, condVar, runFlag, workVars>>

\* The drain loop does not test for null: task->cleanUp is read through it.
WorkerDrainNull(w) ==
    /\ wpc[w] = "drain"
    /\ \E i \in Heads(queue[w]) : queue[w][i].sock = NULL
    /\ crashed' = TRUE
    /\ UNCHANGED <<subVars, queue, condVar, runFlag, wpc, cur, lastRun, complete>>

WorkerComplete(w) ==
    /\ wpc[w] = "drain" /\ queue[w] = <<>>
    /\ complete' = [complete EXCEPT ![w] = TRUE]
    /\ wpc' = [wpc EXCEPT ![w] = "done"]
    /\ UNCHANGED <<subVars, queue, condVar, runFlag, cur, lastRun, crashed>>

-----------------------------------------------------------------------------
InSubmit(p) ==
    \/ LoadIndex(p) \/ CasSucceeds(p) \/ CasFails(p)
    \/ AddTaskCheck(p) \/ AddTaskEnqueue(p) \/ AddTaskNotify(p)

InJoin(p) == StopFlag(p) \/ StopEnqueue(p) \/ StopNotify(p) \/ JoinCheck(p)

WorkerStep(w) ==
    \/ WorkerLoop(w) \/ WorkerAwait(w)
    \/ WorkerDequeueEmpty(w) \/ WorkerDequeueNull(w) \/ WorkerDequeueTask(w)
    \/ WorkerRun(w) \/ WorkerDrain(w) \/ WorkerDrainNull(w) \/ WorkerComplete(w)

SubmitterNext(p) ==
    \/ \E s \in Sockets : SubmitPinned(p, s) \/ SubmitFresh(p, s)
    \/ InSubmit(p) \/ JoinBegin(p) \/ InJoin(p)

WorkerNext(w) == WorkerStep(w) \/ SpuriousWakeup(w)

\* A crash ends the process and every thread with it.
Next ==
    /\ ~crashed
    /\ \/ \E p \in Submitters : SubmitterNext(p)
       \/ \E w \in Workers : WorkerNext(w)

Spec == Init /\ [][Next]_vars

(***************************************************************************)
(* A thread that can go on eventually does.  Nobody is obliged to submit   *)
(* another task or to begin the shutdown, no wakeup is ever spurious by    *)
(* obligation, and a mutex or an exchange that is contended for ever is    *)
(* not promised to anyone.                                                 *)
(***************************************************************************)
Fairness ==
    /\ \A p \in Submitters : WF_vars(~crashed /\ (InSubmit(p) \/ InJoin(p)))
    /\ \A w \in Workers : WF_vars(~crashed /\ WorkerStep(w))

FairSpec == Spec /\ Fairness

-----------------------------------------------------------------------------
(* Properties *)

\* A worker asleep on its condition variable has nothing queued, unless a
\* submitter still holds the mutex and is about to signal it: condVar, which
\* addTask raises and PoolThread::run lowers outside the mutex, never goes so
\* far out of step with the queue that a task sits behind a sleeping worker.
NoLostWakeup ==
    \A w \in Workers : wpc[w] = "wait" /\ MutexFree(w) => queue[w] = <<>>

\* No two workers run tasks of one socket at the same time.  The read and write
\* tasks of a socket share its buffers without a lock, so the server depends on
\* submit pinning every task of a socket to the worker of its first one.
SocketSerial ==
    \A v, w \in Workers :
        v # w /\ cur[v] # NULL /\ cur[w] # NULL => cur[v].sock # cur[w].sock

\* The tasks of a socket that have run are always a prefix of those submitted,
\* in submission order: no reordering by the queue, no task skipped over by a
\* drop in addTask or by the drain at shutdown.
SocketInOrder ==
    [][\A s \in Sockets : lastRun'[s] \in {lastRun[s], lastRun[s] + 1}]_vars

\* When joinAll returns, no worker is running or will run anything and no task
\* is left behind unreleased in a queue.  True where the thread that joins is
\* the only one that submits, as in the server's event loop.
JoinedIsQuiet ==
    \A p \in Submitters : pc[p] = "joined" =>
        \A w \in Workers : wpc[w] = "done" /\ ToSet(queue[w]) \cap Task = {}

\* Every submitted task is eventually run, unless a shutdown begins: addTask
\* and the worker's wait never leave a task behind in a queue.
EveryTaskRuns ==
    \A s \in Sockets : \A n \in 1 .. MaxJobs :
        submitted[s] >= n ~> lastRun[s] >= n \/ rounds > 0

\* A shutdown that has begun ends: joinAll returns, or the drain loop of a
\* worker reads the null pointer that a stop() has queued and the process dies.
ShutdownEnds ==
    \A p \in Submitters : rounds > 0 /\ p = Joiner ~> pc[p] = "joined" \/ crashed
=============================================================================
