------------------------------ MODULE TaskPool ------------------------------
(***************************************************************************)
(* The other two modes of ThreadPool.  A pool made for priorities or for   *)
(* scheduled tasks has one TaskPool, wpool, which all workers share        *)
(* (PoolThread::runWithTaskPool): a queue under one condition variable     *)
(* with the counter count.  In the scheduled mode a timer thread moves     *)
(* tasks whose wait is over into that queue.                               *)
(*                                                                         *)
(* std::priority_queue<Task* > orders pointers, so the task it hands out   *)
(* is whichever lies highest in memory: any task of the set.               *)
(***************************************************************************)
EXTENDS Integers, Sequences, FiniteSets

CONSTANTS
    Workers,        \* the PoolThreads
    Plain,          \* Task objects
    Futures,        \* FutureTask objects
    Priority,       \* prioritypooling; otherwise allowScheduledTasks
    MayJoin,        \* joinAll may be called
    Tunit,          \* Tunit[t], Type[t]: the wait t is scheduled with
    Type,
    Instants,       \* bound: the times, in half seconds, at which anything happens
    LastCall,       \* bound: the time of the last call of schedule
    Batch,          \* the 100 of TaskPool::run
    NoTask

Tasks == Plain \cup Futures
Units == 0 .. 6

ASSUME TaskPoolAssumption ==
    /\ Priority \in BOOLEAN /\ MayJoin \in BOOLEAN /\ Batch \in Nat
    /\ \A t \in Tasks : Tunit[t] \in Int /\ Type[t] \in Int
    /\ Instants \subseteq Nat /\ 0 \in Instants
    /\ NoTask \notin Tasks

VARIABLES
    state,          \* state[t]: what the caller has done with t
    ptasks,         \* TaskPool::ptasks
    tasks,          \* TaskPool::tasks
    scheduled,      \* scheduledtasks with the start of their timers
    own,            \* the PoolThreads' own queues, which these workers never read
    count,          \* TaskPool::count
    runFlag,        \* runFlag[w]: PoolThread::runFlag
    pc,             \* pc[w]: where w is in runWithTaskPool
    cur,            \* cur[w]: its task
    isFuture,       \* isFuture[t]
    ran, called,    \* tasks whose run, whose call was executed
    isComplete,     \* FutureTask::isComplete
    now             \* half seconds since the start

queueVars == <<ptasks, tasks, scheduled, own, count>>
taskVars  == <<isFuture, ran, called, isComplete>>
vars      == <<state, queueVars, runFlag, pc, cur, taskVars, now>>

Init ==
    /\ state = [t \in Tasks |-> "new"]
    /\ ptasks = {} /\ tasks = <<>> /\ scheduled = <<>> /\ own = {}
    /\ count = 0
    /\ runFlag = [w \in Workers |-> TRUE]
    /\ pc = [w \in Workers |-> "loop"]
    /\ cur = [w \in Workers |-> NoTask]
    /\ isFuture = [t \in Tasks |-> FALSE]
    /\ ran = {} /\ called = {} /\ isComplete = {}
    /\ now = 0

Goto(w, l) == pc' = [pc EXCEPT ![w] = l]

\* conditionalNotifyOne on wpool's condition variable
NotifyOne ==
    IF \E w \in Workers : pc[w] = "wait"
    THEN \E w \in Workers : pc[w] = "wait" /\ Goto(w, "check")
    ELSE UNCHANGED pc

-----------------------------------------------------------------------------
(* The callers *)

\* Mutant: the first task of an empty queue is not signalled.
AddPTaskQuiet(t) ==
    /\ ptasks' = ptasks \cup {t}
    /\ count' = count + 1
    /\ IF ptasks = {} THEN UNCHANGED pc ELSE NotifyOne
    /\ UNCHANGED <<tasks, scheduled, own>>

AddPTask(t) ==
    /\ ptasks' = ptasks \cup {t}
    /\ count' = count + 1
    /\ NotifyOne
    /\ UNCHANGED <<tasks, scheduled, own>>

\* submit(task, priority): a FutureTask is marked only after it is in the queue.
SubmitPriority(t) ==
    /\ Priority /\ state[t] = "new"
    /\ AddPTask(t)
    /\ state' = [state EXCEPT ![t] = IF t \in Futures THEN "adding" ELSE "added"]
    /\ UNCHANGED <<runFlag, cur, taskVars, now>>

SetFuture(t) ==
    /\ state[t] = "adding"
    /\ isFuture' = [isFuture EXCEPT ![t] = TRUE]
    /\ state' = [state EXCEPT ![t] = "added"]
    /\ UNCHANGED <<queueVars, runFlag, pc, cur, ran, called, isComplete, now>>

\* schedule(task, tunit, type) and addSTask, which drops a task without a wait
Schedule(t) ==
    /\ ~Priority /\ state[t] = "new" /\ now <= LastCall
    /\ isFuture' = [isFuture EXCEPT ![t] = t \in Futures]
    /\ IF Type[t] \in Units /\ Tunit[t] > 0
       THEN /\ scheduled' = Append(scheduled, [task |-> t, start |-> now])
            /\ state' = [state EXCEPT ![t] = "added"]
       ELSE /\ state' = [state EXCEPT ![t] = "dropped"]
            /\ UNCHANGED scheduled
    /\ UNCHANGED <<ptasks, tasks, own, count, runFlag, pc, cur, ran, called, isComplete, now>>

\* submit(task), and either call in the mode it is not for: the task goes to the
\* queue of one PoolThread, or nowhere if that one is stopping.
SubmitOwn(t) ==
    /\ state[t] = "new"
    /\ \E w \in Workers :
         /\ own' = IF runFlag[w] THEN own \cup {t} ELSE own
         /\ state' = [state EXCEPT ![t] = IF runFlag[w] THEN "added" ELSE "dropped"]
    /\ UNCHANGED <<ptasks, tasks, scheduled, count, runFlag, pc, cur, taskVars, now>>

\* PoolThread::stop, called by joinAll: it clears runFlag and signals the worker's
\* own condition variable, on which these workers do not wait.
Stop(w) ==
    /\ MayJoin /\ runFlag[w]
    /\ runFlag' = [runFlag EXCEPT ![w] = FALSE]
    /\ UNCHANGED <<state, queueVars, pc, cur, taskVars, now>>

-----------------------------------------------------------------------------
(* TaskPool::run, the timer thread *)

\* Timer::elapsedSeconds: the difference of two whole seconds
Seconds(start) == (now \div 2) - (start \div 2)

\* Nanoseconds, microseconds and milliseconds in a second
PerSecond == <<1000000000, 1000000, 1000>>

\* Mutant: hours are counted as minutes.
WaitOverHoursShort(t, start) ==
    CASE Type[t] \in 0 .. 2 -> Tunit[t] <= ((now - start) * PerSecond[Type[t] + 1]) \div 2
      [] Type[t] = 3 -> Tunit[t] <= Seconds(start)
      [] Type[t] \in {4, 5} -> Tunit[t] <= Seconds(start) \div 60
      [] Type[t] = 6 -> Tunit[t] <= Seconds(start) \div 86400

\* Task::isWaitOver; MINUTES divides by 60 twice.
WaitOver(t, start) ==
    CASE Type[t] \in 0 .. 2 -> Tunit[t] <= ((now - start) * PerSecond[Type[t] + 1]) \div 2
      [] Type[t] = 3 -> Tunit[t] <= Seconds(start)
      [] Type[t] = 4 -> Tunit[t] <= (Seconds(start) \div 60) \div 60
      [] Type[t] = 5 -> Tunit[t] <= Seconds(start) \div 3600
      [] Type[t] = 6 -> Tunit[t] <= Seconds(start) \div 86400

\* The entries of scheduled that one pass moves: it looks at Batch + 1 of them.
Over == {i \in 1 .. Len(scheduled) :
            i <= Batch + 1 /\ WaitOver(scheduled[i].task, scheduled[i].start)}

\* The members of a set of positions, in increasing order
Increasing(S) ==
    {s \in [1 .. Cardinality(S) -> S] : \A i, j \in DOMAIN s : i < j => s[i] < s[j]}

\* One pass, under s_mutex.  Neither count nor the condition variable hears of it.
Sweep ==
    /\ ~Priority /\ Over # {}
    /\ \E s \in Increasing(Over) : tasks' = tasks \o [i \in DOMAIN s |-> scheduled[s[i]].task]
    /\ \E s \in Increasing((1 .. Len(scheduled)) \ Over) :
         scheduled' = [i \in DOMAIN s |-> scheduled[s[i]]]
    /\ UNCHANGED <<state, ptasks, own, count, runFlag, pc, cur, taskVars, now>>

Tick ==
    /\ \E i \in Instants : i > now /\ (\A j \in Instants : j > now => i <= j) /\ now' = i
    /\ UNCHANGED <<state, queueVars, runFlag, pc, cur, taskVars>>

-----------------------------------------------------------------------------
(* PoolThread::runWithTaskPool *)

Loop(w) ==
    /\ pc[w] = "loop"
    /\ Goto(w, IF runFlag[w] THEN "check" ELSE "drain")
    /\ UNCHANGED <<state, queueVars, runFlag, cur, taskVars, now>>

\* while(count<=0) conditionalWait
Check(w) ==
    /\ pc[w] = "check"
    /\ Goto(w, IF count <= 0 THEN "wait" ELSE "fetch")
    /\ UNCHANGED <<state, queueVars, runFlag, cur, taskVars, now>>

GetTask(t) ==
    /\ \/ ~Priority /\ tasks # <<>> /\ t = Head(tasks)
          /\ tasks' = Tail(tasks) /\ count' = count - 1 /\ UNCHANGED ptasks
       \/ Priority /\ t \in ptasks
          /\ ptasks' = ptasks \ {t} /\ count' = count - 1 /\ UNCHANGED tasks
       \/ t = NoTask /\ (IF Priority THEN ptasks = {} ELSE tasks = <<>>)
          /\ UNCHANGED <<tasks, ptasks, count>>
    /\ UNCHANGED <<scheduled, own>>

Fetch(w) ==
    /\ pc[w] = "fetch"
    /\ \E t \in Tasks \cup {NoTask} :
         /\ GetTask(t)
         /\ cur' = [cur EXCEPT ![w] = t]
         /\ Goto(w, IF t = NoTask THEN "loop" ELSE "run")
    /\ UNCHANGED <<state, runFlag, taskVars, now>>

\* Mutant: any FutureTask is completed, whatever isFuture says.
RunTaskCompletes(w) ==
    /\ pc[w] = "run" /\ ~isFuture[cur[w]]
    /\ ran' = ran \cup {cur[w]}
    /\ isComplete' = isComplete \cup ({cur[w]} \cap Futures)
    /\ Goto(w, "fetch")
    /\ UNCHANGED <<state, queueVars, runFlag, cur, isFuture, called, now>>

\* The task is not marked as a future: run, which a FutureTask leaves empty.
RunTask(w) ==
    /\ pc[w] = "run" /\ ~isFuture[cur[w]]
    /\ ran' = ran \cup {cur[w]}
    /\ Goto(w, "fetch")
    /\ UNCHANGED <<state, queueVars, runFlag, cur, isFuture, called, isComplete, now>>

\* call, whether it returns or throws; taskComplete follows either way.
CallFuture(w) ==
    /\ pc[w] = "run" /\ isFuture[cur[w]]
    /\ called' = called \cup {cur[w]}
    /\ Goto(w, "complete")
    /\ UNCHANGED <<state, queueVars, runFlag, cur, isFuture, ran, isComplete, now>>

TaskComplete(w) ==
    /\ pc[w] = "complete"
    /\ isComplete' = isComplete \cup {cur[w]}
    /\ Goto(w, "fetch")
    /\ UNCHANGED <<state, queueVars, runFlag, cur, isFuture, ran, called, now>>

\* After the loop: what is left is thrown away, then the worker is complete.
Drain(w) ==
    /\ pc[w] = "drain"
    /\ \E t \in Tasks \cup {NoTask} :
         GetTask(t) /\ Goto(w, IF t = NoTask THEN "done" ELSE "drain")
    /\ UNCHANGED <<state, runFlag, cur, taskVars, now>>

Work(w) == \/ Loop(w) \/ Check(w) \/ Fetch(w) \/ RunTask(w) \/ CallFuture(w)
           \/ TaskComplete(w) \/ Drain(w)

Next ==
    \/ \E t \in Tasks : SubmitPriority(t) \/ SetFuture(t) \/ Schedule(t) \/ SubmitOwn(t)
    \/ Sweep \/ Tick
    \/ \E w \in Workers : Work(w) \/ Stop(w)

Spec == Init /\ [][Next]_vars

-----------------------------------------------------------------------------
(* Properties *)

\* getResult returns only what call has produced: a future is complete only after
\* call, and one that ran before submit had marked it ran as an empty task, is
\* not called later and never completes.
FutureOutcome == isComplete \subseteq called /\ ran \cap called = {}

\* A task in the priority queue is run, unless the pool is shut down: the count
\* the workers sleep on keeps pace with the queue.
EveryTaskRuns ==
    \A t \in Tasks :
        t \in ptasks ~> t \in ran \cup called \/ \E w \in DOMAIN runFlag : ~runFlag[w]

\* The time a task asks for, in half seconds
Wait(t) ==
    CASE Type[t] \in 0 .. 2 -> (2 * Tunit[t]) \div PerSecond[Type[t] + 1]
      [] Type[t] \in 3 .. 6 -> 2 * Tunit[t] * (<<1, 60, 3600, 86400>>[Type[t] - 2])

\* No task is released more than a second before its time, for any unit.
NeverEarly ==
    [][\A i \in 1 .. Len(scheduled) :
          (\A j \in 1 .. Len(scheduled') : scheduled'[j] # scheduled[i])
              => now - scheduled[i].start + 2 > Wait(scheduled[i].task)]_vars
=============================================================================
