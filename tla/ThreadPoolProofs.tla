-------------------------- MODULE ThreadPoolProofs --------------------------
(***************************************************************************)
(* Proofs about ThreadPool, for any number of workers, submitters, sockets *)
(* and tasks, with or without a shutdown.                                  *)
(***************************************************************************)
EXTENDS ThreadPool, TLAPS

USE DEF Workers

-----------------------------------------------------------------------------
(* The inductive invariant *)

Entries(w) == 1 .. Len(queue[w])

\* A submitter inside submit or addTask works for a socket of its own.
OwnSocket ==
    \A p \in Submitters :
        pc[p] \in {"load", "cas", "check", "enqueue", "notify"} =>
            sock[p] \in Sockets /\ Owner[sock[p]] = p /\ submitted[sock[p]] > 0

\* cur is set exactly while a task runs.
CurSet == \A w \in Workers : wpc[w] = "run" <=> cur[w] # NULL

\* Once a socket is pinned, everything submitted for it is on that worker.
PinnedSubmit ==
    \A p \in Submitters :
        /\ pc[p] \in {"load", "cas"} => tid[sock[p]] = -1
        /\ pc[p] \in {"check", "enqueue"} => tid[sock[p]] = id[p]
PinnedQueue ==
    \A w \in Workers : \A i \in Entries(w) :
        queue[w][i].sock # NULL => tid[queue[w][i].sock] = w
PinnedCur == \A w \in Workers : cur[w] # NULL => tid[cur[w].sock] = w

Pinned == PinnedSubmit /\ PinnedQueue /\ PinnedCur

Pins == OwnSocket /\ CurSet /\ Pinned

\* At most one submitter is inside a worker's critical section.
MutexExclusive ==
    \A w \in Workers : \A p, q \in Submitters : Holds(p, w) /\ Holds(q, w) => p = q

\* The null pointer reaches a queue only after runFlag has been cleared.
NullAfterStop ==
    /\ \A w \in Workers : \A i \in Entries(w) : queue[w][i].sock = NULL => ~runFlag[w]
    /\ \A p \in Submitters : pc[p] = "stopEnqueue" => ~runFlag[id[p]]

\* The worker has not yet met a null pointer.
Serving(w) ==
    wpc[w] \in {"lock", "wait", "dequeue", "run"} \/ (wpc[w] = "top" /\ runFlag[w])

\* While it serves, condVar lags the queue by the one entry whose submitter
\* still holds the mutex.
CondVarInStep ==
    \A w \in Workers :
        /\ Serving(w) /\ MutexFree(w) => condVar[w] = Len(queue[w])
        /\ Serving(w) /\ ~MutexFree(w) => condVar[w] + 1 = Len(queue[w])
        /\ wpc[w] = "wait" => condVar[w] <= 0

Waking == MutexExclusive /\ NullAfterStop /\ CondVarInStep

IInv ==
    /\ TypeOK
    /\ Pins
    /\ Waking

-----------------------------------------------------------------------------
(* Sequences *)

\* Taking the entry at position i out of a queue keeps the others in order.
LEMMA RemoveAtFacts ==
    ASSUME NEW S, NEW q \in Seq(S), NEW i \in 1 .. Len(q)
    PROVE  /\ RemoveAt(q, i) \in Seq(S)
           /\ Len(RemoveAt(q, i)) = Len(q) - 1
           /\ \A j \in 1 .. Len(q) - 1 :
                RemoveAt(q, i)[j] = IF j < i THEN q[j] ELSE q[j + 1]
<1> DEFINE a == SubSeq(q, 1, i - 1)
           b == SubSeq(q, i + 1, Len(q))
<1>1. a \in Seq(S) /\ Len(a) = i - 1 /\ \A j \in 1 .. (i - 1) : a[j] = q[j]
  OBVIOUS
<1>2. b \in Seq(S) /\ Len(b) = Len(q) - i /\ \A j \in 1 .. (Len(q) - i) : b[j] = q[i + j]
  OBVIOUS
<1>3. RemoveAt(q, i) = a \o b
  BY DEF RemoveAt
<1>4. RemoveAt(q, i) \in Seq(S) /\ Len(RemoveAt(q, i)) = Len(q) - 1
  <2> HIDE DEF a, b
  <2> QED BY <1>1, <1>2, <1>3
<1>5. ASSUME NEW j \in 1 .. Len(q) - 1 
      PROVE RemoveAt(q, i)[j] = IF j < i THEN q[j] ELSE q[j + 1]
  <2> HIDE DEF a, b
  <2> QED BY <1>1, <1>2, <1>3
<1> QED BY <1>4, <1>5

\* Every entry try_dequeue may return is an entry of the queue.
LEMMA HeadsAreEntries ==
    ASSUME NEW q PROVE Heads(q) \subseteq 1 .. Len(q)
  BY DEF Heads

\* A dequeue leaves in every queue only entries that were there before.
LEMMA AfterDequeue ==
    ASSUME TypeOK, NEW w \in Workers, NEW i \in Heads(queue[w]),
           queue' = [queue EXCEPT ![w] = RemoveAt(@, i)]
    PROVE  /\ \A v \in Workers : \A k \in 1 .. Len(queue'[v]) :
                \E j \in 1 .. Len(queue[v]) : queue'[v][k] = queue[v][j]
           /\ Len(queue'[w]) = Len(queue[w]) - 1
           /\ \A v \in Workers : v # w => queue'[v] = queue[v]
           /\ i \in 1 .. Len(queue[w])
           /\ queue[w] \in Seq(Task \cup Stop)
<1>1. i \in 1 .. Len(queue[w]) /\ queue[w] \in Seq(Task \cup Stop)
  BY HeadsAreEntries DEF TypeOK
<1>2. queue'[w] = RemoveAt(queue[w], i) /\ \A v \in Workers : v # w => queue'[v] = queue[v]
  BY DEF TypeOK
<1>3. /\ Len(queue'[w]) = Len(queue[w]) - 1
      /\ \A k \in 1 .. Len(queue[w]) - 1 :
           queue'[w][k] = IF k < i THEN queue[w][k] ELSE queue[w][k + 1]
  BY <1>1, <1>2, RemoveAtFacts
<1>4. \A k \in 1 .. Len(queue'[w]) : \E j \in 1 .. Len(queue[w]) : queue'[w][k] = queue[w][j]
  BY <1>1, <1>3
<1> QED
  BY <1>1, <1>2, <1>3, <1>4

\* An enqueue adds one entry at the end of one queue.
LEMMA AfterEnqueue ==
    ASSUME TypeOK, NEW w \in Workers, NEW e \in Task \cup Stop,
           queue' = [queue EXCEPT ![w] = Append(@, e)]
    PROVE  /\ \A v \in Workers : \A k \in 1 .. Len(queue'[v]) :
                \/ k \in 1 .. Len(queue[v]) /\ queue'[v][k] = queue[v][k]
                \/ v = w /\ queue'[v][k] = e
           /\ Len(queue'[w]) = Len(queue[w]) + 1
           /\ \A v \in Workers : v # w => queue'[v] = queue[v]
<1>1. queue[w] \in Seq(Task \cup Stop)
  BY DEF TypeOK
<1>2. queue'[w] = Append(queue[w], e) /\ \A v \in Workers : v # w => queue'[v] = queue[v]
  BY DEF TypeOK
<1>3. /\ Len(queue'[w]) = Len(queue[w]) + 1
      /\ \A k \in 1 .. Len(queue[w]) : queue'[w][k] = queue[w][k]
      /\ queue'[w][Len(queue[w]) + 1] = e
  BY <1>1, <1>2
<1> QED
  BY <1>1, <1>2, <1>3

-----------------------------------------------------------------------------
(* Type correctness *)

LEMMA TypeInit == Init => TypeOK
<1> SUFFICES ASSUME Init PROVE TypeOK
  OBVIOUS
<1> USE ConstantsAssumption DEF Init, Workers
<1>1. currentThread \in Nat /\ rounds \in Nat /\ crashed \in BOOLEAN
  OBVIOUS
<1>2. tid \in [Sockets -> {-1} \cup Workers]
  OBVIOUS
<1>3. submitted \in [Sockets -> Nat] /\ lastRun \in [Sockets -> Nat]
  OBVIOUS
<1>4. pc \in [Submitters -> SubmitPcs \cup JoinPcs]
  BY DEF SubmitPcs
<1>5.  sock \in [Submitters -> Sockets \cup {NULL}]
  OBVIOUS
<1>6. id \in [Submitters -> Workers] /\ old \in [Submitters -> Nat]
  OBVIOUS
<1>7. queue \in [Workers -> Seq(Task \cup Stop)]
  OBVIOUS
<1>8. /\ condVar \in [Workers -> Int]
    /\ runFlag \in [Workers -> BOOLEAN]
    /\ complete \in [Workers -> BOOLEAN]
  OBVIOUS
<1>9. wpc \in [Workers -> WorkerPcs]
  BY DEF WorkerPcs
<1>10. cur \in [Workers -> Task \cup {NULL}]
  OBVIOUS
<1> QED BY <1>1, <1>2, <1>3, <1>4, <1>5, <1>6, <1>7, <1>8, <1>9, <1>10 DEF TypeOK

LEMMA TypeStep == TypeOK /\ OwnSocket /\ CurSet /\ Next => TypeOK'
<1> SUFFICES ASSUME TypeOK, OwnSocket, CurSet, Next PROVE TypeOK'
  OBVIOUS
<1> USE ConstantsAssumption
<1>1. ASSUME NEW p \in Submitters, NEW s \in Sockets, SubmitPinned(p, s) PROVE TypeOK'
  <2>1. tid[s] \in Workers
    BY <1>1 DEF SubmitPinned, TypeOK
  <2>2. submitted' \in [Sockets -> Nat]
    <3>1. submitted \in [Sockets -> Nat]
      BY DEF TypeOK
    <3>2. submitted' = [submitted EXCEPT ![s] = submitted[s] + 1]
      BY <1>1 DEF SubmitPinned
    <3> QED
      BY <3>1, <3>2
  <2>3. sock' \in [Submitters -> Sockets \cup {NULL}] /\ id' \in [Submitters -> Workers]
    BY <1>1, <2>1 DEF SubmitPinned, TypeOK
  <2>4. pc' \in [Submitters -> SubmitPcs \cup JoinPcs]
    BY <1>1 DEF SubmitPinned, TypeOK, SubmitPcs
  <2> QED
    BY <1>1, <2>1, <2>2, <2>3, <2>4 DEF SubmitPinned, TypeOK, workVars
<1>2. ASSUME NEW p \in Submitters, NEW s \in Sockets, SubmitFresh(p, s) PROVE TypeOK'
  <2>1. currentThread % N \in Workers /\ currentThread + 1 \in Nat
    BY SMTT(30) DEF TypeOK
  <2>2. submitted' \in [Sockets -> Nat]
    <3>1. submitted \in [Sockets -> Nat]
      BY DEF TypeOK
    <3>2. submitted' = [submitted EXCEPT ![s] = submitted[s] + 1]
      BY <1>2 DEF SubmitFresh
    <3> QED
      BY <3>1, <3>2
  <2>3. sock' \in [Submitters -> Sockets \cup {NULL}] /\ id' \in [Submitters -> Workers]
    BY <1>2, <2>1 DEF SubmitFresh, TypeOK
  <2>4. pc' \in [Submitters -> SubmitPcs \cup JoinPcs]
    BY <1>2 DEF SubmitFresh, TypeOK, SubmitPcs
  <2> QED
    BY <1>2, <2>1, <2>2, <2>3, <2>4 DEF SubmitFresh, TypeOK, workVars
<1>3. ASSUME NEW p \in Submitters, LoadIndex(p) PROVE TypeOK'
  BY <1>3 DEF LoadIndex, TypeOK, SubmitPcs, workVars
<1>4. ASSUME NEW p \in Submitters, CasSucceeds(p) PROVE TypeOK'
  <2>1. old[p] % N \in Nat /\ id[p] \in Workers
    BY DEF TypeOK
  <2> QED
    BY <1>4, <2>1 DEF CasSucceeds, TypeOK, SubmitPcs, workVars
<1>5. ASSUME NEW p \in Submitters, CasFails(p) PROVE TypeOK'
  BY <1>5 DEF CasFails, TypeOK, SubmitPcs, workVars
<1>6. ASSUME NEW p \in Submitters, AddTaskCheck(p) PROVE TypeOK'
  BY <1>6 DEF AddTaskCheck, TypeOK, SubmitPcs, workVars
<1>7. ASSUME NEW p \in Submitters, AddTaskEnqueue(p) PROVE TypeOK'
  <2>1. NewTask(p) \in Task /\ id[p] \in Workers
    BY <1>7 DEF AddTaskEnqueue, TypeOK, NewTask, Task, OwnSocket
  <2>2. queue' \in [Workers -> Seq(Task \cup Stop)]
    BY <1>7, <2>1 DEF AddTaskEnqueue, TypeOK
  <2>3. pc' \in [Submitters -> SubmitPcs \cup JoinPcs]
    BY <1>7 DEF AddTaskEnqueue, TypeOK, SubmitPcs
  <2> QED
    BY <1>7, <2>2, <2>3 DEF AddTaskEnqueue, TypeOK, workVars
<1>8. ASSUME NEW p \in Submitters, AddTaskNotify(p) PROVE TypeOK'
  <2>1. condVar' \in [Workers -> Int] /\ wpc' \in [Workers -> WorkerPcs]
    BY <1>8 DEF AddTaskNotify, Signal, TypeOK, WorkerPcs
  <2>2. pc' \in [Submitters -> SubmitPcs \cup JoinPcs]
    BY <1>8 DEF AddTaskNotify, TypeOK, SubmitPcs
  <2> QED
    BY <1>8, <2>1, <2>2 DEF AddTaskNotify, TypeOK
<1>9. ASSUME NEW p \in Submitters, JoinBegin(p) PROVE TypeOK'
  <2>1. id' \in [Submitters -> Workers] /\ rounds' \in Nat
    BY <1>9 DEF JoinBegin, TypeOK
  <2>2. pc' \in [Submitters -> SubmitPcs \cup JoinPcs]
    BY <1>9 DEF JoinBegin, TypeOK, JoinPcs
  <2> QED
    BY <1>9, <2>1, <2>2 DEF JoinBegin, TypeOK, workVars
<1>10. ASSUME NEW p \in Submitters, StopFlag(p) PROVE TypeOK'
  <2>1. runFlag' \in [Workers -> BOOLEAN]
    BY <1>10 DEF StopFlag, TypeOK
  <2>2. pc' \in [Submitters -> SubmitPcs \cup JoinPcs]
    BY <1>10 DEF StopFlag, TypeOK, JoinPcs
  <2> QED
    BY <1>10, <2>1, <2>2 DEF StopFlag, TypeOK, workVars
<1>11. ASSUME NEW p \in Submitters, StopEnqueue(p) PROVE TypeOK'
  <2>1. [src |-> p, sock |-> NULL, num |-> 0] \in Stop /\ id[p] \in Workers
    BY DEF TypeOK, Stop
  <2>2. queue' \in [Workers -> Seq(Task \cup Stop)]
    BY <1>11, <2>1 DEF StopEnqueue, TypeOK
  <2>3. pc' \in [Submitters -> SubmitPcs \cup JoinPcs]
    BY <1>11 DEF StopEnqueue, TypeOK, JoinPcs
  <2> QED
    BY <1>11, <2>2, <2>3 DEF StopEnqueue, TypeOK, workVars
<1>12. ASSUME NEW p \in Submitters, StopNotify(p) PROVE TypeOK'
  <2>1. condVar' \in [Workers -> Int] /\ wpc' \in [Workers -> WorkerPcs]
    BY <1>12, SMTT(30) DEF StopNotify, Signal, TypeOK, WorkerPcs
  <2>2. id' \in [Submitters -> Workers]
    <3>1. CASE id[p] + 1 < N
      <4>1. id' = [id EXCEPT ![p] = id[p] + 1] /\ id[p] + 1 \in Workers
        BY <1>12, <3>1, SMTT(30) DEF StopNotify, TypeOK
      <4> QED
        BY <4>1 DEF TypeOK
    <3>2. CASE ~(id[p] + 1 < N)
      BY <1>12, <3>2 DEF StopNotify, TypeOK
    <3> QED
      BY <3>1, <3>2
  <2>3. pc' \in [Submitters -> SubmitPcs \cup JoinPcs]
    BY <1>12, ZenonT(30) DEF StopNotify, TypeOK, JoinPcs
  <2> QED
    BY <1>12, <2>1, <2>2, <2>3 DEF StopNotify, TypeOK
<1>13. ASSUME NEW p \in Submitters, JoinCheck(p) PROVE TypeOK'
  <2>1. UNCHANGED <<currentThread, tid, submitted, sock, old, queue, condVar, runFlag, workVars>>
    BY <1>13 DEF JoinCheck
  <2>2. CASE /\ pc' = [pc EXCEPT ![p] = "joined"]
             /\ UNCHANGED <<id, rounds>>
    BY <2>1, <2>2 DEF TypeOK, JoinPcs, workVars
  <2>3. CASE /\ rounds' = rounds + 1
             /\ id' = [id EXCEPT ![p] = 0]
             /\ pc' = [pc EXCEPT ![p] = "stop"]
    BY <2>1, <2>3 DEF TypeOK, JoinPcs, workVars
  <2> QED
    BY <1>13, <2>2, <2>3 DEF JoinCheck
<1>14. ASSUME NEW w \in Workers, WorkerLoop(w) PROVE TypeOK'
  BY <1>14 DEF WorkerLoop, TypeOK, subVars, WorkerPcs
<1>15. ASSUME NEW w \in Workers, WorkerAwait(w) PROVE TypeOK'
  BY <1>15 DEF WorkerAwait, TypeOK, subVars, WorkerPcs
<1>16. ASSUME NEW w \in Workers, SpuriousWakeup(w) PROVE TypeOK'
  BY <1>16 DEF SpuriousWakeup, TypeOK, subVars, WorkerPcs
<1>17. ASSUME NEW w \in Workers, WorkerDequeueEmpty(w) PROVE TypeOK'
  BY <1>17 DEF WorkerDequeueEmpty, TypeOK, subVars, WorkerPcs
<1>18. ASSUME NEW w \in Workers, WorkerDequeueNull(w) PROVE TypeOK'
  <2>1. PICK i \in Heads(queue[w]) : queue' = [queue EXCEPT ![w] = RemoveAt(@, i)]
    BY <1>18 DEF WorkerDequeueNull
  <2>2. RemoveAt(queue[w], i) \in Seq(Task \cup Stop)
    BY HeadsAreEntries, RemoveAtFacts DEF TypeOK
  <2>3. queue' \in [Workers -> Seq(Task \cup Stop)]
    BY <2>1, <2>2 DEF TypeOK
  <2>4. wpc' \in [Workers -> WorkerPcs]
    BY <1>18 DEF WorkerDequeueNull, TypeOK, WorkerPcs
  <2> QED
    BY <1>18, <2>3, <2>4 DEF WorkerDequeueNull, TypeOK, subVars
<1>19. ASSUME NEW w \in Workers, WorkerDequeueTask(w) PROVE TypeOK'
  <2>1. PICK i \in Heads(queue[w]) :
          /\ queue[w][i].sock # NULL
          /\ cur' = [cur EXCEPT ![w] = queue[w][i]]
          /\ queue' = [queue EXCEPT ![w] = RemoveAt(@, i)]
    BY <1>19 DEF WorkerDequeueTask
  <2>2. RemoveAt(queue[w], i) \in Seq(Task \cup Stop)
    BY HeadsAreEntries, RemoveAtFacts DEF TypeOK
  <2>3. queue' \in [Workers -> Seq(Task \cup Stop)]
    BY <2>1, <2>2 DEF TypeOK
  <2>4. queue[w][i] \in Task
    BY <2>1, HeadsAreEntries DEF TypeOK, Stop
  <2>5. cur' \in [Workers -> Task \cup {NULL}]
    BY <2>1, <2>4 DEF TypeOK
  <2>6. condVar' \in [Workers -> Int] /\ wpc' \in [Workers -> WorkerPcs]
    BY <1>19 DEF WorkerDequeueTask, TypeOK, WorkerPcs
  <2> QED
    BY <1>19, <2>3, <2>5, <2>6 DEF WorkerDequeueTask, TypeOK, subVars
<1>20. ASSUME NEW w \in Workers, WorkerRun(w) PROVE TypeOK'
  BY <1>20 DEF WorkerRun, TypeOK, subVars, WorkerPcs, CurSet, Task
<1>21. ASSUME NEW w \in Workers, WorkerDrain(w) PROVE TypeOK'
  <2>1. PICK i \in Heads(queue[w]) : queue' = [queue EXCEPT ![w] = RemoveAt(@, i)]
    BY <1>21 DEF WorkerDrain
  <2>2. RemoveAt(queue[w], i) \in Seq(Task \cup Stop)
    BY HeadsAreEntries, RemoveAtFacts DEF TypeOK
  <2>3. queue' \in [Workers -> Seq(Task \cup Stop)]
    BY <2>1, <2>2 DEF TypeOK
  <2> QED
    BY <1>21, <2>3 DEF WorkerDrain, TypeOK, subVars, workVars
<1>22. ASSUME NEW w \in Workers, WorkerDrainNull(w) PROVE TypeOK'
  BY <1>22 DEF WorkerDrainNull, TypeOK, subVars
<1>23. ASSUME NEW w \in Workers, WorkerComplete(w) PROVE TypeOK'
  BY <1>23 DEF WorkerComplete, TypeOK, subVars, WorkerPcs
<1> QED
  BY <1>1, <1>2, <1>3, <1>4, <1>5, <1>6, <1>7, <1>8, <1>9, <1>10, <1>11, <1>12, <1>13,
     <1>14, <1>15, <1>16, <1>17, <1>18, <1>19, <1>20, <1>21, <1>22, <1>23
     DEF Next, SubmitterNext, WorkerNext, InSubmit, InJoin, WorkerStep

-----------------------------------------------------------------------------
(* Every socket stays with the worker it was pinned to *)

LEMMA PinnedQueueDequeue ==
    ASSUME TypeOK, PinnedQueue, tid' = tid,
           NEW w \in Workers, NEW i \in Heads(queue[w]),
           queue' = [queue EXCEPT ![w] = RemoveAt(@, i)]
    PROVE  PinnedQueue'
<1> SUFFICES ASSUME NEW v \in Workers, NEW k \in 1 .. Len(queue'[v]), queue'[v][k].sock # NULL
             PROVE  tid[queue'[v][k].sock] = v
  BY DEF PinnedQueue, Entries
<1>1. PICK j \in 1 .. Len(queue[v]) : queue'[v][k] = queue[v][j]
  BY AfterDequeue
<1> QED
  BY <1>1 DEF PinnedQueue, Entries

\* Pinning, with what it rests on, survives every step.
LEMMA PinStep == TypeOK /\ Pins /\ Next => Pins'
<1> SUFFICES ASSUME TypeOK, Pins, Next PROVE Pins'
  OBVIOUS
<1> USE ConstantsAssumption DEF Pins, Pinned
<1>1. ASSUME NEW p \in Submitters, NEW s \in Sockets, SubmitPinned(p, s) PROVE Pins'
  <2>1. OwnSocket'
    <3>1. submitted'[s] > 0 /\ \A t \in Sockets : t # s => submitted'[t] = submitted[t]
      BY <1>1 DEF SubmitPinned, TypeOK
    <3>2. /\ sock'[p] = s /\ Owner[s] = p
          /\ \A q \in Submitters : q # p => pc'[q] = pc[q] /\ sock'[q] = sock[q]
      BY <1>1 DEF SubmitPinned, TypeOK
    <3> QED
      BY <3>1, <3>2 DEF OwnSocket
  <2>2. CurSet' /\ PinnedQueue' /\ PinnedCur'
    BY <1>1 DEF SubmitPinned, workVars, CurSet, PinnedQueue, PinnedCur, Entries
  <2>3. PinnedSubmit'
    BY <1>1 DEF SubmitPinned, TypeOK, PinnedSubmit
  <2> QED
    BY <2>1, <2>2, <2>3
<1>2. ASSUME NEW p \in Submitters, NEW s \in Sockets, SubmitFresh(p, s) PROVE Pins'
  <2>1. OwnSocket'
    <3>1. submitted'[s] > 0 /\ \A t \in Sockets : t # s => submitted'[t] = submitted[t]
      BY <1>2 DEF SubmitFresh, TypeOK
    <3>2. /\ sock'[p] = s /\ Owner[s] = p
          /\ \A q \in Submitters : q # p => pc'[q] = pc[q] /\ sock'[q] = sock[q]
      BY <1>2 DEF SubmitFresh, TypeOK
    <3> QED
      BY <3>1, <3>2 DEF OwnSocket
  <2>2. CurSet' /\ PinnedQueue' /\ PinnedCur'
    BY <1>2 DEF SubmitFresh, workVars, CurSet, PinnedQueue, PinnedCur, Entries
  <2>3. PinnedSubmit'
    BY <1>2 DEF SubmitFresh, TypeOK, PinnedSubmit
  <2> QED
    BY <2>1, <2>2, <2>3
<1>3. ASSUME NEW p \in Submitters, LoadIndex(p) PROVE Pins'
  <2>1. OwnSocket' /\ CurSet'
    BY <1>3, SMTT(30) DEF LoadIndex, workVars, TypeOK, OwnSocket, CurSet
  <2>2. PinnedSubmit'
    BY <1>3, SMTT(30) DEF LoadIndex, TypeOK, PinnedSubmit
  <2>3. PinnedQueue' /\ PinnedCur'
    BY <1>3, SMTT(30) DEF LoadIndex, workVars, PinnedQueue, PinnedCur, Entries
  <2> QED
    BY <2>1, <2>2, <2>3
<1>4. ASSUME NEW p \in Submitters, CasSucceeds(p) PROVE Pins'
  <2>1. sock[p] \in Sockets /\ Owner[sock[p]] = p /\ tid[sock[p]] = -1
    BY <1>4 DEF CasSucceeds, OwnSocket, PinnedSubmit
  <2>2. OwnSocket' /\ CurSet'
    BY <1>4 DEF CasSucceeds, workVars, TypeOK, OwnSocket, CurSet
  <2>3. \A t \in Sockets : t # sock[p] => tid'[t] = tid[t]
    BY <1>4 DEF CasSucceeds, TypeOK
  <2>4. tid'[sock[p]] = id[p]
    BY <1>4, <2>1 DEF CasSucceeds, TypeOK
  <2>5. PinnedSubmit'
    <3> SUFFICES ASSUME NEW q \in Submitters
                 PROVE  /\ pc'[q] \in {"load", "cas"} => tid'[sock'[q]] = -1
                        /\ pc'[q] \in {"check", "enqueue"} => tid'[sock'[q]] = id'[q]
      BY DEF PinnedSubmit
    <3>1. CASE q = p
      BY <1>4, <3>1, <2>4 DEF CasSucceeds, TypeOK
    <3>2. CASE q # p
      <4>1. pc'[q] = pc[q] /\ sock'[q] = sock[q] /\ id'[q] = id[q]
        BY <1>4, <3>2 DEF CasSucceeds, TypeOK
      <4>2. pc[q] \in {"load", "cas", "check", "enqueue"}
              => sock[q] \in Sockets /\ sock[q] # sock[p]
        BY <2>1, <3>2 DEF OwnSocket
      <4> QED
        BY <4>1, <4>2, <2>3 DEF PinnedSubmit
    <3> QED
      BY <3>1, <3>2
  <2>6. PinnedQueue'
    <3> SUFFICES ASSUME NEW w \in Workers, NEW k \in 1 .. Len(queue[w]), queue[w][k].sock # NULL
                 PROVE  tid'[queue[w][k].sock] = w
      BY <1>4 DEF CasSucceeds, PinnedQueue, Entries
    <3>1. tid[queue[w][k].sock] = w
      BY DEF PinnedQueue, Entries
    <3>2. queue[w][k] \in Task
      BY DEF TypeOK, Stop
    <3> QED
      BY <3>1, <3>2, <2>1, <2>3 DEF Task
  <2>7. PinnedCur'
    <3> SUFFICES ASSUME NEW w \in Workers, cur[w] # NULL PROVE tid'[cur[w].sock] = w
      BY <1>4 DEF CasSucceeds, workVars, PinnedCur
    <3>1. tid[cur[w].sock] = w /\ cur[w] \in Task
      BY DEF PinnedCur, TypeOK
    <3> QED
      BY <3>1, <2>1, <2>3 DEF Task
  <2> QED
    BY <2>2, <2>5, <2>6, <2>7
<1>5. ASSUME NEW p \in Submitters, CasFails(p) PROVE Pins'
  <2>1. OwnSocket' /\ CurSet'
    BY <1>5, SMTT(30) DEF CasFails, workVars, TypeOK, OwnSocket, CurSet
  <2>2. PinnedSubmit'
    BY <1>5, SMTT(30) DEF CasFails, TypeOK, PinnedSubmit
  <2>3. PinnedQueue' /\ PinnedCur'
    BY <1>5, SMTT(30) DEF CasFails, workVars, PinnedQueue, PinnedCur, Entries
  <2> QED
    BY <2>1, <2>2, <2>3
<1>6. ASSUME NEW p \in Submitters, AddTaskCheck(p) PROVE Pins'
  <2>1. OwnSocket' /\ CurSet'
    BY <1>6, SMTT(30) DEF AddTaskCheck, workVars, TypeOK, OwnSocket, CurSet
  <2>2. PinnedSubmit'
    BY <1>6, SMTT(30) DEF AddTaskCheck, TypeOK, PinnedSubmit
  <2>3. PinnedQueue' /\ PinnedCur'
    BY <1>6, SMTT(30) DEF AddTaskCheck, workVars, PinnedQueue, PinnedCur, Entries
  <2> QED
    BY <2>1, <2>2, <2>3
<1>7. ASSUME NEW p \in Submitters, AddTaskEnqueue(p) PROVE Pins'
  <2>1. NewTask(p) \in Task /\ id[p] \in Workers /\ tid[sock[p]] = id[p]
    BY <1>7 DEF AddTaskEnqueue, TypeOK, NewTask, Task, OwnSocket, PinnedSubmit
  <2>2. NewTask(p).sock # NULL => tid[NewTask(p).sock] = id[p]
    BY <2>1 DEF NewTask
  <2>3. queue' = [queue EXCEPT ![id[p]] = Append(@, NewTask(p))]
    BY <1>7 DEF AddTaskEnqueue
  <2>4. OwnSocket' /\ CurSet' /\ PinnedSubmit' /\ PinnedCur'
    BY <1>7 DEF AddTaskEnqueue, workVars, TypeOK, OwnSocket, CurSet, PinnedSubmit, PinnedCur
  <2>5. PinnedQueue'
    <3>1. \A v \in Workers : \A k \in 1 .. Len(queue'[v]) :
            \/ k \in 1 .. Len(queue[v]) /\ queue'[v][k] = queue[v][k]
            \/ v = id[p] /\ queue'[v][k] = NewTask(p)
      BY <2>1, <2>3, AfterEnqueue
    <3>2. tid' = tid
      BY <1>7 DEF AddTaskEnqueue
    <3> QED
      BY <2>2, <3>1, <3>2 DEF PinnedQueue, Entries
  <2> QED
    BY <2>4, <2>5
<1>8. ASSUME NEW p \in Submitters, AddTaskNotify(p) PROVE Pins'
  BY <1>8, SMTT(30) DEF AddTaskNotify, Signal, TypeOK, OwnSocket, CurSet,
         PinnedSubmit, PinnedQueue, PinnedCur, Entries
<1>9. ASSUME NEW p \in Submitters, JoinBegin(p) PROVE Pins'
  BY <1>9 DEF JoinBegin, workVars, TypeOK, OwnSocket, CurSet,
         PinnedSubmit, PinnedQueue, PinnedCur, Entries
<1>10. ASSUME NEW p \in Submitters, StopFlag(p) PROVE Pins'
  BY <1>10 DEF StopFlag, workVars, TypeOK, OwnSocket, CurSet,
         PinnedSubmit, PinnedQueue, PinnedCur, Entries
<1>11. ASSUME NEW p \in Submitters, StopEnqueue(p) PROVE Pins'
  <2> DEFINE e == [src |-> p, sock |-> NULL, num |-> 0]
  <2>1. e \in Stop /\ id[p] \in Workers
    BY DEF TypeOK, Stop
  <2>2. e.sock # NULL => tid[e.sock] = id[p]
    OBVIOUS
  <2>3. queue' = [queue EXCEPT ![id[p]] = Append(@, e)]
    BY <1>11 DEF StopEnqueue
  <2>4. OwnSocket' /\ CurSet' /\ PinnedSubmit' /\ PinnedCur'
    BY <1>11 DEF StopEnqueue, workVars, TypeOK, OwnSocket, CurSet, PinnedSubmit, PinnedCur
  <2>5. PinnedQueue'
    <3> HIDE DEF e
    <3>1. \A v \in Workers : \A k \in 1 .. Len(queue'[v]) :
            \/ k \in 1 .. Len(queue[v]) /\ queue'[v][k] = queue[v][k]
            \/ v = id[p] /\ queue'[v][k] = e
      BY <2>1, <2>3, AfterEnqueue
    <3>2. tid' = tid
      BY <1>11 DEF StopEnqueue
    <3> QED
      BY <2>2, <3>1, <3>2 DEF PinnedQueue, Entries
  <2> QED
    BY <2>4, <2>5
<1>12. ASSUME NEW p \in Submitters, StopNotify(p) PROVE Pins'
  <2>1. /\ pc'[p] \in {"stop", "joinCheck"}
        /\ \A q \in Submitters : q # p => pc'[q] = pc[q] /\ id'[q] = id[q]
    BY <1>12 DEF StopNotify, TypeOK
  <2>2. OwnSocket' /\ PinnedSubmit'
    BY <1>12, <2>1 DEF StopNotify, OwnSocket, PinnedSubmit
  <2>3. CurSet'
    BY <1>12 DEF StopNotify, Signal, TypeOK, CurSet
  <2>4. PinnedQueue' /\ PinnedCur'
    BY <1>12 DEF StopNotify, PinnedQueue, PinnedCur, Entries
  <2> QED
    BY <2>2, <2>3, <2>4
<1>13. ASSUME NEW p \in Submitters, JoinCheck(p) PROVE Pins'
  <2>1. /\ pc'[p] \in {"stop", "joined"}
        /\ \A q \in Submitters : q # p => pc'[q] = pc[q] /\ id'[q] = id[q]
    BY <1>13 DEF JoinCheck, TypeOK
  <2>2. OwnSocket' /\ PinnedSubmit'
    BY <1>13, <2>1 DEF JoinCheck, OwnSocket, PinnedSubmit
  <2>3. CurSet' /\ PinnedQueue' /\ PinnedCur'
    BY <1>13 DEF JoinCheck, workVars, CurSet, PinnedQueue, PinnedCur, Entries
  <2> QED
    BY <2>2, <2>3
<1>14. ASSUME NEW w \in Workers, WorkerLoop(w) PROVE Pins'
  BY <1>14 DEF WorkerLoop, subVars, TypeOK, OwnSocket, CurSet,
         PinnedSubmit, PinnedQueue, PinnedCur, Entries
<1>15. ASSUME NEW w \in Workers, WorkerAwait(w) PROVE Pins'
  BY <1>15 DEF WorkerAwait, subVars, TypeOK, OwnSocket, CurSet,
         PinnedSubmit, PinnedQueue, PinnedCur, Entries
<1>16. ASSUME NEW w \in Workers, SpuriousWakeup(w) PROVE Pins'
  BY <1>16 DEF SpuriousWakeup, subVars, TypeOK, OwnSocket, CurSet,
         PinnedSubmit, PinnedQueue, PinnedCur, Entries
<1>17. ASSUME NEW w \in Workers, WorkerDequeueEmpty(w) PROVE Pins'
  BY <1>17 DEF WorkerDequeueEmpty, subVars, TypeOK, OwnSocket, CurSet,
         PinnedSubmit, PinnedQueue, PinnedCur, Entries
<1>18. ASSUME NEW w \in Workers, WorkerDequeueNull(w) PROVE Pins'
  <2>1. PICK i \in Heads(queue[w]) : queue' = [queue EXCEPT ![w] = RemoveAt(@, i)]
    BY <1>18 DEF WorkerDequeueNull
  <2>3. PinnedQueue'
    <3>1. tid' = tid
      BY <1>18 DEF WorkerDequeueNull, subVars
    <3> QED
      BY <2>1, <3>1, PinnedQueueDequeue
  <2>4. OwnSocket' /\ CurSet' /\ PinnedSubmit' /\ PinnedCur'
    BY <1>18 DEF WorkerDequeueNull, subVars, workVars, TypeOK, OwnSocket, CurSet,
            PinnedSubmit, PinnedCur
  <2> QED
    BY <2>3, <2>4
<1>19. ASSUME NEW w \in Workers, WorkerDequeueTask(w) PROVE Pins'
  <2>1. PICK i \in Heads(queue[w]) :
          /\ queue[w][i].sock # NULL
          /\ cur' = [cur EXCEPT ![w] = queue[w][i]]
          /\ queue' = [queue EXCEPT ![w] = RemoveAt(@, i)]
    BY <1>19 DEF WorkerDequeueTask
  <2>2. i \in 1 .. Len(queue[w]) /\ queue[w] \in Seq(Task \cup Stop)
    BY HeadsAreEntries DEF TypeOK
  <2>3. PinnedQueue'
    <3>1. tid' = tid
      BY <1>19 DEF WorkerDequeueTask, subVars
    <3> QED
      BY <2>1, <3>1, PinnedQueueDequeue
  <2>4. queue[w][i] \in Task /\ tid[queue[w][i].sock] = w
    <3>1. queue[w][i] \in Task \cup Stop
      BY <2>2
    <3>2. queue[w][i] \in Task
      BY <2>1, <3>1 DEF Stop
    <3> QED
      BY <2>1, <2>2, <3>2 DEF PinnedQueue, Entries
  <2>5. PinnedCur'
    BY <1>19, <2>1, <2>4 DEF WorkerDequeueTask, subVars, TypeOK, PinnedCur
  <2>6. queue[w][i] # NULL
    BY <2>4, NullAssumption
  <2>7. CurSet'
    BY <1>19, <2>1, <2>6 DEF WorkerDequeueTask, TypeOK, CurSet
  <2>8. OwnSocket' /\ PinnedSubmit'
    BY <1>19 DEF WorkerDequeueTask, subVars, OwnSocket, PinnedSubmit
  <2> QED
    BY <2>3, <2>5, <2>7, <2>8
<1>20. ASSUME NEW w \in Workers, WorkerRun(w) PROVE Pins'
  BY <1>20 DEF WorkerRun, subVars, TypeOK, OwnSocket, CurSet,
         PinnedSubmit, PinnedQueue, PinnedCur, Entries
<1>21. ASSUME NEW w \in Workers, WorkerDrain(w) PROVE Pins'
  <2>1. PICK i \in Heads(queue[w]) : queue' = [queue EXCEPT ![w] = RemoveAt(@, i)]
    BY <1>21 DEF WorkerDrain
  <2>3. PinnedQueue'
    <3>1. tid' = tid
      BY <1>21 DEF WorkerDrain, subVars
    <3> QED
      BY <2>1, <3>1, PinnedQueueDequeue
  <2>4. OwnSocket' /\ CurSet' /\ PinnedSubmit' /\ PinnedCur'
    BY <1>21 DEF WorkerDrain, subVars, workVars, TypeOK, OwnSocket, CurSet,
            PinnedSubmit, PinnedCur
  <2> QED
    BY <2>3, <2>4
<1>22. ASSUME NEW w \in Workers, WorkerDrainNull(w) PROVE Pins'
  BY <1>22 DEF WorkerDrainNull, subVars, TypeOK, OwnSocket, CurSet,
         PinnedSubmit, PinnedQueue, PinnedCur, Entries
<1>23. ASSUME NEW w \in Workers, WorkerComplete(w) PROVE Pins'
  BY <1>23 DEF WorkerComplete, subVars, TypeOK, OwnSocket, CurSet,
         PinnedSubmit, PinnedQueue, PinnedCur, Entries
<1> QED
  BY <1>1, <1>2, <1>3, <1>4, <1>5, <1>6, <1>7, <1>8, <1>9, <1>10, <1>11, <1>12, <1>13,
     <1>14, <1>15, <1>16, <1>17, <1>18, <1>19, <1>20, <1>21, <1>22, <1>23
     DEF Next, SubmitterNext, WorkerNext, InSubmit, InJoin, WorkerStep

-----------------------------------------------------------------------------
(* condVar stays in step with the queue *)

\* A step of submitter p that takes no part in a critical section.
LEMMA QuietStep ==
    ASSUME TypeOK, Waking, NEW p \in Submitters,
           pc[p] \notin {"notify", "stopNotify"}, pc'[p] \notin {"notify", "stopNotify"},
           \A q \in Submitters : q # p => pc'[q] = pc[q] /\ id'[q] = id[q],
           UNCHANGED <<queue, condVar, wpc>>,
           \A w \in Workers : runFlag'[w] => runFlag[w],
           pc'[p] = "stopEnqueue" => ~runFlag'[id'[p]]
    PROVE  Waking'
<1>1. \A q \in Submitters, w \in Workers : Holds(q, w)' <=> Holds(q, w)
  BY DEF Holds
<1>2. MutexExclusive' /\ \A w \in Workers : MutexFree(w)' <=> MutexFree(w)
  BY <1>1 DEF Waking, MutexExclusive, MutexFree
<1>3. \A q \in Submitters : pc'[q] = "stopEnqueue" => ~runFlag'[id'[q]]
  <2> SUFFICES ASSUME NEW q \in Submitters, pc'[q] = "stopEnqueue" PROVE ~runFlag'[id'[q]]
    OBVIOUS
  <2>1. id[q] \in Workers
    BY DEF TypeOK
  <2> QED
    BY <2>1 DEF Waking, NullAfterStop
<1>4. NullAfterStop'
  BY <1>3 DEF Waking, NullAfterStop, Entries
<1>5. \A w \in Workers : Serving(w)' => Serving(w)
  BY DEF Serving
<1>6. CondVarInStep'
  BY <1>2, <1>5 DEF Waking, CondVarInStep
<1> QED
  BY <1>2, <1>4, <1>6 DEF Waking

\* A step of p that enters the critical section of worker v with entry e.
LEMMA EnqueueStep ==
    ASSUME TypeOK, Waking, NEW p \in Submitters, NEW v \in Workers, NEW e \in Task \cup Stop,
           id[p] = v, MutexFree(v), pc[p] \notin {"notify", "stopNotify"},
           pc'[p] \in {"notify", "stopNotify"},
           \A q \in Submitters : q # p => pc'[q] = pc[q],
           queue' = [queue EXCEPT ![v] = Append(@, e)],
           UNCHANGED <<id, condVar, wpc, runFlag>>,
           e.sock = NULL => ~runFlag[v]
    PROVE  Waking'
<1>1. \A q \in Submitters, w \in Workers : Holds(q, w)' <=> (Holds(q, w) \/ (q = p /\ w = v))
  BY DEF Holds
<1>2. MutexExclusive'
  BY <1>1 DEF Waking, MutexExclusive, MutexFree
<1>3. \A w \in Workers : MutexFree(w)' <=> (MutexFree(w) /\ w # v)
  BY <1>1 DEF MutexFree
<1>4. /\ \A w \in Workers : \A k \in 1 .. Len(queue'[w]) :
           \/ k \in 1 .. Len(queue[w]) /\ queue'[w][k] = queue[w][k]
           \/ w = v /\ queue'[w][k] = e
      /\ Len(queue'[v]) = Len(queue[v]) + 1
      /\ \A w \in Workers : w # v => queue'[w] = queue[w]
  BY AfterEnqueue
<1>5. NullAfterStop'
  <2>1. \A q \in Submitters : pc'[q] = "stopEnqueue" => pc[q] = "stopEnqueue"
    OBVIOUS
  <2>2. \A w \in Workers : \A k \in 1 .. Len(queue'[w]) :
          queue'[w][k].sock = NULL => ~runFlag[w]
    BY <1>4 DEF Waking, NullAfterStop, Entries
  <2> QED
    BY <2>1, <2>2 DEF Waking, NullAfterStop, Entries
<1>6. \A w \in Workers : Serving(w)' <=> Serving(w)
  BY DEF Serving
<1>7. CondVarInStep'
  <2>1. condVar[v] \in Int /\ Len(queue[v]) \in Nat
    BY DEF TypeOK
  <2> QED
    BY <1>3, <1>4, <1>6, <2>1 DEF Waking, CondVarInStep
<1> QED
  BY <1>2, <1>5, <1>7 DEF Waking

\* A step of p that signals worker v and leaves its critical section.
LEMMA NotifyStep ==
    ASSUME TypeOK, Waking, NEW p \in Submitters, NEW v \in Workers,
           id[p] = v, pc[p] \in {"notify", "stopNotify"},
           pc'[p] \notin {"notify", "stopNotify", "stopEnqueue"},
           \A q \in Submitters : q # p => pc'[q] = pc[q] /\ id'[q] = id[q],
           condVar' = [condVar EXCEPT ![v] = @ + 1], Signal(v),
           UNCHANGED <<queue, runFlag>>
    PROVE  Waking'
<1>1. \A q \in Submitters, w \in Workers : Holds(q, w)' <=> (Holds(q, w) /\ q # p)
  BY DEF Holds
<1>2. Holds(p, v) /\ \A w \in Workers : w # v => ~Holds(p, w)
  BY DEF Holds
<1>3. MutexExclusive'
  BY <1>1 DEF Waking, MutexExclusive
<1>4. MutexFree(v)' /\ ~MutexFree(v)
  BY <1>1, <1>2 DEF Waking, MutexExclusive, MutexFree
<1>5. \A w \in Workers : w # v => (MutexFree(w)' <=> MutexFree(w))
  BY <1>1, <1>2 DEF MutexFree
<1>6. NullAfterStop'
  BY DEF Waking, NullAfterStop, Entries
<1>7. /\ wpc'[v] # "wait" /\ (wpc[v] = "wait" \/ wpc'[v] = wpc[v])
      /\ \A w \in Workers : w # v => wpc'[w] = wpc[w]
  BY DEF Signal, TypeOK
<1>8. Serving(v)' => Serving(v)
  BY <1>7 DEF Serving
<1>9. \A w \in Workers : w # v => (Serving(w)' <=> Serving(w))
  BY <1>7 DEF Serving
<1>10. condVar'[v] = condVar[v] + 1 /\ \A w \in Workers : w # v => condVar'[w] = condVar[w]
  BY DEF TypeOK
<1>11. CondVarInStep'
  BY <1>4, <1>5, <1>7, <1>8, <1>9, <1>10 DEF Waking, CondVarInStep
<1> QED
  BY <1>3, <1>6, <1>11 DEF Waking

\* A step of worker v that leaves its queue and condVar alone.
LEMMA WorkerMoves ==
    ASSUME TypeOK, Waking, NEW v \in Workers,
           UNCHANGED <<pc, id, queue, condVar, runFlag>>,
           \A w \in Workers : w # v => wpc'[w] = wpc[w],
           Serving(v)' => Serving(v),
           wpc'[v] = "wait" => condVar[v] <= 0
    PROVE  Waking'
<1>1. \A w \in Workers : MutexFree(w)' <=> MutexFree(w)
  BY DEF MutexFree, Holds
<1>2. MutexExclusive' /\ NullAfterStop'
  BY DEF Waking, MutexExclusive, NullAfterStop, Holds, Entries
<1>3. \A w \in Workers : Serving(w)' => Serving(w)
  BY DEF Serving
<1>4. CondVarInStep'
  BY <1>1, <1>3 DEF Waking, CondVarInStep
<1> QED
  BY <1>2, <1>4 DEF Waking

\* A step of worker v that takes entry i out of its queue.
LEMMA WorkerTakes ==
    ASSUME TypeOK, Waking, NEW v \in Workers, NEW i \in Heads(queue[v]),
           queue' = [queue EXCEPT ![v] = RemoveAt(@, i)],
           UNCHANGED <<pc, id, runFlag>>,
           \A w \in Workers : w # v => wpc'[w] = wpc[w] /\ condVar'[w] = condVar[w],
           Serving(v)' => Serving(v) /\ condVar'[v] = condVar[v] - 1,
           wpc'[v] # "wait"
    PROVE  Waking'
<1>1. \A w \in Workers : MutexFree(w)' <=> MutexFree(w)
  BY DEF MutexFree, Holds
<1>2. MutexExclusive'
  BY DEF Waking, MutexExclusive, Holds
<1>3. NullAfterStop'
  <2>1. \A q \in Submitters : pc'[q] = "stopEnqueue" => ~runFlag'[id'[q]]
    BY DEF Waking, NullAfterStop
  <2> SUFFICES ASSUME NEW w \in Workers, NEW k \in 1 .. Len(queue'[w]), queue'[w][k].sock = NULL
               PROVE  ~runFlag[w]
    BY <2>1 DEF NullAfterStop, Entries
  <2>2. PICK j \in 1 .. Len(queue[w]) : queue'[w][k] = queue[w][j]
    BY AfterDequeue
  <2> QED
    BY <2>2 DEF Waking, NullAfterStop, Entries
<1>4. /\ Len(queue'[v]) = Len(queue[v]) - 1
      /\ \A w \in Workers : w # v => queue'[w] = queue[w]
      /\ queue[v] \in Seq(Task \cup Stop)
  BY AfterDequeue
<1>5. \A w \in Workers : Serving(w)' => Serving(w)
  BY DEF Serving
<1>6. CondVarInStep'
  <2>1. condVar[v] \in Int
    BY DEF TypeOK
  <2>2. Len(queue[v]) \in Nat
    BY <1>4
  <2> QED
    BY <1>1, <1>4, <1>5, <2>1, <2>2 DEF Waking, CondVarInStep
<1> QED
  BY <1>2, <1>3, <1>6 DEF Waking

LEMMA WakingStep == TypeOK /\ OwnSocket /\ Waking /\ Next => Waking'
<1> SUFFICES ASSUME TypeOK, OwnSocket, Waking, Next PROVE Waking'
  OBVIOUS
<1> USE ConstantsAssumption
<1>1. ASSUME NEW p \in Submitters, NEW s \in Sockets, SubmitPinned(p, s) PROVE Waking'
  <2>1. /\ pc[p] = "idle" /\ pc'[p] = "check" /\ UNCHANGED <<queue, condVar, wpc, runFlag>>
        /\ \A q \in Submitters : q # p => pc'[q] = pc[q] /\ id'[q] = id[q]
    BY <1>1 DEF SubmitPinned, workVars, TypeOK
  <2> QED
    BY <2>1, QuietStep
<1>2. ASSUME NEW p \in Submitters, NEW s \in Sockets, SubmitFresh(p, s) PROVE Waking'
  <2>1. /\ pc[p] = "idle" /\ pc'[p] = "load" /\ UNCHANGED <<queue, condVar, wpc, runFlag>>
        /\ \A q \in Submitters : q # p => pc'[q] = pc[q] /\ id'[q] = id[q]
    BY <1>2 DEF SubmitFresh, workVars, TypeOK
  <2> QED
    BY <2>1, QuietStep
<1>3. ASSUME NEW p \in Submitters, LoadIndex(p) PROVE Waking'
  <2>1. /\ pc[p] = "load" /\ pc'[p] = "cas" /\ UNCHANGED <<id, queue, condVar, wpc, runFlag>>
        /\ \A q \in Submitters : q # p => pc'[q] = pc[q]
    BY <1>3 DEF LoadIndex, workVars, TypeOK
  <2> QED
    BY <2>1, QuietStep
<1>4. ASSUME NEW p \in Submitters, CasSucceeds(p) PROVE Waking'
  <2>1. /\ pc[p] = "cas" /\ pc'[p] = "check" /\ UNCHANGED <<id, queue, condVar, wpc, runFlag>>
        /\ \A q \in Submitters : q # p => pc'[q] = pc[q]
    BY <1>4 DEF CasSucceeds, workVars, TypeOK
  <2> QED
    BY <2>1, QuietStep
<1>5. ASSUME NEW p \in Submitters, CasFails(p) PROVE Waking'
  <2>1. pc[p] = "cas" /\ UNCHANGED <<pc, id, queue, condVar, wpc, runFlag>>
    BY <1>5 DEF CasFails, workVars
  <2> QED
    BY <2>1, QuietStep
<1>6. ASSUME NEW p \in Submitters, AddTaskCheck(p) PROVE Waking'
  <2>1. /\ pc[p] = "check" /\ pc'[p] \in {"enqueue", "idle"}
        /\ UNCHANGED <<id, queue, condVar, wpc, runFlag>>
        /\ \A q \in Submitters : q # p => pc'[q] = pc[q]
    BY <1>6 DEF AddTaskCheck, workVars, TypeOK
  <2> QED
    BY <2>1, QuietStep
<1>7. ASSUME NEW p \in Submitters, AddTaskEnqueue(p) PROVE Waking'
  <2>1. NewTask(p) \in Task /\ id[p] \in Workers /\ NewTask(p).sock # NULL
    BY <1>7 DEF AddTaskEnqueue, TypeOK, NewTask, Task, OwnSocket
  <2>2. /\ pc[p] = "enqueue" /\ pc'[p] = "notify" /\ MutexFree(id[p])
        /\ UNCHANGED <<id, condVar, wpc, runFlag>>
        /\ \A q \in Submitters : q # p => pc'[q] = pc[q]
        /\ queue' = [queue EXCEPT ![id[p]] = Append(@, NewTask(p))]
    BY <1>7 DEF AddTaskEnqueue, workVars, TypeOK
  <2> QED
    BY <2>1, <2>2, EnqueueStep
<1>8. ASSUME NEW p \in Submitters, AddTaskNotify(p) PROVE Waking'
  <2>1. /\ pc[p] = "notify" /\ pc'[p] = "idle" /\ id[p] \in Workers
        /\ UNCHANGED <<id, queue, runFlag>> /\ Signal(id[p])
        /\ \A q \in Submitters : q # p => pc'[q] = pc[q]
        /\ condVar' = [condVar EXCEPT ![id[p]] = @ + 1]
    BY <1>8 DEF AddTaskNotify, TypeOK
  <2> QED
    BY <2>1, NotifyStep
<1>9. ASSUME NEW p \in Submitters, JoinBegin(p) PROVE Waking'
  <2>1. /\ pc[p] = "idle" /\ pc'[p] = "stop" /\ UNCHANGED <<queue, condVar, wpc, runFlag>>
        /\ \A q \in Submitters : q # p => pc'[q] = pc[q] /\ id'[q] = id[q]
    BY <1>9 DEF JoinBegin, workVars, TypeOK
  <2> QED
    BY <2>1, QuietStep
<1>10. ASSUME NEW p \in Submitters, StopFlag(p) PROVE Waking'
  <2>1. /\ pc[p] = "stop" /\ pc'[p] = "stopEnqueue" /\ UNCHANGED <<id, queue, condVar, wpc>>
        /\ \A q \in Submitters : q # p => pc'[q] = pc[q]
    BY <1>10 DEF StopFlag, workVars, TypeOK
  <2>2. id'[p] = id[p] /\ ~runFlag'[id[p]] /\ \A w \in Workers : runFlag'[w] => runFlag[w]
    BY <1>10 DEF StopFlag, TypeOK
  <2> QED
    BY <2>1, <2>2, QuietStep
<1>11. ASSUME NEW p \in Submitters, StopEnqueue(p) PROVE Waking'
  <2> DEFINE e == [src |-> p, sock |-> NULL, num |-> 0]
  <2>1. e \in Stop /\ id[p] \in Workers
    BY DEF TypeOK, Stop
  <2>2. /\ pc[p] = "stopEnqueue" /\ pc'[p] = "stopNotify" /\ MutexFree(id[p])
        /\ UNCHANGED <<id, condVar, wpc, runFlag>>
        /\ \A q \in Submitters : q # p => pc'[q] = pc[q]
        /\ queue' = [queue EXCEPT ![id[p]] = Append(@, e)]
    BY <1>11 DEF StopEnqueue, workVars, TypeOK
  <2>3. ~runFlag[id[p]]
    BY <2>2 DEF Waking, NullAfterStop
  <2> HIDE DEF e
  <2> QED
    BY <2>1, <2>2, <2>3, EnqueueStep
<1>12. ASSUME NEW p \in Submitters, StopNotify(p) PROVE Waking'
  <2>1. /\ pc[p] = "stopNotify" /\ id[p] \in Workers
        /\ UNCHANGED <<queue, runFlag>> /\ Signal(id[p])
        /\ condVar' = [condVar EXCEPT ![id[p]] = @ + 1]
    BY <1>12 DEF StopNotify, TypeOK
  <2>2. /\ pc'[p] \in {"stop", "joinCheck"}
        /\ \A q \in Submitters : q # p => pc'[q] = pc[q] /\ id'[q] = id[q]
    BY <1>12 DEF StopNotify, TypeOK
  <2> QED
    BY <2>1, <2>2, NotifyStep
<1>13. ASSUME NEW p \in Submitters, JoinCheck(p) PROVE Waking'
  <2>1. pc[p] = "joinCheck" /\ UNCHANGED <<queue, condVar, wpc, runFlag>>
    BY <1>13 DEF JoinCheck, workVars
  <2>2. /\ pc'[p] \in {"stop", "joined"}
        /\ \A q \in Submitters : q # p => pc'[q] = pc[q] /\ id'[q] = id[q]
    BY <1>13 DEF JoinCheck, TypeOK
  <2> QED
    BY <2>1, <2>2, QuietStep
<1>14. ASSUME NEW w \in Workers, WorkerLoop(w) PROVE Waking'
  <2>1. UNCHANGED <<pc, id, queue, condVar, runFlag>>
    BY <1>14 DEF WorkerLoop, subVars
  <2>2. /\ wpc[w] = "top" /\ wpc'[w] = IF runFlag[w] THEN "lock" ELSE "drain"
        /\ \A v \in Workers : v # w => wpc'[v] = wpc[v]
    BY <1>14 DEF WorkerLoop, TypeOK
  <2>3. Serving(w)' => Serving(w)
    BY <2>1, <2>2 DEF Serving
  <2> QED
    BY <2>1, <2>2, <2>3, WorkerMoves
<1>15. ASSUME NEW w \in Workers, WorkerAwait(w) PROVE Waking'
  <2>1. UNCHANGED <<pc, id, queue, condVar, runFlag>>
    BY <1>15 DEF WorkerAwait, subVars
  <2>2. /\ wpc[w] = "lock" /\ wpc'[w] = IF condVar[w] <= 0 THEN "wait" ELSE "dequeue"
        /\ \A v \in Workers : v # w => wpc'[v] = wpc[v]
    BY <1>15 DEF WorkerAwait, TypeOK
  <2>3. Serving(w)
    BY <2>2 DEF Serving
  <2> QED
    BY <2>1, <2>2, <2>3, WorkerMoves
<1>16. ASSUME NEW w \in Workers, SpuriousWakeup(w) PROVE Waking'
  <2>1. UNCHANGED <<pc, id, queue, condVar, runFlag>>
    BY <1>16 DEF SpuriousWakeup, subVars
  <2>2. /\ wpc[w] = "wait" /\ wpc'[w] = "lock"
        /\ \A v \in Workers : v # w => wpc'[v] = wpc[v]
    BY <1>16 DEF SpuriousWakeup, TypeOK
  <2>3. Serving(w)
    BY <2>2 DEF Serving
  <2> QED
    BY <2>1, <2>2, <2>3, WorkerMoves
<1>17. ASSUME NEW w \in Workers, WorkerDequeueEmpty(w) PROVE Waking'
  <2>1. UNCHANGED <<pc, id, queue, condVar, runFlag>>
    BY <1>17 DEF WorkerDequeueEmpty, subVars
  <2>2. /\ wpc[w] = "dequeue" /\ wpc'[w] = "top"
        /\ \A v \in Workers : v # w => wpc'[v] = wpc[v]
    BY <1>17 DEF WorkerDequeueEmpty, TypeOK
  <2>3. Serving(w)
    BY <2>2 DEF Serving
  <2> QED
    BY <2>1, <2>2, <2>3, WorkerMoves
<1>18. ASSUME NEW w \in Workers, WorkerDequeueNull(w) PROVE Waking'
  <2>1. PICK i \in Heads(queue[w]) :
          queue[w][i].sock = NULL /\ queue' = [queue EXCEPT ![w] = RemoveAt(@, i)]
    BY <1>18 DEF WorkerDequeueNull
  <2>2. UNCHANGED <<pc, id, condVar, runFlag>>
    BY <1>18 DEF WorkerDequeueNull, subVars
  <2>3. wpc'[w] = "top" /\ \A v \in Workers : v # w => wpc'[v] = wpc[v]
    BY <1>18 DEF WorkerDequeueNull, TypeOK
  <2>4. ~runFlag[w]
    BY <2>1, HeadsAreEntries DEF Waking, NullAfterStop, Entries
  <2>5. ~Serving(w)'
    BY <2>2, <2>3, <2>4 DEF Serving
  <2> QED
    BY <2>1, <2>2, <2>3, <2>5, WorkerTakes
<1>19. ASSUME NEW w \in Workers, WorkerDequeueTask(w) PROVE Waking'
  <2>1. PICK i \in Heads(queue[w]) : queue' = [queue EXCEPT ![w] = RemoveAt(@, i)]
    BY <1>19 DEF WorkerDequeueTask
  <2>2. UNCHANGED <<pc, id, runFlag>>
    BY <1>19 DEF WorkerDequeueTask, subVars
  <2>3. /\ wpc[w] = "dequeue" /\ wpc'[w] = "run" /\ condVar'[w] = condVar[w] - 1
        /\ \A v \in Workers : v # w => wpc'[v] = wpc[v] /\ condVar'[v] = condVar[v]
    BY <1>19 DEF WorkerDequeueTask, TypeOK
  <2>4. Serving(w)
    BY <2>3 DEF Serving
  <2> QED
    BY <2>1, <2>2, <2>3, <2>4, WorkerTakes
<1>20. ASSUME NEW w \in Workers, WorkerRun(w) PROVE Waking'
  <2>1. UNCHANGED <<pc, id, queue, condVar, runFlag>>
    BY <1>20 DEF WorkerRun, subVars
  <2>2. /\ wpc[w] = "run" /\ wpc'[w] = "dequeue"
        /\ \A v \in Workers : v # w => wpc'[v] = wpc[v]
    BY <1>20 DEF WorkerRun, TypeOK
  <2>3. Serving(w)
    BY <2>2 DEF Serving
  <2> QED
    BY <2>1, <2>2, <2>3, WorkerMoves
<1>21. ASSUME NEW w \in Workers, WorkerDrain(w) PROVE Waking'
  <2>1. PICK i \in Heads(queue[w]) : queue' = [queue EXCEPT ![w] = RemoveAt(@, i)]
    BY <1>21 DEF WorkerDrain
  <2>2. UNCHANGED <<pc, id, condVar, runFlag, wpc>> /\ wpc[w] = "drain"
    BY <1>21 DEF WorkerDrain, subVars, workVars
  <2>3. ~Serving(w)'
    BY <2>2 DEF Serving
  <2> QED
    BY <2>1, <2>2, <2>3, WorkerTakes
<1>22. ASSUME NEW w \in Workers, WorkerDrainNull(w) PROVE Waking'
  <2>1. UNCHANGED <<pc, id, queue, condVar, runFlag, wpc>> /\ wpc[w] = "drain"
    BY <1>22 DEF WorkerDrainNull, subVars
  <2>2. ~Serving(w)'
    BY <2>1 DEF Serving
  <2> QED
    BY <2>1, <2>2, WorkerMoves
<1>23. ASSUME NEW w \in Workers, WorkerComplete(w) PROVE Waking'
  <2>1. UNCHANGED <<pc, id, queue, condVar, runFlag>>
    BY <1>23 DEF WorkerComplete, subVars
  <2>2. wpc'[w] = "done" /\ \A v \in Workers : v # w => wpc'[v] = wpc[v]
    BY <1>23 DEF WorkerComplete, TypeOK
  <2>3. ~Serving(w)'
    BY <2>2 DEF Serving
  <2> QED
    BY <2>1, <2>2, <2>3, WorkerMoves
<1> QED
  BY <1>1, <1>2, <1>3, <1>4, <1>5, <1>6, <1>7, <1>8, <1>9, <1>10, <1>11, <1>12, <1>13,
     <1>14, <1>15, <1>16, <1>17, <1>18, <1>19, <1>20, <1>21, <1>22, <1>23
     DEF Next, SubmitterNext, WorkerNext, InSubmit, InJoin, WorkerStep

-----------------------------------------------------------------------------
(* The theorems *)

LEMMA InitIInv == Init => IInv
<1> SUFFICES ASSUME Init PROVE IInv
  OBVIOUS
<1>1. TypeOK
  BY TypeInit
<1>2. OwnSocket /\ CurSet
  BY DEF Init, OwnSocket, CurSet
<1>3. Pinned
  BY DEF Init, Pinned, PinnedSubmit, PinnedQueue, PinnedCur, Entries
<1>4. MutexExclusive /\ \A w \in Workers : MutexFree(w)
  BY DEF Init, MutexExclusive, MutexFree, Holds
<1>5. NullAfterStop
  BY DEF Init, NullAfterStop, Entries
<1>6. CondVarInStep
  BY <1>4 DEF Init, CondVarInStep
<1> QED
  BY <1>1, <1>2, <1>3, <1>4, <1>5, <1>6 DEF IInv, Pins, Waking

LEMMA NextIInv == IInv /\ [Next]_vars => IInv'
<1>1. IInv /\ Next => IInv'
  BY TypeStep, PinStep, WakingStep DEF IInv, Pins
<1>2. IInv /\ UNCHANGED vars => IInv'
  <2> SUFFICES ASSUME IInv, UNCHANGED vars PROVE IInv'
    OBVIOUS
  <2> USE DEF vars, subVars, workVars, IInv, Pins
  <2>1. TypeOK'
    BY DEF TypeOK
  <2>2. OwnSocket' /\ CurSet'
    BY DEF OwnSocket, CurSet
  <2>3. Pinned'
    BY DEF Pinned, PinnedSubmit, PinnedQueue, PinnedCur, Entries
  <2>4. Waking'
    BY DEF Waking, MutexExclusive, NullAfterStop, CondVarInStep, Serving, MutexFree, Holds, Entries
  <2> QED
    BY <2>1, <2>2, <2>3, <2>4
<1> QED
  BY <1>1, <1>2

LEMMA Invariance == Spec => []IInv
  BY InitIInv, NextIInv, PTL DEF Spec

\* Every variable of the pool keeps its type: tid and id name workers that exist,
\* so tpool.at(id) in submit never throws, and a worker runs only real tasks.
THEOREM TypeCorrect == Spec => []TypeOK
  BY Invariance, PTL DEF IInv

\* Two workers never run tasks of one socket at once: submit's pinning keeps the
\* unlocked buffers of a SocketInterface to one thread.
THEOREM SocketSerialHolds == Spec => []SocketSerial
<1>1. IInv => SocketSerial
  <2> SUFFICES ASSUME IInv, NEW v \in Workers, NEW w \in Workers,
                      v # w, cur[v] # NULL, cur[w] # NULL
               PROVE  cur[v].sock # cur[w].sock
    BY DEF SocketSerial
  <2>1. tid[cur[v].sock] = v /\ tid[cur[w].sock] = w
    BY DEF IInv, Pins, Pinned, PinnedCur
  <2> QED
    BY <2>1
<1> QED
  BY <1>1, Invariance, PTL

\* No worker sleeps on its condition variable while a task or a stop waits in its
\* queue and no submitter is about to signal it.
THEOREM NoLostWakeupHolds == Spec => []NoLostWakeup
<1>1. IInv => NoLostWakeup
  <2> SUFFICES ASSUME IInv, NEW w \in Workers, wpc[w] = "wait", MutexFree(w)
               PROVE  queue[w] = <<>>
    BY DEF NoLostWakeup
  <2>1. condVar[w] = Len(queue[w]) /\ condVar[w] <= 0
    BY DEF IInv, Waking, CondVarInStep, Serving
  <2>2. queue[w] \in Seq(Task \cup Stop)
    BY DEF IInv, TypeOK
  <2> QED
    BY <2>1, <2>2
<1> QED
  BY <1>1, Invariance, PTL

-----------------------------------------------------------------------------
(* Order *)

(***************************************************************************)
(* Line(q, s, t, u, full): the tasks of s in q have numbers above t and up *)
(* to u, in increasing order and with no gap after t; when full, none is   *)
(* missing up to u either.                                                 *)
(***************************************************************************)
Has(q, s, n) == \E j \in 1 .. Len(q) : q[j].sock = s /\ q[j].num = n
Line(q, s, t, u, full) ==
    /\ t <= u
    /\ \A i \in 1 .. Len(q) : q[i].sock = s => t < q[i].num /\ q[i].num <= u
    /\ \A i, j \in 1 .. Len(q) :
         q[i].sock = s /\ q[j].sock = s /\ i < j => q[i].num < q[j].num
    /\ \A i \in 1 .. Len(q), n \in Nat :
         q[i].sock = s /\ t < n /\ n < q[i].num => Has(q, s, n)
    /\ full => \A n \in Nat : t < n /\ n <= u => Has(q, s, n)

\* Entry i of q is of socket s and none of s is before it.
FirstOf(q, s, i) ==
    /\ i \in 1 .. Len(q) /\ q[i].sock = s
    /\ \A j \in 1 .. Len(q) : q[j].sock = s => i <= j

LEMMA NumIsNat == \A e \in Task \cup Stop : e.num \in Nat
  BY DEF Task, Stop

\* Less is asked for when u grows or full is dropped.
LEMMA LineWeaker ==
    ASSUME NEW q \in Seq(Task \cup Stop), NEW s, NEW t \in Nat, NEW u \in Nat, NEW full,
           NEW v \in Nat, u <= v, NEW full2, full2 => full /\ u = v,
           Line(q, s, t, u, full)
    PROVE  Line(q, s, t, v, full2)
  BY NumIsNat DEF Line

\* An entry that is not of s changes nothing for s.
LEMMA LineAppendOther ==
    ASSUME NEW q \in Seq(Task \cup Stop), NEW s, NEW t \in Nat, NEW u \in Nat, NEW full,
           NEW e \in Task \cup Stop, e.sock # s, Line(q, s, t, u, full)
    PROVE  Line(Append(q, e), s, t, u, full)
<1> DEFINE r == Append(q, e)
<1>1. /\ Len(q) \in Nat /\ Len(r) = Len(q) + 1 /\ r[Len(q) + 1] = e
      /\ \A i \in 1 .. Len(q) : r[i] = q[i]
  OBVIOUS
<1> HIDE DEF r
<1>2. \A i \in 1 .. Len(r) : r[i].sock = s => i \in 1 .. Len(q) /\ r[i] = q[i]
  BY <1>1
<1>3. \A n : Has(q, s, n) => Has(r, s, n)
  BY <1>1 DEF Has
<1>4. Line(r, s, t, u, full)
  BY <1>2, <1>3 DEF Line
<1> QED BY <1>4 DEF r

\* The next task of s goes to the end.
LEMMA LineAppendNext ==
    ASSUME NEW q \in Seq(Task \cup Stop), NEW s, NEW t \in Nat, NEW u \in Nat,
           NEW e \in Task \cup Stop, e.sock = s, e.num = u + 1, Line(q, s, t, u, TRUE)
    PROVE  Line(Append(q, e), s, t, u + 1, TRUE)
<1> DEFINE r == Append(q, e)
<1>1. /\ Len(q) \in Nat /\ Len(r) = Len(q) + 1 /\ r[Len(q) + 1] = e
      /\ \A i \in 1 .. Len(q) : r[i] = q[i] /\ q[i].num \in Nat
  BY NumIsNat
<1> HIDE DEF r
<1>2. \A i \in 1 .. Len(r) : (i \in 1 .. Len(q) /\ r[i] = q[i]) \/ (i = Len(q) + 1 /\ r[i] = e)
  BY <1>1
<1>3. \A n \in Nat : t < n /\ n <= u + 1 => Has(r, s, n)
  <2> SUFFICES ASSUME NEW n \in Nat, t < n, n <= u + 1 PROVE Has(r, s, n)
    OBVIOUS
  <2>1. CASE n = u + 1
    BY <1>1, <2>1 DEF Has
  <2>2. CASE n # u + 1
    <3>1. Has(q, s, n)
      BY <2>2 DEF Line
    <3> QED BY <1>1, <3>1 DEF Has
  <2> QED BY <2>1, <2>2
<1>4. \A i \in 1 .. Len(r) : r[i].sock = s => t < r[i].num /\ r[i].num <= u + 1
  BY <1>1, <1>2 DEF Line
<1>5. \A i, j \in 1 .. Len(r) : r[i].sock = s /\ r[j].sock = s /\ i < j => r[i].num < r[j].num
  BY <1>1, <1>2 DEF Line
<1>6. \A i \in 1 .. Len(r), n \in Nat : r[i].sock = s /\ t < n /\ n < r[i].num => Has(r, s, n)
  <2> SUFFICES ASSUME NEW i \in 1 .. Len(r), NEW n \in Nat, r[i].sock = s, t < n, n < r[i].num
               PROVE  Has(r, s, n)
    OBVIOUS
  <2>1. r[i].num \in Nat /\ r[i].num <= u + 1
    BY <1>1, <1>2, <1>4
  <2>2. n <= u + 1
    BY <2>1
  <2> QED BY <1>3, <2>2
<1>7. t <= u + 1
  BY DEF Line
<1>8. Line(r, s, t, u + 1, TRUE)
  BY <1>3, <1>4, <1>5, <1>6, <1>7 DEF Line
<1> QED BY <1>8 DEF r

\* Taking an entry that is not of s changes nothing for s.
LEMMA LineRemoveOther ==
    ASSUME NEW q \in Seq(Task \cup Stop), NEW s, NEW t \in Nat, NEW u \in Nat, NEW full,
           NEW i \in 1 .. Len(q), q[i].sock # s, Line(q, s, t, u, full)
    PROVE  Line(RemoveAt(q, i), s, t, u, full)
<1> DEFINE r == RemoveAt(q, i)
<1>1. /\ Len(q) \in Nat /\ Len(r) = Len(q) - 1
      /\ \A j \in 1 .. Len(q) - 1 : r[j] = IF j < i THEN q[j] ELSE q[j + 1]
  BY RemoveAtFacts
<1> HIDE DEF r
<1> DEFINE pos(j) == IF j < i THEN j ELSE j + 1
<1>2. /\ \A j \in 1 .. Len(r) : pos(j) \in 1 .. Len(q) /\ r[j] = q[pos(j)]
      /\ \A j, k \in 1 .. Len(r) : j < k => pos(j) < pos(k)
  BY <1>1
<1>3. \A n : Has(q, s, n) => Has(r, s, n)
  <2> SUFFICES ASSUME NEW n, NEW j \in 1 .. Len(q), q[j].sock = s, q[j].num = n PROVE Has(r, s, n)
    BY DEF Has
  <2>1. j # i
    OBVIOUS
  <2>2. CASE j < i
    <3>1. j \in 1 .. Len(r) /\ r[j] = q[j]
      BY <1>1, <2>2
    <3> QED BY <3>1 DEF Has
  <2>3. CASE j > i
    <3>1. j - 1 \in 1 .. Len(r) /\ r[j - 1] = q[j]
      BY <1>1, <2>3
    <3> QED BY <3>1 DEF Has
  <2> QED BY <2>1, <2>2, <2>3
<1> HIDE DEF pos
<1>4. Line(r, s, t, u, full)
  BY <1>2, <1>3 DEF Line
<1> QED BY <1>4 DEF r

\* The first task of s in the queue is the one after t; taking it leaves the rest.
LEMMA LineRemoveNext ==
    ASSUME NEW q \in Seq(Task \cup Stop), NEW s, NEW t \in Nat, NEW u \in Nat, NEW full,
           NEW i, FirstOf(q, s, i), Line(q, s, t, u, full)
    PROVE  q[i].num = t + 1 /\ Line(RemoveAt(q, i), s, t + 1, u, full)
<1> USE DEF FirstOf
<1>0. Len(q) \in Nat /\ \A j \in 1 .. Len(q) : q[j].num \in Nat
  BY NumIsNat
<1>1. q[i].num = t + 1
  <2> SUFFICES ASSUME q[i].num # t + 1 PROVE FALSE
    OBVIOUS
  <2>1. t < t + 1 /\ t + 1 < q[i].num /\ t + 1 \in Nat
    BY <1>0 DEF Line
  <2>2. Has(q, s, t + 1)
    BY <2>1 DEF Line
  <2>3. PICK j \in 1 .. Len(q) : q[j].sock = s /\ q[j].num = t + 1
    BY <2>2 DEF Has
  <2>4. i < j
    BY <2>1, <2>3
  <2>5. q[i].num < q[j].num
    BY <2>3, <2>4 DEF Line
  <2> QED BY <1>0, <2>1, <2>3, <2>5
<1> DEFINE r == RemoveAt(q, i)
<1>2. /\ Len(r) = Len(q) - 1
      /\ \A j \in 1 .. Len(q) - 1 : r[j] = IF j < i THEN q[j] ELSE q[j + 1]
  BY RemoveAtFacts
<1> HIDE DEF r
<1> DEFINE pos(j) == IF j < i THEN j ELSE j + 1
<1>3. /\ \A j \in 1 .. Len(r) : pos(j) \in 1 .. Len(q) /\ r[j] = q[pos(j)] /\ pos(j) # i
      /\ \A j, k \in 1 .. Len(r) : j < k => pos(j) < pos(k)
  BY <1>0, <1>2
<1>4. \A n : n # t + 1 /\ Has(q, s, n) => Has(r, s, n)
  <2> SUFFICES ASSUME NEW n, n # t + 1, NEW j \in 1 .. Len(q), q[j].sock = s, q[j].num = n
               PROVE  Has(r, s, n)
    BY DEF Has
  <2>1. i < j
    BY <1>1
  <2>2. j - 1 \in 1 .. Len(r) /\ r[j - 1] = q[j]
    BY <1>0, <1>2, <2>1
  <2> QED BY <2>2 DEF Has
<1>5. \A j \in 1 .. Len(r) : r[j].sock = s => t + 1 < r[j].num /\ r[j].num <= u
  <2> SUFFICES ASSUME NEW j \in 1 .. Len(r), r[j].sock = s PROVE t + 1 < r[j].num /\ r[j].num <= u
    OBVIOUS
  <2>1. pos(j) \in 1 .. Len(q) /\ r[j] = q[pos(j)] /\ i < pos(j)
    BY <1>3
  <2> HIDE DEF pos
  <2> QED BY <1>1, <2>1 DEF Line
<1>6. t + 1 <= u
  BY <1>1 DEF Line
<1> HIDE DEF pos
<1>7. \A j, k \in 1 .. Len(r) : r[j].sock = s /\ r[k].sock = s /\ j < k => r[j].num < r[k].num
  BY <1>3 DEF Line
<1>8. \A j \in 1 .. Len(r), n \in Nat : r[j].sock = s /\ t + 1 < n /\ n < r[j].num => Has(r, s, n)
  <2> SUFFICES ASSUME NEW j \in 1 .. Len(r), NEW n \in Nat,
                      r[j].sock = s, t + 1 < n, n < r[j].num
               PROVE  Has(r, s, n)
    OBVIOUS
  <2>1. pos(j) \in 1 .. Len(q) /\ r[j] = q[pos(j)]
    BY <1>3
  <2>2. t < n /\ n # t + 1
    OBVIOUS
  <2>3. Has(q, s, n)
    BY <2>1, <2>2 DEF Line
  <2> QED BY <1>4, <2>2, <2>3
<1>9. full => \A n \in Nat : t + 1 < n /\ n <= u => Has(r, s, n)
  BY <1>4 DEF Line
<1>10. Line(r, s, t + 1, u, full)
  BY <1>5, <1>6, <1>7, <1>8, <1>9 DEF Line
<1> QED BY <1>1, <1>10 DEF r

Alive(w) == wpc[w] \notin {"drain", "done"}

\* A socket's task is in the hands of its event loop, on the way to a queue.
Hand      == {"load", "cas", "check", "enqueue"}
InHand(s) == pc[Owner[s]] \in Hand /\ sock[Owner[s]] = s

\* The last task of s that has left the queue; the last that was put there or dropped
Taken(s, w) == IF cur[w] # NULL /\ cur[w].sock = s THEN lastRun[s] + 1 ELSE lastRun[s]
Placed(s)   == IF InHand(s) THEN submitted[s] - 1 ELSE submitted[s]

\* No task has been dropped by addTask.
NoneDropped(s, w) == runFlag[w] \/ (pc[Owner[s]] = "enqueue" /\ sock[Owner[s]] = s)

\* A worker that still serves has the tasks of its sockets in line.
SocketLine(s) ==
    /\ tid[s] = -1 => lastRun[s] = 0 /\ Placed(s) = 0
    /\ tid[s] # -1 /\ Alive(tid[s]) =>
         Line(queue[tid[s]], s, Taken(s, tid[s]), Placed(s), NoneDropped(s, tid[s]))
InLine == \A s \in Sockets : SocketLine(s)

\* Every entry of a socket comes from its event loop.
FromOwner ==
    \A w \in Workers : \A i \in Entries(w) :
        queue[w][i].sock # NULL => queue[w][i].src = Owner[queue[w][i].sock]

\* The running task is the next one of its socket.
RunsNext == \A w \in Workers : cur[w] # NULL => cur[w].num = lastRun[cur[w].sock] + 1

Order == FromOwner /\ RunsNext /\ InLine
OInv  == IInv /\ Order

LEMMA LineTypes ==
    ASSUME IInv, NEW s \in Sockets
    PROVE  /\ Placed(s) \in Nat /\ Owner[s] \in Submitters
           /\ tid[s] # -1 => /\ tid[s] \in Workers /\ Taken(s, tid[s]) \in Nat
                             /\ queue[tid[s]] \in Seq(Task \cup Stop)
<1>1. Owner[s] \in Submitters /\ submitted[s] \in Nat /\ lastRun[s] \in Nat
      /\ tid[s] \in {-1} \cup Workers
  BY ConstantsAssumption DEF IInv, TypeOK
<1>2. InHand(s) => submitted[s] > 0
  BY <1>1 DEF InHand, Hand, IInv, Pins, OwnSocket
<1>3. Placed(s) \in Nat
  BY <1>1, <1>2 DEF Placed
<1>4. tid[s] # -1 => Taken(s, tid[s]) \in Nat
  BY <1>1 DEF Taken
<1>5. tid[s] # -1 => queue[tid[s]] \in Seq(Task \cup Stop)
  BY <1>1 DEF IInv, TypeOK
<1> QED BY <1>1, <1>3, <1>4, <1>5

\* A step that leaves the queue of a socket's worker, and what has been taken from
\* it, alone: a task may be dropped, which ends NoneDropped.
LEMMA SocketKept ==
    ASSUME OInv, NEW s \in Sockets, tid'[s] = tid[s],
           tid[s] # -1 => /\ queue'[tid[s]] = queue[tid[s]]
                          /\ Taken(s, tid[s])' = Taken(s, tid[s])
                          /\ Alive(tid[s])' => Alive(tid[s])
                          /\ NoneDropped(s, tid[s])' => NoneDropped(s, tid[s]) /\ Placed(s)' = Placed(s)
                          /\ Placed(s)' \in {Placed(s), Placed(s) + 1},
           tid[s] = -1 => Placed(s)' = Placed(s) /\ lastRun'[s] = lastRun[s]
    PROVE  SocketLine(s)'
<1>1. SocketLine(s)
  BY DEF OInv, Order, InLine
<1>2. CASE tid[s] = -1
  BY <1>1, <1>2 DEF SocketLine
<1>3. CASE tid[s] # -1
  <2> DEFINE q == queue[tid[s]]
             t == Taken(s, tid[s])
             u == Placed(s)
             v == Placed(s)'
             f == NoneDropped(s, tid[s])
             g == NoneDropped(s, tid[s])'
  <2>1. q \in Seq(Task \cup Stop) /\ t \in Nat /\ u \in Nat /\ v \in Nat
    BY <1>3, LineTypes DEF OInv
  <2>2. Alive(tid[s])' => Line(q, s, t, u, f)
    BY <1>1, <1>3 DEF SocketLine
  <2>3. u <= v /\ (g => f /\ u = v)
    BY <1>3, <2>1
  <2> HIDE DEF q, t, u, v, f, g
  <2>4. Alive(tid[s])' => Line(q, s, t, v, g)
    BY <2>1, <2>2, <2>3, LineWeaker
  <2> USE DEF q, t, v, g
  <2>5. Alive(tid[s])' => Line(queue[tid[s]], s, Taken(s, tid[s]), Placed(s), NoneDropped(s, tid[s]))'
    BY <1>3, <2>4
  <2> QED BY <1>3, <2>5 DEF SocketLine
<1> QED BY <1>2, <1>3

\* Threads that are not on the way to a queue change nothing in Placed.
LEMMA HandKept ==
    ASSUME IInv, submitted' = submitted,
           \A p \in Submitters : pc[p] \in Hand \/ pc'[p] \in Hand =>
               /\ pc'[p] = pc[p] \/ {pc[p], pc'[p]} \subseteq {"load", "cas", "check"}
               /\ sock'[p] = sock[p]
    PROVE  \A s \in Sockets : /\ Placed(s)' = Placed(s)
                              /\ \A w : NoneDropped(s, w)' /\ (runFlag'[w] => runFlag[w])
                                        => NoneDropped(s, w)
<1> SUFFICES ASSUME NEW s \in Sockets
             PROVE  /\ Placed(s)' = Placed(s)
                    /\ \A w : NoneDropped(s, w)' /\ (runFlag'[w] => runFlag[w]) => NoneDropped(s, w)
  OBVIOUS
<1>1. Owner[s] \in Submitters
  BY LineTypes
<1>2. InHand(s)' <=> InHand(s)
  BY <1>1 DEF InHand, Hand
<1>3. pc'[Owner[s]] = "enqueue" => pc[Owner[s]] = "enqueue" /\ sock'[Owner[s]] = sock[Owner[s]]
  BY <1>1 DEF Hand
<1> QED BY <1>2, <1>3 DEF Placed, NoneDropped

\* Steps of submitters that put nothing into a queue
LEMMA SubmitOrder ==
    ASSUME OInv, NEW p \in Submitters,
           \/ \E s \in Sockets : SubmitPinned(p, s) \/ SubmitFresh(p, s)
           \/ LoadIndex(p) \/ CasFails(p) \/ AddTaskCheck(p) \/ AddTaskNotify(p)
           \/ JoinBegin(p) \/ StopFlag(p) \/ StopNotify(p) \/ JoinCheck(p)
    PROVE  Order'
<1>t. TypeOK /\ IInv
  BY DEF OInv, IInv
<1>1. UNCHANGED <<queue, cur, lastRun, tid>>
  BY DEF SubmitPinned, SubmitFresh, LoadIndex, CasFails, AddTaskCheck, AddTaskNotify,
         JoinBegin, StopFlag, StopNotify, JoinCheck, workVars
<1>2. FromOwner' /\ RunsNext'
  BY <1>1 DEF OInv, Order, FromOwner, RunsNext, Entries
<1>3. \A w \in Workers : (Alive(w)' => Alive(w)) /\ (runFlag'[w] => runFlag[w])
  <2>1. CASE UNCHANGED wpc
    <3>1. runFlag' = runFlag \/ runFlag' = [runFlag EXCEPT ![id[p]] = FALSE]
      BY DEF SubmitPinned, SubmitFresh, LoadIndex, CasFails, AddTaskCheck, AddTaskNotify,
             JoinBegin, StopFlag, StopNotify, JoinCheck
    <3> QED BY <1>t, <2>1, <3>1 DEF Alive, TypeOK
  <2>2. CASE Signal(id[p]) /\ runFlag' = runFlag
    BY <1>t, <2>2 DEF Signal, Alive, TypeOK
  <2> QED BY <2>1, <2>2 DEF SubmitPinned, SubmitFresh, LoadIndex, CasFails, AddTaskCheck,
          AddTaskNotify, JoinBegin, StopFlag, StopNotify, JoinCheck, workVars
<1>4. \A s \in Sockets : tid[s] # -1 => tid[s] \in Workers /\ Taken(s, tid[s])' = Taken(s, tid[s])
  BY <1>t, <1>1 DEF Taken, TypeOK
<1>5. CASE \E s \in Sockets : SubmitPinned(p, s) \/ SubmitFresh(p, s)
  <2>1. PICK s0 \in Sockets : /\ pc[p] = "idle" /\ Owner[s0] = p
                             /\ submitted' = [submitted EXCEPT ![s0] = @ + 1]
                             /\ sock' = [sock EXCEPT ![p] = s0]
                             /\ \E l \in {"check", "load"} : pc' = [pc EXCEPT ![p] = l]
                             /\ runFlag' = runFlag
    BY <1>5 DEF SubmitPinned, SubmitFresh
  <2>2. /\ pc'[p] \in {"check", "load"} /\ sock'[p] = s0
        /\ \A r \in Submitters : r # p => pc'[r] = pc[r] /\ sock'[r] = sock[r]
        /\ submitted'[s0] = submitted[s0] + 1 /\ submitted[s0] \in Nat
        /\ \A s \in Sockets : s # s0 => submitted'[s] = submitted[s]
    BY <1>t, <2>1 DEF TypeOK
  <2>3. ASSUME NEW s \in Sockets PROVE Placed(s)' = Placed(s) /\ \A w : NoneDropped(s, w)' => NoneDropped(s, w)
    <3>1. Owner[s] \in Submitters
      BY <1>t, LineTypes
    <3>2. CASE s = s0
      BY <2>1, <2>2, <3>2 DEF Placed, InHand, Hand, NoneDropped
    <3>3. CASE s # s0 /\ Owner[s] = p
      BY <2>1, <2>2, <3>3 DEF Placed, InHand, Hand, NoneDropped
    <3>4. CASE Owner[s] # p
      BY <2>1, <2>2, <3>1, <3>4 DEF Placed, InHand, NoneDropped
    <3> QED BY <3>2, <3>3, <3>4
  <2>4. \A s \in Sockets : SocketLine(s)'
    BY <1>1, <1>3, <1>4, <2>3, SocketKept
  <2> QED BY <1>2, <2>4 DEF Order, InLine
<1>6. CASE AddTaskCheck(p)
  <2>1. /\ pc[p] = "check" /\ UNCHANGED <<submitted, sock, runFlag>>
        /\ pc' = [pc EXCEPT ![p] = IF runFlag[id[p]] THEN "enqueue" ELSE "idle"]
    BY <1>6 DEF AddTaskCheck
  <2>2. /\ pc'[p] = IF runFlag[id[p]] THEN "enqueue" ELSE "idle"
        /\ \A r \in Submitters : r # p => pc'[r] = pc[r]
    BY <1>t, <2>1 DEF TypeOK
  <2>3. sock[p] \in Sockets /\ Owner[sock[p]] = p /\ tid[sock[p]] = id[p]
    BY <1>t, <2>1 DEF IInv, Pins, OwnSocket, Pinned, PinnedSubmit
  <2>4. ASSUME NEW s \in Sockets
        PROVE  /\ Placed(s)' \in {Placed(s), Placed(s) + 1}
               /\ NoneDropped(s, tid[s])' => NoneDropped(s, tid[s]) /\ Placed(s)' = Placed(s)
               /\ s # sock[p] => Placed(s)' = Placed(s)
    <3>1. Owner[s] \in Submitters /\ submitted[s] \in Nat
      BY <1>t, LineTypes DEF TypeOK
    <3>2. CASE s = sock[p]
      BY <1>1, <2>1, <2>2, <2>3, <3>1, <3>2 DEF Placed, InHand, Hand, NoneDropped
    <3>3. CASE s # sock[p] /\ Owner[s] = p
      BY <1>1, <2>1, <2>2, <3>3 DEF Placed, InHand, Hand, NoneDropped
    <3>4. CASE Owner[s] # p
      BY <1>1, <2>1, <2>2, <2>3, <3>1, <3>4 DEF Placed, InHand, NoneDropped
    <3> QED BY <3>2, <3>3, <3>4
  <2>5. tid[sock[p]] # -1
    BY <1>t, <2>3 DEF TypeOK
  <2>6. \A s \in Sockets : SocketLine(s)'
    BY <1>1, <1>3, <1>4, <2>4, <2>5, SocketKept
  <2> QED BY <1>2, <2>6 DEF Order, InLine
<1>7. CASE ~(AddTaskCheck(p) \/ \E s \in Sockets : SubmitPinned(p, s) \/ SubmitFresh(p, s))
  <2>1. /\ UNCHANGED <<submitted, sock>>
        /\ \/ pc[p] \in {"load", "cas"} /\ \E l \in {"load", "cas"} : pc' = [pc EXCEPT ![p] = l]
           \/ pc[p] \notin Hand /\ \E l \in JoinPcs \cup {"idle"} : pc' = [pc EXCEPT ![p] = l]
    BY <1>t, <1>7 DEF LoadIndex, CasFails, AddTaskNotify, JoinBegin, StopFlag, StopNotify,
                      JoinCheck, Hand, JoinPcs, TypeOK
  <2>2. \A r \in Submitters : pc[r] \in Hand \/ pc'[r] \in Hand =>
               /\ pc'[r] = pc[r] \/ {pc[r], pc'[r]} \subseteq {"load", "cas", "check"}
               /\ sock'[r] = sock[r]
    BY <1>t, <2>1 DEF TypeOK, Hand, JoinPcs
  <2>3. \A s \in Sockets : /\ Placed(s)' = Placed(s)
                           /\ \A w : NoneDropped(s, w)' /\ (runFlag'[w] => runFlag[w])
                                     => NoneDropped(s, w)
    BY <1>t, <2>1, <2>2, HandKept
  <2>4. \A s \in Sockets : SocketLine(s)'
    BY <1>1, <1>3, <1>4, <2>3, SocketKept
  <2> QED BY <1>2, <2>4 DEF Order, InLine
<1> QED BY <1>5, <1>6, <1>7

\* The first task of a socket finds nothing of it in any queue.
LEMMA CasOrder == ASSUME OInv, NEW p \in Submitters, CasSucceeds(p) PROVE Order'
<1>t. TypeOK /\ IInv /\ Order
  BY DEF OInv, IInv
<1>0. sock[p] \in Sockets /\ Owner[sock[p]] = p /\ id[p] \in Workers /\ tid[sock[p]] = -1
  BY <1>t DEF CasSucceeds, IInv, Pins, OwnSocket, Pinned, PinnedSubmit, TypeOK
<1>p. PICK s0 \in Sockets, w0 \in Workers : s0 = sock[p] /\ w0 = id[p]
  BY <1>0
<1>1. /\ pc[p] = "cas" /\ tid' = [tid EXCEPT ![s0] = w0] /\ pc' = [pc EXCEPT ![p] = "check"]
      /\ UNCHANGED <<submitted, sock, runFlag, queue, cur, lastRun, wpc>>
  BY <1>p DEF CasSucceeds, workVars
<1>2. Owner[s0] = p /\ tid[s0] = -1
  BY <1>0, <1>p
<1>3. FromOwner' /\ RunsNext'
  BY <1>1, <1>t DEF Order, FromOwner, RunsNext, Entries
<1>4. \A r \in Submitters : pc[r] \in Hand \/ pc'[r] \in Hand =>
               /\ pc'[r] = pc[r] \/ {pc[r], pc'[r]} \subseteq {"load", "cas", "check"}
               /\ sock'[r] = sock[r]
  BY <1>t, <1>1 DEF TypeOK, Hand
<1>5. \A s \in Sockets : /\ Placed(s)' = Placed(s)
                         /\ \A w : NoneDropped(s, w)' => NoneDropped(s, w)
  BY <1>t, <1>1, <1>4, HandKept
<1>6. tid'[s0] = w0 /\ \A s \in Sockets : s # s0 => tid'[s] = tid[s]
  BY <1>t, <1>1, <1>2 DEF TypeOK
<1>7. ASSUME NEW s \in Sockets, s # s0 PROVE SocketLine(s)'
  <2>1. tid'[s] = tid[s] /\ Taken(s, tid[s])' = Taken(s, tid[s]) /\ Alive(tid[s])' = Alive(tid[s])
    BY <1>1, <1>6, <1>7 DEF Taken, Alive
  <2> QED BY <1>1, <1>5, <2>1, SocketKept
<1>8. SocketLine(s0)'
  <2>1. lastRun[s0] = 0 /\ Placed(s0)' = 0
    BY <1>2, <1>5, <1>t DEF Order, InLine, SocketLine
  <2>2. \A i \in 1 .. Len(queue[w0]) : queue[w0][i].sock # s0
    BY <1>2, <1>t, ConstantsAssumption DEF IInv, Pins, Pinned, PinnedQueue, Entries
  <2>3. Taken(s0, w0) = 0
    BY <1>2, <1>t, <2>1 DEF Taken, IInv, Pins, Pinned, PinnedCur
  <2>4. Line(queue[w0], s0, 0, 0, NoneDropped(s0, w0)')
    BY <2>2 DEF Line
  <2>5. Taken(s0, w0)' = 0
    BY <1>1, <2>3 DEF Taken
  <2>6. Line(queue'[w0], s0, Taken(s0, w0)', Placed(s0)', NoneDropped(s0, w0)')
    BY <1>1, <2>1, <2>4, <2>5
  <2>7. w0 # -1
    BY <1>2
  <2> QED BY <1>6, <2>6, <2>7 DEF SocketLine
<1> QED BY <1>3, <1>7, <1>8 DEF Order, InLine

\* What an enqueue on worker w0 does to the sockets whose entry it is not
LEMMA EnqueueOthers ==
    ASSUME OInv, NEW w0 \in Workers, NEW e \in Task \cup Stop,
           queue' = [queue EXCEPT ![w0] = Append(@, e)],
           UNCHANGED <<tid, cur, lastRun, wpc, runFlag>>,
           NEW s \in Sockets, e.sock # s, Placed(s)' = Placed(s),
           \A w : NoneDropped(s, w)' => NoneDropped(s, w)
    PROVE  SocketLine(s)'
<1>t. IInv /\ TypeOK
  BY DEF OInv, IInv
<1>1. /\ queue'[w0] = Append(queue[w0], e) /\ \A v \in Workers : v # w0 => queue'[v] = queue[v]
      /\ \A w : Taken(s, w)' = Taken(s, w) /\ Alive(w)' = Alive(w)
  BY <1>t DEF TypeOK, Taken, Alive
<1>2. CASE tid[s] = w0
  <2>1. SocketLine(s) /\ tid[s] # -1
    BY <1>2 DEF OInv, Order, InLine
  <2> DEFINE q == queue[w0]
             t == Taken(s, w0)
             u == Placed(s)
             f == NoneDropped(s, w0)
             g == NoneDropped(s, w0)'
  <2>2. q \in Seq(Task \cup Stop) /\ t \in Nat /\ u \in Nat
    BY <1>2, <1>t, <2>1, LineTypes
  <2>3. Alive(w0)' => Line(q, s, t, u, f)
    BY <1>1, <1>2, <2>1 DEF SocketLine
  <2>4. g => f
    OBVIOUS
  <2> HIDE DEF q, t, u, f, g
  <2>5. u <= u
    BY <2>2
  <2>6. Alive(w0)' => Line(q, s, t, u, g)
    BY <2>2, <2>3, <2>4, <2>5, LineWeaker
  <2>7. Alive(w0)' => Line(Append(q, e), s, t, u, g)
    BY <2>2, <2>6, LineAppendOther
  <2>8. Alive(w0)' => Line(queue'[w0], s, Taken(s, w0)', Placed(s)', NoneDropped(s, w0)')
    BY <1>1, <2>7 DEF q, t, u, g
  <2> QED BY <1>2, <2>1, <2>8 DEF SocketLine
<1>3. CASE tid[s] # w0
  BY <1>1, <1>3, <1>t, LineTypes, SocketKept
<1> QED BY <1>2, <1>3

LEMMA EnqueueFrom ==
    ASSUME OInv, NEW w0 \in Workers, NEW e \in Task \cup Stop,
           queue' = [queue EXCEPT ![w0] = Append(@, e)], UNCHANGED <<cur, lastRun>>,
           e.sock # NULL => e.src = Owner[e.sock]
    PROVE  FromOwner' /\ RunsNext'
<1>1. \A v \in Workers : \A k \in 1 .. Len(queue'[v]) :
         \/ k \in 1 .. Len(queue[v]) /\ queue'[v][k] = queue[v][k]
         \/ v = w0 /\ queue'[v][k] = e
  BY AfterEnqueue DEF OInv, IInv
<1>2. FromOwner'
  BY <1>1 DEF OInv, Order, FromOwner, Entries
<1>3. RunsNext'
  BY DEF OInv, Order, RunsNext
<1> QED BY <1>2, <1>3

LEMMA StopEnqueueOrder == ASSUME OInv, NEW p \in Submitters, StopEnqueue(p) PROVE Order'
<1>t. IInv /\ TypeOK
  BY DEF OInv, IInv
<1>0. id[p] \in Workers
  BY <1>t DEF TypeOK
<1>p. PICK w0 \in Workers : w0 = id[p]
  BY <1>0
<1> DEFINE e == [src |-> p, sock |-> NULL, num |-> 0]
<1>1. e \in Task \cup Stop /\ e.sock = NULL
  BY DEF Stop
<1>2. /\ pc[p] = "stopEnqueue" /\ pc' = [pc EXCEPT ![p] = "stopNotify"]
      /\ queue' = [queue EXCEPT ![w0] = Append(@, e)]
      /\ UNCHANGED <<tid, submitted, sock, runFlag, cur, lastRun, wpc>>
  BY <1>p DEF StopEnqueue, workVars
<1> HIDE DEF e
<1>3. FromOwner' /\ RunsNext'
  BY <1>1, <1>2, EnqueueFrom
<1>4. \A r \in Submitters : pc[r] \in Hand \/ pc'[r] \in Hand =>
               /\ pc'[r] = pc[r] \/ {pc[r], pc'[r]} \subseteq {"load", "cas", "check"}
               /\ sock'[r] = sock[r]
  BY <1>t, <1>2 DEF TypeOK, Hand
<1>5. \A s \in Sockets : Placed(s)' = Placed(s) /\ \A w : NoneDropped(s, w)' => NoneDropped(s, w)
  BY <1>t, <1>2, <1>4, HandKept
<1>6. \A s \in Sockets : SocketLine(s)'
  BY <1>1, <1>2, <1>5, ConstantsAssumption, EnqueueOthers
<1> QED BY <1>3, <1>6 DEF Order, InLine

LEMMA AddTaskEnqueueOrder == ASSUME OInv, NEW p \in Submitters, AddTaskEnqueue(p) PROVE Order'
<1>t. IInv /\ TypeOK /\ Order
  BY DEF OInv, IInv
<1>0. /\ sock[p] \in Sockets /\ Owner[sock[p]] = p /\ id[p] \in Workers
      /\ tid[sock[p]] = id[p] /\ submitted[sock[p]] > 0 /\ submitted[sock[p]] \in Nat
      /\ pc[p] = "enqueue"
  BY <1>t DEF AddTaskEnqueue, IInv, Pins, OwnSocket, Pinned, PinnedSubmit, TypeOK
<1>p. PICK s0 \in Sockets, w0 \in Workers : s0 = sock[p] /\ w0 = id[p]
  BY <1>0
<1>e. NewTask(p) \in Task \cup Stop /\ NewTask(p).sock = s0 /\ NewTask(p).num = submitted[s0]
      /\ NewTask(p).src = p
  BY <1>0, <1>p DEF NewTask, Task
<1>f. PICK e \in Task \cup Stop : e = NewTask(p)
  BY <1>e
<1>1. e.sock = s0 /\ e.num = submitted[s0] /\ e.src = Owner[s0] /\ Owner[s0] = p /\ tid[s0] = w0
  BY <1>0, <1>e, <1>f, <1>p
<1>2. /\ pc' = [pc EXCEPT ![p] = "notify"]
      /\ queue' = [queue EXCEPT ![w0] = Append(@, e)]
      /\ UNCHANGED <<tid, submitted, sock, runFlag, cur, lastRun, wpc>>
  BY <1>p, <1>f DEF AddTaskEnqueue, workVars
<1>3. FromOwner' /\ RunsNext'
  BY <1>1, <1>2, EnqueueFrom
<1>4. pc'[p] = "notify" /\ \A r \in Submitters : r # p => pc'[r] = pc[r]
  BY <1>t, <1>2 DEF TypeOK
<1>5. ASSUME NEW s \in Sockets, s # s0 PROVE SocketLine(s)'
  <2>1. Owner[s] \in Submitters
    BY <1>t, LineTypes
  <2>2. InHand(s)' <=> InHand(s)
    BY <1>0, <1>2, <1>4, <1>5, <1>p, <2>1 DEF InHand, Hand
  <2>3. \A w : NoneDropped(s, w)' => NoneDropped(s, w)
    BY <1>0, <1>2, <1>4, <1>5, <1>p, <2>1 DEF NoneDropped
  <2>4. Placed(s)' = Placed(s)
    BY <1>2, <2>2 DEF Placed
  <2> QED BY <1>1, <1>2, <1>5, <2>3, <2>4, EnqueueOthers
<1>6. SocketLine(s0)'
  <2> DEFINE q == queue[w0]
             t == Taken(s0, w0)
             u == submitted[s0] - 1
  <2>1. Placed(s0) = u /\ NoneDropped(s0, w0) /\ w0 # -1
    BY <1>0, <1>1, <1>p DEF Placed, InHand, Hand, NoneDropped
  <2>2. q \in Seq(Task \cup Stop) /\ t \in Nat /\ u \in Nat /\ e.num = u + 1
    BY <1>0, <1>1, <1>p, <1>t, <2>1, LineTypes
  <2>3. Alive(w0) => Line(q, s0, t, u, TRUE)
    BY <1>1, <1>t, <2>1 DEF Order, InLine, SocketLine
  <2>4. /\ Taken(s0, w0)' = t /\ Alive(w0)' = Alive(w0) /\ queue'[w0] = Append(q, e)
        /\ Placed(s0)' = submitted[s0]
    BY <1>1, <1>2, <1>4, <1>t DEF Taken, Alive, TypeOK, Placed, InHand, Hand
  <2>5. u + 1 = submitted[s0]
    BY <1>0, <1>p
  <2> HIDE DEF q, t, u
  <2>6. Alive(w0) => Line(Append(q, e), s0, t, u + 1, TRUE)
    BY <1>1, <2>2, <2>3, LineAppendNext
  <2>7. u + 1 \in Nat /\ u + 1 <= u + 1 /\ Append(q, e) \in Seq(Task \cup Stop)
    BY <2>2
  <2>8. Alive(w0) => Line(Append(q, e), s0, t, u + 1, NoneDropped(s0, w0)')
    BY <2>2, <2>6, <2>7, LineWeaker
  <2>9. Alive(w0)' => Line(queue'[w0], s0, Taken(s0, w0)', Placed(s0)', NoneDropped(s0, w0)')
    BY <2>4, <2>5, <2>8
  <2> QED BY <1>1, <1>2, <2>1, <2>9 DEF SocketLine
<1> QED BY <1>3, <1>5, <1>6 DEF Order, InLine

\* A worker's steps move no submitter.
LEMMA WorkerHands ==
    ASSUME UNCHANGED <<subVars, runFlag>>
    PROVE  \A s, w : Placed(s)' = Placed(s) /\ NoneDropped(s, w)' = NoneDropped(s, w)
  BY DEF subVars, Placed, InHand, NoneDropped

LEMMA WorkerQuietOrder ==
    ASSUME OInv, NEW w \in Workers,
           \/ WorkerLoop(w) \/ WorkerAwait(w) \/ SpuriousWakeup(w) \/ WorkerDequeueEmpty(w)
           \/ WorkerDrainNull(w) \/ WorkerComplete(w)
    PROVE  Order'
<1>t. IInv /\ TypeOK
  BY DEF OInv, IInv
<1>1. /\ UNCHANGED <<subVars, runFlag, queue, cur, lastRun>>
      /\ wpc' = wpc \/ \E l \in WorkerPcs : wpc' = [wpc EXCEPT ![w] = l] /\ (wpc[w] = "drain" => l = "done")
      /\ wpc[w] # "done"
  BY DEF WorkerLoop, WorkerAwait, SpuriousWakeup, WorkerDequeueEmpty, WorkerDrainNull,
         WorkerComplete, WorkerPcs
<1>2. \A v \in Workers : Alive(v)' => Alive(v)
  BY <1>1, <1>t DEF Alive, TypeOK
<1>3. FromOwner' /\ RunsNext'
  BY <1>1 DEF OInv, Order, FromOwner, RunsNext, Entries
<1>4. \A s, v : Taken(s, v)' = Taken(s, v) /\ tid' = tid
  BY <1>1 DEF Taken, subVars
<1>5. \A s \in Sockets : SocketLine(s)'
  BY <1>1, <1>2, <1>4, <1>t, LineTypes, WorkerHands, SocketKept
<1> QED BY <1>3, <1>5 DEF Order, InLine

LEMMA DequeueFrom ==
    ASSUME OInv, NEW w \in Workers, NEW i \in Heads(queue[w]),
           queue' = [queue EXCEPT ![w] = RemoveAt(@, i)]
    PROVE  FromOwner'
<1>1. \A v \in Workers : \A k \in 1 .. Len(queue'[v]) :
         \E j \in 1 .. Len(queue[v]) : queue'[v][k] = queue[v][j]
  BY AfterDequeue DEF OInv, IInv
<1> QED BY <1>1 DEF OInv, Order, FromOwner, Entries

\* What a dequeue on worker w0 does to the sockets whose entry it is not
LEMMA DequeueOthers ==
    ASSUME OInv, NEW w0 \in Workers, NEW i \in Heads(queue[w0]),
           queue' = [queue EXCEPT ![w0] = RemoveAt(@, i)],
           UNCHANGED <<subVars, runFlag, lastRun>>,
           \A v \in Workers : Alive(v)' => Alive(v),
           NEW s \in Sockets, ~Alive(w0)' \/ queue[w0][i].sock # s,
           tid[s] # -1 => Taken(s, tid[s])' = Taken(s, tid[s])
    PROVE  SocketLine(s)'
<1>t. IInv /\ TypeOK /\ tid' = tid
  BY DEF OInv, IInv, subVars
<1>1. /\ queue'[w0] = RemoveAt(queue[w0], i) /\ \A v \in Workers : v # w0 => queue'[v] = queue[v]
      /\ i \in 1 .. Len(queue[w0])
  BY <1>t, HeadsAreEntries DEF TypeOK
<1>2. CASE tid[s] = w0
  <2>1. SocketLine(s) /\ tid[s] # -1
    BY <1>2 DEF OInv, Order, InLine
  <2> DEFINE q == queue[w0]
             t == Taken(s, w0)
             u == Placed(s)
             f == NoneDropped(s, w0)
  <2>2. q \in Seq(Task \cup Stop) /\ t \in Nat /\ u \in Nat /\ i \in 1 .. Len(q)
    BY <1>1, <1>2, <1>t, <2>1, LineTypes
  <2>3. Alive(w0)' => Line(q, s, t, u, f) /\ q[i].sock # s
    BY <1>2, <2>1 DEF SocketLine
  <2>a. Taken(s, w0)' = t /\ queue'[w0] = RemoveAt(q, i)
    BY <1>t, <1>1, <1>2, <2>1 DEF Taken
  <2>b. Placed(s)' = u
    BY DEF subVars, Placed, InHand
  <2>c. NoneDropped(s, w0)' = f
    BY DEF subVars, Placed, InHand, NoneDropped
  <2> HIDE DEF q, t, u, f
  <2>4. Alive(w0)' => Line(RemoveAt(q, i), s, t, u, f)
    BY <2>2, <2>3, LineRemoveOther
  <2>5. Alive(w0)' => Line(queue'[w0], s, Taken(s, w0)', Placed(s)', NoneDropped(s, w0)')
    BY <2>4, <2>a, <2>b, <2>c
  <2> QED BY <1>2, <1>t, <2>1, <2>5 DEF SocketLine
<1>3. CASE tid[s] # w0
  BY <1>1, <1>3, <1>t, LineTypes, WorkerHands, SocketKept
<1> QED BY <1>2, <1>3

LEMMA DiscardOrder ==
    ASSUME OInv, NEW w \in Workers, WorkerDequeueNull(w) \/ WorkerDrain(w) PROVE Order'
<1>t. IInv /\ TypeOK
  BY DEF OInv, IInv
<1>1. PICK i \in Heads(queue[w]) : /\ queue' = [queue EXCEPT ![w] = RemoveAt(@, i)]
                                   /\ queue[w][i].sock = NULL \/ wpc[w] = "drain"
  BY DEF WorkerDequeueNull, WorkerDrain
<1>2. /\ UNCHANGED <<subVars, runFlag, cur, lastRun>>
      /\ wpc' = wpc \/ (wpc[w] = "dequeue" /\ wpc' = [wpc EXCEPT ![w] = "top"])
  BY DEF WorkerDequeueNull, WorkerDrain, workVars
<1>3. \A v \in Workers : Alive(v)' => Alive(v)
  BY <1>2, <1>t DEF Alive, TypeOK
<1>4. \A s, v : Taken(s, v)' = Taken(s, v)
  BY <1>2 DEF Taken
<1>5. \A s \in Sockets : ~Alive(w)' \/ queue[w][i].sock # s
  BY <1>1, <1>3, ConstantsAssumption DEF Alive
<1>6. ASSUME NEW s \in Sockets PROVE SocketLine(s)'
  <2>1. /\ ~Alive(w)' \/ queue[w][i].sock # s
        /\ tid[s] # -1 => Taken(s, tid[s])' = Taken(s, tid[s])
    BY <1>2, <1>4, <1>5 DEF subVars
  <2> QED BY <1>1, <1>2, <1>3, <2>1, DequeueOthers
<1>7. FromOwner' /\ RunsNext'
  BY <1>1, <1>2, DequeueFrom DEF OInv, Order, RunsNext
<1> QED BY <1>6, <1>7 DEF Order, InLine

\* The entry taken is the first of its producer, so the first of its socket.
LEMMA DequeueTaskOrder == ASSUME OInv, NEW w \in Workers, WorkerDequeueTask(w) PROVE Order'
<1>t. IInv /\ TypeOK /\ Order
  BY DEF OInv, IInv
<1>1. PICK i \in Heads(queue[w]) : /\ queue[w][i].sock # NULL
                                   /\ cur' = [cur EXCEPT ![w] = queue[w][i]]
                                   /\ queue' = [queue EXCEPT ![w] = RemoveAt(@, i)]
  BY DEF WorkerDequeueTask
<1>2. /\ wpc[w] = "dequeue" /\ wpc' = [wpc EXCEPT ![w] = "run"]
      /\ UNCHANGED <<subVars, runFlag, lastRun>>
  BY DEF WorkerDequeueTask
<1>3. \A v \in Workers : Alive(v)' => Alive(v)
  BY <1>2, <1>t DEF Alive, TypeOK
<1>4. /\ i \in 1 .. Len(queue[w]) /\ queue[w] \in Seq(Task \cup Stop)
      /\ queue[w][i] \in Task /\ queue[w][i].sock \in Sockets /\ cur[w] = NULL
  <2>1. i \in 1 .. Len(queue[w]) /\ queue[w] \in Seq(Task \cup Stop)
    BY <1>t, HeadsAreEntries DEF TypeOK
  <2>2. queue[w][i] \in Task
    BY <1>1, <2>1 DEF Stop
  <2> QED BY <1>2, <1>t, <2>1, <2>2 DEF Task, IInv, Pins, CurSet
<1>p. PICK s0 \in Sockets, e \in Task : e = queue[w][i] /\ s0 = e.sock
  BY <1>4
<1>5. tid[s0] = w /\ e.src = Owner[s0]
  BY <1>1, <1>4, <1>p, <1>t DEF IInv, Pins, Pinned, PinnedQueue, Order, FromOwner, Entries
<1>6. cur'[w] = e /\ e # NULL /\ \A v \in Workers : v # w => cur'[v] = cur[v]
  BY <1>1, <1>p, <1>t, NullAssumption DEF TypeOK
<1>7. \A j \in 1 .. Len(queue[w]) : queue[w][j].sock = s0 => i <= j
  <2> SUFFICES ASSUME NEW j \in 1 .. Len(queue[w]), queue[w][j].sock = s0, j < i PROVE FALSE
    BY <1>4
  <2>1. queue[w][j].src = e.src
    BY <1>1, <1>5, <1>p, <1>t DEF Order, FromOwner, Entries
  <2>2. j \in 1 .. (i - 1)
    BY <1>4
  <2> QED BY <1>p, <2>1, <2>2 DEF Heads
<1>8. ASSUME NEW s \in Sockets, s # s0 PROVE SocketLine(s)'
  <2>1. tid[s] # -1 => Taken(s, tid[s])' = Taken(s, tid[s])
    <3>1. CASE tid[s] = w
      BY <1>2, <1>4, <1>6, <1>8, <1>p, <3>1 DEF Taken, subVars
    <3>2. CASE tid[s] # w /\ tid[s] # -1
      BY <1>2, <1>6, <1>t, <3>2, LineTypes DEF Taken, subVars
    <3> QED BY <3>1, <3>2
  <2> QED BY <1>1, <1>2, <1>3, <1>8, <1>p, <2>1, DequeueOthers
<1>9. e.num = lastRun[s0] + 1 /\ SocketLine(s0)'
  <2> DEFINE q == queue[w]
             t == lastRun[s0]
             u == Placed(s0)
             f == NoneDropped(s0, w)
  <2>1. Taken(s0, w) = t /\ w # -1 /\ Alive(w)
    BY <1>2, <1>4 DEF Taken, Alive
  <2>2. q \in Seq(Task \cup Stop) /\ t \in Nat /\ u \in Nat /\ FirstOf(q, s0, i)
    <3>1. q \in Seq(Task \cup Stop) /\ t \in Nat /\ u \in Nat
      BY <1>4, <1>5, <1>p, <1>t, <2>1, LineTypes
    <3>2. i \in 1 .. Len(q) /\ q[i].sock = s0
      BY <1>4, <1>5, <1>p, <1>t
    <3> QED BY <1>7, <3>1, <3>2 DEF FirstOf
  <2>3. Line(q, s0, t, u, f)
    BY <1>5, <1>t, <2>1 DEF Order, InLine, SocketLine
  <2>4. /\ Taken(s0, w)' = t + 1 /\ queue'[w] = RemoveAt(q, i) /\ tid'[s0] = w
        /\ Placed(s0)' = u /\ NoneDropped(s0, w)' = f
    <3>1. Taken(s0, w)' = t + 1 /\ queue'[w] = RemoveAt(q, i) /\ tid'[s0] = w
      BY <1>1, <1>2, <1>5, <1>6, <1>p, <1>t DEF Taken, subVars, TypeOK
    <3>2. Placed(s0)' = u /\ NoneDropped(s0, w)' = f
      BY <1>2 DEF subVars, Placed, InHand, NoneDropped
    <3> QED BY <3>1, <3>2
  <2> HIDE DEF q, t, u, f
  <2>5. q[i].num = t + 1 /\ Line(RemoveAt(q, i), s0, t + 1, u, f)
    BY <2>2, <2>3, LineRemoveNext
  <2>6. Line(queue'[w], s0, Taken(s0, w)', Placed(s0)', NoneDropped(s0, w)')
    BY <2>4, <2>5
  <2>7. SocketLine(s0)'
    BY <2>1, <2>4, <2>6 DEF SocketLine
  <2> QED BY <1>p, <2>5, <2>7 DEF q, t
<1>10. RunsNext'
  BY <1>2, <1>6, <1>9, <1>p, <1>t DEF Order, RunsNext
<1>11. FromOwner'
  BY <1>1, DequeueFrom
<1> QED BY <1>8, <1>9, <1>10, <1>11 DEF Order, InLine

LEMMA RunOrder ==
    ASSUME OInv, NEW w \in Workers, WorkerRun(w)
    PROVE  Order' /\ \A s \in Sockets : lastRun'[s] \in {lastRun[s], lastRun[s] + 1}
<1>t. IInv /\ TypeOK /\ Order
  BY DEF OInv, IInv
<1>1. /\ wpc[w] = "run" /\ lastRun' = [lastRun EXCEPT ![cur[w].sock] = cur[w].num]
      /\ cur' = [cur EXCEPT ![w] = NULL] /\ wpc' = [wpc EXCEPT ![w] = "dequeue"]
      /\ UNCHANGED <<subVars, queue, runFlag>>
  BY DEF WorkerRun
<1>2. cur[w] # NULL /\ cur[w] \in Task /\ cur[w].sock \in Sockets
  BY <1>1, <1>t DEF IInv, Pins, CurSet, TypeOK, Task
<1>p. PICK s0 \in Sockets : s0 = cur[w].sock
  BY <1>2
<1>3. tid[s0] = w /\ cur[w].num = lastRun[s0] + 1
  BY <1>2, <1>p, <1>t DEF IInv, Pins, Pinned, PinnedCur, Order, RunsNext
<1>4. /\ lastRun'[s0] = lastRun[s0] + 1 /\ \A s \in Sockets : s # s0 => lastRun'[s] = lastRun[s]
      /\ cur'[w] = NULL /\ \A v \in Workers : v # w => cur'[v] = cur[v]
      /\ \A v \in Workers : Alive(v)' => Alive(v)
  BY <1>1, <1>3, <1>p, <1>t DEF TypeOK, Alive
<1>5. FromOwner'
  BY <1>1, <1>t DEF Order, FromOwner, Entries
<1>6. RunsNext'
  <2> SUFFICES ASSUME NEW v \in Workers, cur'[v] # NULL PROVE cur'[v].num = lastRun'[cur'[v].sock] + 1
    BY DEF RunsNext
  <2>1. v # w /\ cur'[v] = cur[v] /\ cur[v].num = lastRun[cur[v].sock] + 1
    BY <1>4, <1>t DEF Order, RunsNext
  <2>2. cur[v].sock \in Sockets /\ tid[cur[v].sock] = v
    BY <1>t, <2>1 DEF IInv, Pins, Pinned, PinnedCur, TypeOK, Task
  <2>3. cur[v].sock # s0
    BY <1>3, <2>1, <2>2
  <2> QED BY <1>4, <2>1, <2>2, <2>3
<1>7. \A s \in Sockets : SocketLine(s)'
  <2> SUFFICES ASSUME NEW s \in Sockets PROVE SocketLine(s)'
    OBVIOUS
  <2>1. tid' = tid
    BY <1>1 DEF subVars
  <2>2. tid[s] # -1 => Taken(s, tid[s])' = Taken(s, tid[s])
    <3>1. CASE s = s0
      BY <1>2, <1>3, <1>4, <1>p, <2>1, <3>1 DEF Taken
    <3>2. CASE s # s0 /\ tid[s] = w
      BY <1>2, <1>4, <1>p, <2>1, <3>2 DEF Taken
    <3>3. CASE s # s0 /\ tid[s] # w /\ tid[s] # -1
      BY <1>4, <1>t, <2>1, <3>3, LineTypes DEF Taken
    <3> QED BY <3>1, <3>2, <3>3
  <2>3. tid[s] = -1 => lastRun'[s] = lastRun[s]
    BY <1>3, <1>4
  <2> QED BY <1>1, <1>4, <1>t, <2>1, <2>2, <2>3, LineTypes, WorkerHands, SocketKept
<1>8. \A s \in Sockets : lastRun'[s] \in {lastRun[s], lastRun[s] + 1}
  BY <1>4
<1> QED BY <1>5, <1>6, <1>7, <1>8 DEF Order, InLine

LEMMA NextOrder ==
    ASSUME OInv, [Next]_vars
    PROVE  Order' /\ \A s \in Sockets : lastRun'[s] \in {lastRun[s], lastRun[s] + 1}
<1>1. CASE UNCHANGED vars
  <2>1. /\ UNCHANGED <<subVars, runFlag, queue, cur, lastRun, wpc, tid>>
    BY <1>1 DEF vars, workVars, subVars
  <2>2. \A s, v : Taken(s, v)' = Taken(s, v) /\ Alive(v)' = Alive(v)
    BY <2>1 DEF Taken, Alive
  <2>3. \A s \in Sockets : SocketLine(s)'
    BY <2>1, <2>2, WorkerHands, SocketKept
  <2>4. FromOwner' /\ RunsNext'
    BY <2>1 DEF OInv, Order, FromOwner, RunsNext, Entries
  <2> QED BY <2>1, <2>3, <2>4 DEF Order, InLine
<1>2. ASSUME NEW p \in Submitters, SubmitterNext(p)
      PROVE  Order' /\ \A s \in Sockets : lastRun'[s] \in {lastRun[s], lastRun[s] + 1}
  <2>1. lastRun' = lastRun
    BY <1>2 DEF SubmitterNext, InSubmit, InJoin, SubmitPinned, SubmitFresh, LoadIndex, CasSucceeds,
         CasFails, AddTaskCheck, AddTaskEnqueue, AddTaskNotify, JoinBegin, StopFlag, StopEnqueue,
         StopNotify, JoinCheck, workVars
  <2>2. Order'
    BY <1>2, SubmitOrder, CasOrder, AddTaskEnqueueOrder, StopEnqueueOrder
       DEF SubmitterNext, InSubmit, InJoin
  <2> QED BY <2>1, <2>2
<1>3. ASSUME NEW w \in Workers, WorkerNext(w), ~WorkerRun(w)
      PROVE  Order' /\ \A s \in Sockets : lastRun'[s] \in {lastRun[s], lastRun[s] + 1}
  <2>1. lastRun' = lastRun
    BY <1>3 DEF WorkerNext, WorkerStep, WorkerLoop, WorkerAwait, SpuriousWakeup, WorkerDequeueEmpty,
         WorkerDequeueNull, WorkerDequeueTask, WorkerDrain, WorkerDrainNull, WorkerComplete, workVars
  <2>2. Order'
    BY <1>3, WorkerQuietOrder, DiscardOrder, DequeueTaskOrder DEF WorkerNext, WorkerStep
  <2> QED BY <2>1, <2>2
<1> QED BY <1>1, <1>2, <1>3, RunOrder DEF Next

LEMMA OrderInvariance == Spec => []OInv
<1>1. Init => OInv
  <2> SUFFICES ASSUME Init PROVE OInv
    OBVIOUS
  <2>1. IInv
    BY InitIInv
  <2>2. FromOwner /\ RunsNext
    BY DEF Init, FromOwner, RunsNext, Entries
  <2>3. \A s \in Sockets : ~InHand(s)
    BY <2>1, LineTypes DEF Init, InHand, Hand
  <2>4. InLine
    BY <2>3 DEF Init, InLine, SocketLine, Placed
  <2> QED BY <2>1, <2>2, <2>4 DEF OInv, Order
<1>2. OInv /\ [Next]_vars => OInv'
  BY NextIInv, NextOrder DEF OInv
<1> QED BY <1>1, <1>2, PTL DEF Spec

\* The tasks of a socket run in the order in which its event loop submitted them and
\* none is skipped, although the queue orders only entries of one producer and a
\* shutdown drops tasks in addTask and in the drain.
THEOREM SocketInOrderHolds == Spec => SocketInOrder
<1>1. OInv /\ [Next]_vars => [\A s \in Sockets : lastRun'[s] \in {lastRun[s], lastRun[s] + 1}]_vars
  BY NextOrder
<1> QED BY <1>1, OrderInvariance, PTL DEF Spec, SocketInOrder

-----------------------------------------------------------------------------
(* Shutdown *)

\* The loop that joins is the only submitter: while it submits no worker has been
\* stopped, and what a worker leaves in its queue is null pointers.
Quiet ==
    /\ \A p \in Submitters : pc[p] \in SubmitPcs => \A w \in Workers : runFlag[w]
    /\ \A w \in Workers : wpc[w] \in {"drain", "done"} => ~runFlag[w]
    /\ \A w \in Workers : complete[w] <=> wpc[w] = "done"
    /\ \A w \in Workers : wpc[w] = "done" => \A i \in Entries(w) : queue[w][i].sock = NULL
    /\ \A p \in Submitters : pc[p] = "joined" => \A w \in Workers : wpc[w] = "done"

JInv == Submitters = {Joiner} /\ IInv /\ Quiet

LEMMA QuietInit == Submitters = {Joiner} /\ Init => JInv
<1> SUFFICES ASSUME Submitters = {Joiner}, Init PROVE JInv
  OBVIOUS
<1>1. Quiet
  BY DEF Init, Quiet, Entries
<1> QED BY <1>1, InitIInv DEF JInv

LEMMA QuietNext == JInv /\ [Next]_vars => JInv'
<1> SUFFICES ASSUME JInv, [Next]_vars PROVE Quiet'
  BY NextIInv DEF JInv
<1>t. TypeOK /\ IInv /\ Quiet /\ Submitters = {Joiner}
  BY DEF JInv, IInv
<1>1. CASE UNCHANGED vars
  BY <1>1, <1>t DEF Quiet, Entries, vars, subVars, workVars
<1>2. ASSUME NEW p \in Submitters,
             \/ \E s \in Sockets : SubmitPinned(p, s) \/ SubmitFresh(p, s)
             \/ LoadIndex(p) \/ CasSucceeds(p) \/ CasFails(p) \/ AddTaskCheck(p) \/ JoinBegin(p)
      PROVE  Quiet'
  <2>1. /\ UNCHANGED <<queue, runFlag, wpc, complete>> /\ pc[p] \in SubmitPcs
        /\ pc' = pc \/ \E l \in SubmitPcs \cup {"stop"} : pc' = [pc EXCEPT ![p] = l]
    BY <1>2 DEF SubmitPinned, SubmitFresh, LoadIndex, CasSucceeds, CasFails, AddTaskCheck, JoinBegin,
                workVars, SubmitPcs
  <2>2. \A r \in Submitters : pc'[r] # "joined" /\ pc[r] \in SubmitPcs
    BY <1>t, <2>1 DEF TypeOK, SubmitPcs
  <2> QED BY <1>t, <2>1, <2>2 DEF Quiet, Entries
<1>3. ASSUME NEW p \in Submitters, AddTaskEnqueue(p) PROVE Quiet'
  <2>1. /\ UNCHANGED <<runFlag, wpc, complete>> /\ pc[p] = "enqueue" /\ pc' = [pc EXCEPT ![p] = "notify"]
    BY <1>3 DEF AddTaskEnqueue, workVars
  <2>2. \A w \in Workers : runFlag[w] /\ wpc[w] # "done"
    BY <1>t, <2>1 DEF Quiet, SubmitPcs
  <2>3. \A r \in Submitters : pc'[r] # "joined"
    BY <1>t, <2>1 DEF TypeOK
  <2> QED BY <1>t, <2>1, <2>2, <2>3 DEF Quiet
<1>4. ASSUME NEW p \in Submitters, AddTaskNotify(p) \/ StopNotify(p) PROVE Quiet'
  <2>1. /\ UNCHANGED <<queue, runFlag, complete>> /\ Signal(id[p])
        /\ \/ pc[p] = "notify" /\ pc' = [pc EXCEPT ![p] = "idle"]
           \/ \E l \in {"stop", "joinCheck"} : pc' = [pc EXCEPT ![p] = l]
    BY <1>4 DEF AddTaskNotify, StopNotify
  <2>2. \A w \in Workers : /\ wpc'[w] \in {"drain", "done"} <=> wpc[w] \in {"drain", "done"}
                           /\ wpc'[w] = "done" <=> wpc[w] = "done"
    BY <1>t, <2>1 DEF Signal, TypeOK
  <2>3. \A r \in Submitters : pc'[r] # "joined" /\ (pc'[r] \in SubmitPcs => pc[r] \in SubmitPcs)
    BY <1>t, <2>1 DEF TypeOK, SubmitPcs
  <2> QED BY <1>t, <2>1, <2>2, <2>3 DEF Quiet, Entries
<1>5. ASSUME NEW p \in Submitters, StopFlag(p) PROVE Quiet'
  <2>1. /\ UNCHANGED <<queue, wpc, complete>> /\ runFlag' = [runFlag EXCEPT ![id[p]] = FALSE]
        /\ pc' = [pc EXCEPT ![p] = "stopEnqueue"]
    BY <1>5 DEF StopFlag, workVars
  <2>2. /\ \A r \in Submitters : pc'[r] = "stopEnqueue"
        /\ \A w \in Workers : runFlag'[w] => runFlag[w]
    BY <1>t, <2>1 DEF TypeOK
  <2> QED BY <1>t, <2>1, <2>2 DEF Quiet, Entries, SubmitPcs
<1>6. ASSUME NEW p \in Submitters, StopEnqueue(p) PROVE Quiet'
  <2> DEFINE e == [src |-> p, sock |-> NULL, num |-> 0]
  <2>1. /\ UNCHANGED <<runFlag, wpc, complete>> /\ pc' = [pc EXCEPT ![p] = "stopNotify"]
        /\ queue' = [queue EXCEPT ![id[p]] = Append(@, e)]
    BY <1>6 DEF StopEnqueue, workVars
  <2>2. e \in Task \cup Stop /\ e.sock = NULL /\ id[p] \in Workers
    BY <1>t DEF Stop, TypeOK
  <2> HIDE DEF e
  <2>3. \A v \in Workers : \A k \in 1 .. Len(queue'[v]) :
           \/ k \in 1 .. Len(queue[v]) /\ queue'[v][k] = queue[v][k]
           \/ queue'[v][k] = e
    BY <1>t, <2>1, <2>2, AfterEnqueue
  <2>4. \A r \in Submitters : pc'[r] = "stopNotify"
    BY <1>t, <2>1 DEF TypeOK
  <2> QED BY <1>t, <2>1, <2>2, <2>3, <2>4 DEF Quiet, Entries, SubmitPcs
<1>7. ASSUME NEW p \in Submitters, JoinCheck(p) PROVE Quiet'
  <2>1. /\ UNCHANGED <<queue, runFlag, wpc, complete>>
        /\ \/ (\A w \in Workers : complete[w]) /\ pc' = [pc EXCEPT ![p] = "joined"]
           \/ pc' = [pc EXCEPT ![p] = "stop"]
    BY <1>7 DEF JoinCheck, workVars
  <2>2. \A r \in Submitters : /\ pc'[r] \notin SubmitPcs
                              /\ pc'[r] = "joined" => \A w \in Workers : complete[w]
    BY <1>t, <2>1 DEF TypeOK, SubmitPcs
  <2> QED BY <1>t, <2>1, <2>2 DEF Quiet, Entries
<1>8. ASSUME NEW w \in Workers,
             \/ WorkerLoop(w) \/ WorkerAwait(w) \/ SpuriousWakeup(w) \/ WorkerDequeueEmpty(w)
             \/ WorkerRun(w) \/ WorkerDrainNull(w)
      PROVE  Quiet'
  <2>1. /\ UNCHANGED <<pc, queue, runFlag, complete>> /\ wpc[w] # "done"
        /\ \/ wpc' = wpc
           \/ \E l \in WorkerPcs \ {"done"} : wpc' = [wpc EXCEPT ![w] = l] /\ (l = "drain" => ~runFlag[w])
    BY <1>8 DEF WorkerLoop, WorkerAwait, SpuriousWakeup, WorkerDequeueEmpty, WorkerRun, WorkerDrainNull,
                subVars, WorkerPcs
  <2>2. \A v \in Workers : /\ wpc'[v] = "done" <=> wpc[v] = "done"
                           /\ wpc'[v] = "drain" => wpc[v] = "drain" \/ ~runFlag[v]
    BY <1>t, <2>1 DEF TypeOK
  <2> QED BY <1>t, <2>1, <2>2 DEF Quiet, Entries
<1>9. ASSUME NEW w \in Workers, WorkerDequeueNull(w) \/ WorkerDequeueTask(w) \/ WorkerDrain(w)
      PROVE  Quiet'
  <2>1. PICK i \in Heads(queue[w]) : queue' = [queue EXCEPT ![w] = RemoveAt(@, i)]
    BY <1>9 DEF WorkerDequeueNull, WorkerDequeueTask, WorkerDrain
  <2>2. /\ UNCHANGED <<pc, runFlag, complete>> /\ wpc[w] # "done"
        /\ wpc' = wpc \/ \E l \in {"top", "run"} : wpc' = [wpc EXCEPT ![w] = l]
    BY <1>9 DEF WorkerDequeueNull, WorkerDequeueTask, WorkerDrain, subVars, workVars
  <2>3. \A v \in Workers : v # w => queue'[v] = queue[v]
    BY <1>t, <2>1, AfterDequeue
  <2>4. \A v \in Workers : /\ wpc'[v] = "done" <=> wpc[v] = "done"
                           /\ wpc'[v] = "drain" => wpc[v] = "drain"
    BY <1>t, <2>2 DEF TypeOK
  <2> QED BY <1>t, <2>2, <2>3, <2>4 DEF Quiet, Entries
<1>10. ASSUME NEW w \in Workers, WorkerComplete(w) PROVE Quiet'
  <2>1. /\ UNCHANGED <<pc, queue, runFlag>> /\ wpc[w] = "drain" /\ queue[w] = <<>>
        /\ complete' = [complete EXCEPT ![w] = TRUE] /\ wpc' = [wpc EXCEPT ![w] = "done"]
    BY <1>10 DEF WorkerComplete, subVars
  <2>2. /\ wpc'[w] = "done" /\ complete'[w] = TRUE
        /\ \A v \in Workers : v # w => wpc'[v] = wpc[v] /\ complete'[v] = complete[v]
    BY <1>t, <2>1 DEF TypeOK
  <2>3. \A v \in Workers : /\ complete'[v] <=> wpc'[v] = "done"
                           /\ wpc'[v] \in {"drain", "done"} => ~runFlag[v]
    BY <1>t, <2>1, <2>2 DEF Quiet
  <2>4. \A v \in Workers : wpc[v] = "done" => wpc'[v] = "done"
    BY <2>2
  <2> QED BY <1>t, <2>1, <2>2, <2>3, <2>4 DEF Quiet, Entries
<1> QED BY <1>1, <1>2, <1>3, <1>4, <1>5, <1>6, <1>7, <1>8, <1>9, <1>10
        DEF Next, SubmitterNext, WorkerNext, InSubmit, InJoin, WorkerStep

\* In a server whose event loop is the only submitter and the one that joins, joinAll
\* returns only when every worker has ended and no task is left in a queue.
THEOREM JoinedIsQuietHolds == Submitters = {Joiner} /\ Spec => []JoinedIsQuiet
<1>1. Submitters = {Joiner} /\ Spec => []JInv
  BY QuietInit, QuietNext, PTL DEF Spec
<1>2. JInv => JoinedIsQuiet
  <2> SUFFICES ASSUME JInv, NEW p \in Submitters, pc[p] = "joined", NEW w \in Workers
               PROVE  wpc[w] = "done" /\ ToSet(queue[w]) \cap Task = {}
    BY DEF JoinedIsQuiet
  <2>1. wpc[w] = "done" /\ \A i \in 1 .. Len(queue[w]) : queue[w][i].sock = NULL
    BY DEF JInv, Quiet, Entries
  <2>2. queue[w] \in Seq(Task \cup Stop)
    BY DEF JInv, IInv, TypeOK
  <2>3. \A e \in ToSet(queue[w]) : e.sock = NULL
    BY <2>1, <2>2 DEF ToSet
  <2> QED BY <2>1, <2>3, ConstantsAssumption DEF Task
<1> QED BY <1>1, <1>2, PTL
=============================================================================
