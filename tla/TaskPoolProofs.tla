--------------------------- MODULE TaskPoolProofs ---------------------------
(***************************************************************************)
(* Proofs about module TaskPool, for any number of workers and tasks, any  *)
(* waits and both modes of the pool.                                       *)
(*                                                                         *)
(* FutureOutcome needs to know that no task is in two places: a task that  *)
(* two workers held, or that was queued again after it had run, could run  *)
(* before submit marks it as a future and be called afterwards.  OnePlace  *)
(* says that every task that has been handed over and not executed is in   *)
(* one queue, once, or with one worker.                                    *)
(***************************************************************************)
EXTENDS TimedWork, FiniteSetTheorems, SequenceTheorems, TLAPS

Pcs == {"loop", "check", "wait", "fetch", "run", "complete", "drain", "done"}
Entry == [task : Tasks, start : Nat]

\* The types of the state
TypeOK ==
    /\ state \in [Tasks -> {"new", "adding", "added", "dropped"}]
    /\ ptasks \subseteq Tasks /\ own \subseteq Tasks
    /\ tasks \in Seq(Tasks) /\ scheduled \in Seq(Entry)
    /\ count \in Int
    /\ runFlag \in [Workers -> BOOLEAN]
    /\ pc \in [Workers -> Pcs]
    /\ cur \in [Workers -> Tasks \cup {NoTask}]
    /\ isFuture \in [Tasks -> BOOLEAN]
    /\ ran \subseteq Tasks /\ called \subseteq Tasks /\ isComplete \subseteq Tasks
    /\ now \in Nat

\* The caller has handed t over and no worker has executed it.
Pending(t) == t \in Tasks /\ state[t] # "new" /\ t \notin ran /\ t \notin called

\* What is queued or held by a worker has not been executed.
NotYetRun ==
    /\ \A t \in ptasks : Pending(t)
    /\ \A i \in 1 .. Len(tasks) : Pending(tasks[i])
    /\ \A i \in 1 .. Len(scheduled) : Pending(scheduled[i].task)
    /\ \A w \in Workers : pc[w] = "run" => Pending(cur[w])
    /\ \A t \in ran \cup called : state[t] # "new"

\* No task is queued twice, held twice, or both queued and held.
OnePlace ==
    /\ Priority => tasks = <<>> /\ scheduled = <<>>
    /\ ~Priority => ptasks = {}
    /\ \A i, j \in 1 .. Len(tasks) : i # j => tasks[i] # tasks[j]
    /\ \A i, j \in 1 .. Len(scheduled) : i # j => scheduled[i].task # scheduled[j].task
    /\ \A i \in 1 .. Len(tasks), j \in 1 .. Len(scheduled) : tasks[i] # scheduled[j].task
    /\ \A w \in Workers : pc[w] = "run" =>
         /\ cur[w] \notin ptasks
         /\ \A i \in 1 .. Len(tasks) : cur[w] # tasks[i]
         /\ \A i \in 1 .. Len(scheduled) : cur[w] # scheduled[i].task
         /\ \A v \in Workers : v # w /\ pc[v] = "run" => cur[v] # cur[w]

\* taskComplete is reached only after call.
CalledFirst == \A w \in Workers : pc[w] = "complete" => cur[w] \in called

IInv == TypeOK /\ NotYetRun /\ OnePlace /\ CalledFirst /\ FutureOutcome

-----------------------------------------------------------------------------
(* Steps that leave the queues and the tasks alone *)

\* The program counter may move, except to "run" or "complete".
LEMMA Unmoved ==
    ASSUME IInv,
           UNCHANGED <<state, ptasks, tasks, scheduled, own, cur, isFuture,
                       ran, called, isComplete>>,
           pc' \in [Workers -> Pcs],
           \A w \in Workers : pc'[w] \in {"run", "complete"} => pc'[w] = pc[w],
           count' \in Int, runFlag' \in [Workers -> BOOLEAN], now' \in Nat
    PROVE  IInv'
<1>1. TypeOK'
  BY DEF IInv, TypeOK
<1>2. NotYetRun'
  BY DEF IInv, NotYetRun, Pending
<1>3. OnePlace'
  BY DEF IInv, OnePlace
<1>4. CalledFirst'
  BY DEF IInv, CalledFirst
<1>5. FutureOutcome'
  BY DEF IInv, FutureOutcome
<1> QED BY <1>1, <1>2, <1>3, <1>4, <1>5 DEF IInv

\* A signal moves at most one waiting worker to its check.
LEMMA NotifyMoves ==
    ASSUME TypeOK, NotifyOne
    PROVE  /\ pc' \in [Workers -> Pcs]
           /\ \A w \in Workers : pc'[w] \in {"run", "complete"} => pc'[w] = pc[w]
           /\ \A w \in Workers : pc[w] \in {"run", "complete"} => pc'[w] = pc[w]
  BY DEF TypeOK, NotifyOne, Goto, Pcs

-----------------------------------------------------------------------------
(* The callers *)

LEMMA SubmitPriorityKeeps ==
    ASSUME IInv, NEW t \in Tasks, SubmitPriority(t) PROVE IInv'
<1> USE DEF IInv
<1>1. /\ Priority /\ state[t] = "new" /\ ptasks' = ptasks \cup {t}
      /\ count' = count + 1 /\ state'[t] # "new"
      /\ state' \in [Tasks -> {"new", "adding", "added", "dropped"}]
      /\ \A q \in Tasks : q # t => state'[q] = state[q]
      /\ UNCHANGED <<tasks, scheduled, own, runFlag, cur, taskVars, now>>
      /\ NotifyOne
  BY DEF SubmitPriority, AddPTask, TypeOK
<1>2. /\ pc' \in [Workers -> Pcs]
      /\ \A w \in Workers : pc'[w] \in {"run", "complete"} => pc'[w] = pc[w]
  BY <1>1, NotifyMoves
<1>3. TypeOK'
  BY <1>1, <1>2 DEF TypeOK, taskVars
<1>4. NotYetRun'
  <2>1. \A q : Pending(q) => Pending(q)'
    BY <1>1 DEF Pending, TypeOK, taskVars
  <2>2. Pending(t)'
    BY <1>1 DEF Pending, NotYetRun, taskVars
  <2>3. \A q \in ran \cup called : state'[q] # "new"
    BY <1>1 DEF NotYetRun, TypeOK
  <2> QED BY <1>1, <1>2, <2>1, <2>2, <2>3 DEF NotYetRun, taskVars
<1>5. OnePlace'
  <2>1. \A w \in Workers : pc[w] = "run" => cur[w] # t
    BY <1>1 DEF NotYetRun, Pending
  <2> QED BY <1>1, <1>2, <2>1 DEF OnePlace, taskVars
<1>6. CalledFirst'
  BY <1>1, <1>2 DEF CalledFirst, taskVars
<1>7. FutureOutcome'
  BY <1>1 DEF FutureOutcome, taskVars
<1> QED BY <1>3, <1>4, <1>5, <1>6, <1>7

LEMMA SetFutureKeeps ==
    ASSUME IInv, NEW t \in Tasks, SetFuture(t) PROVE IInv'
<1> USE DEF IInv, SetFuture, queueVars
<1>1. TypeOK'
  BY DEF TypeOK
<1>2. NotYetRun'
  BY DEF NotYetRun, Pending, TypeOK
<1>3. OnePlace'
  BY DEF OnePlace
<1>4. CalledFirst' /\ FutureOutcome'
  BY DEF CalledFirst, FutureOutcome
<1> QED BY <1>1, <1>2, <1>3, <1>4

LEMMA SubmitOwnKeeps ==
    ASSUME IInv, NEW t \in Tasks, SubmitOwn(t) PROVE IInv'
<1> USE DEF IInv, taskVars
<1>1. /\ state[t] = "new" /\ state'[t] # "new" /\ own' \subseteq Tasks
      /\ state' \in [Tasks -> {"new", "adding", "added", "dropped"}]
      /\ \A q \in Tasks : q # t => state'[q] = state[q]
      /\ UNCHANGED <<ptasks, tasks, scheduled, count, runFlag, pc, cur, taskVars, now>>
  BY DEF SubmitOwn, TypeOK
<1>2. TypeOK'
  BY <1>1 DEF TypeOK
<1>3. NotYetRun'
  BY <1>1 DEF NotYetRun, Pending, TypeOK
<1>4. OnePlace'
  BY <1>1 DEF OnePlace
<1>5. CalledFirst' /\ FutureOutcome'
  BY <1>1 DEF CalledFirst, FutureOutcome
<1> QED BY <1>2, <1>3, <1>4, <1>5

LEMMA ScheduleKeeps ==
    ASSUME IInv, NEW t \in Tasks, Schedule(t) PROVE IInv'
<1> USE DEF IInv
<1> DEFINE e == [task |-> t, start |-> now]
<1>1. /\ ~Priority /\ state[t] = "new" /\ state'[t] # "new"
      /\ state' \in [Tasks -> {"new", "adding", "added", "dropped"}]
      /\ \A q \in Tasks : q # t => state'[q] = state[q]
      /\ isFuture' \in [Tasks -> BOOLEAN]
      /\ UNCHANGED <<ptasks, tasks, own, count, runFlag, pc, cur, ran, called, isComplete, now>>
  BY SMTT(30) DEF Schedule, TypeOK
<1>2. e \in Entry /\ e.task = t
  BY DEF TypeOK, Entry
<1>3. \/ scheduled' = scheduled
      \/ scheduled' = Append(scheduled, e)
  BY DEF Schedule
<1> HIDE DEF e
<1>4. /\ scheduled' \in Seq(Entry)
      /\ \A i \in 1 .. Len(scheduled') :
            \/ i \in 1 .. Len(scheduled) /\ scheduled'[i] = scheduled[i]
            \/ i = Len(scheduled) + 1 /\ scheduled'[i].task = t
  <2>1. scheduled \in Seq(Entry)
    BY DEF TypeOK
  <2>2. CASE scheduled' = scheduled
    BY <2>1, <2>2
  <2>3. CASE scheduled' = Append(scheduled, e)
    <3>1. /\ scheduled' \in Seq(Entry) /\ Len(scheduled') = Len(scheduled) + 1
          /\ \A i \in 1 .. Len(scheduled) : scheduled'[i] = scheduled[i]
          /\ scheduled'[Len(scheduled) + 1] = e
      BY <2>1, <2>3, <1>2, AppendProperties
    <3>2. Len(scheduled) \in Nat
      BY <2>1
    <3> QED BY <3>1, <3>2, <1>2
  <2> QED BY <1>3, <2>2, <2>3
<1>5. TypeOK'
  BY <1>1, <1>4 DEF TypeOK
<1>6. /\ \A i \in 1 .. Len(tasks) : tasks[i] # t
      /\ \A i \in 1 .. Len(scheduled) : scheduled[i].task # t
      /\ \A w \in Workers : pc[w] = "run" => cur[w] # t
      /\ t \notin ran /\ t \notin called
  BY <1>1 DEF NotYetRun, Pending
<1>7. NotYetRun'
  <2>1. \A q : Pending(q) => Pending(q)'
    BY <1>1 DEF Pending, TypeOK
  <2>2. Pending(t)'
    BY <1>1, <1>6 DEF Pending
  <2>3. \A q \in ran \cup called : state'[q] # "new"
    BY <1>1, <1>6 DEF NotYetRun, TypeOK
  <2>4. (\A i \in 1 .. Len(scheduled) : Pending(scheduled[i].task))'
    <3>1. \A i \in 1 .. Len(scheduled') : scheduled'[i].task = t \/ Pending(scheduled'[i].task)
      BY <1>4 DEF NotYetRun
    <3> QED BY <1>1, <2>2, <3>1 DEF Pending, TypeOK
  <2>5. (\A i \in 1 .. Len(tasks) : Pending(tasks[i]))'
    BY <1>1, <2>1 DEF NotYetRun, Pending
  <2>6. (\A w \in Workers : pc[w] = "run" => Pending(cur[w]))'
    BY <1>1, <2>1 DEF NotYetRun, Pending
  <2>7. (\A q \in ptasks : Pending(q))' /\ (\A q \in ran \cup called : state[q] # "new")'
    BY <1>1, <2>1, <2>3 DEF NotYetRun
  <2> QED BY <2>4, <2>5, <2>6, <2>7 DEF NotYetRun
<1>8. OnePlace'
  <2> HIDE DEF IInv
  <2>0. OnePlace /\ Len(scheduled) \in Nat
    BY DEF IInv, TypeOK
  <2>1. \A i, j \in 1 .. Len(scheduled') : i # j => scheduled'[i].task # scheduled'[j].task
    BY <2>0, <1>4, <1>6 DEF OnePlace
  <2>2. \A i \in 1 .. Len(tasks), j \in 1 .. Len(scheduled') : tasks[i] # scheduled'[j].task
    BY <2>0, <1>4, <1>6 DEF OnePlace
  <2>3. \A w \in Workers, i \in 1 .. Len(scheduled') :
           pc[w] = "run" => cur[w] # scheduled'[i].task
    BY <2>0, <1>4, <1>6 DEF OnePlace
  <2> QED BY <2>0, <2>1, <2>2, <2>3, <1>1 DEF OnePlace
<1>9. CalledFirst' /\ FutureOutcome'
  BY <1>1 DEF CalledFirst, FutureOutcome
<1> QED BY <1>5, <1>7, <1>8, <1>9

-----------------------------------------------------------------------------
(* The timer thread *)

\* A function on 1 .. n is a sequence of length n.
LEMMA FcnSeq ==
    ASSUME NEW S, NEW n \in Nat, NEW f \in [1 .. n -> S]
    PROVE  f \in Seq(S) /\ Len(f) = n
  OBVIOUS

\* An increasing sequence of positions names each position once.
LEMMA IncreasingInjective ==
    ASSUME NEW S, S \subseteq Nat, NEW s \in Increasing(S)
    PROVE  /\ s \in [1 .. Cardinality(S) -> S]
           /\ \A i, j \in DOMAIN s : i # j => s[i] # s[j]
<1>1. /\ s \in [1 .. Cardinality(S) -> S]
      /\ \A i, j \in DOMAIN s : i < j => s[i] < s[j]
  BY DEF Increasing
<1>2. DOMAIN s \subseteq Int
  BY <1>1
<1>3. ASSUME NEW i \in DOMAIN s, NEW j \in DOMAIN s, i # j PROVE s[i] # s[j]
  <2>1. i \in Int /\ j \in Int /\ s[i] \in Nat /\ s[j] \in Nat
    BY <1>1, <1>2
  <2> QED BY <1>1, <1>3, <2>1
<1> QED BY <1>1, <1>3

\* It names all of them.
LEMMA IncreasingCovers ==
    ASSUME NEW S, S \subseteq Nat, IsFiniteSet(S), NEW s \in Increasing(S), NEW x \in S
    PROVE  \E i \in DOMAIN s : s[i] = x
<1> DEFINE n == Cardinality(S)
<1>1. n \in Nat
  BY FS_CardinalityType
<1>2. /\ s \in [1 .. n -> S]
      /\ \A i, j \in 1 .. n : i # j => s[i] # s[j]
  BY IncreasingInjective
<1>3. IsFiniteSet(1 .. n) /\ Cardinality(1 .. n) = n
  BY <1>1, FS_Interval
<1> SUFFICES ASSUME \A i \in DOMAIN s : s[i] # x PROVE FALSE
  OBVIOUS
<1>4. s \in [1 .. n -> S \ {x}]
  BY <1>2
<1>5. IsFiniteSet(S \ {x}) /\ Cardinality(S \ {x}) = n - 1
  BY FS_RemoveElement
<1>6. Cardinality(S \ {x}) < Cardinality(1 .. n)
  BY <1>1, <1>3, <1>5
<1>7. \E i, j \in 1 .. n : i # j /\ s[i] = s[j]
  <2> DEFINE D == 1 .. n
             E == S \ {x}
  <2>1. IsFiniteSet(D) /\ IsFiniteSet(E) /\ Cardinality(E) < Cardinality(D) /\ s \in [D -> E]
    BY <1>3, <1>4, <1>5, <1>6
  <2> HIDE DEF D, E
  <2>2. \E i, j \in D : i # j /\ s[i] = s[j]
    BY <2>1, FS_PigeonHole
  <2> QED BY <2>2 DEF D
<1> QED BY <1>2, <1>7

LEMMA SweepKeeps ==
    ASSUME IInv, Sweep PROVE IInv'
<1> USE DEF IInv
<1> DEFINE n == Len(scheduled)
           Rest == (1 .. n) \ Over
<1>0. n \in Nat /\ Over \subseteq 1 .. n /\ Rest \subseteq 1 .. n /\ Over \subseteq Nat /\ Rest \subseteq Nat
      /\ IsFiniteSet(Over) /\ IsFiniteSet(Rest)
  <2>1. n \in Nat /\ Over \subseteq 1 .. n /\ Rest \subseteq 1 .. n
    BY DEF TypeOK, Over
  <2>2. IsFiniteSet(1 .. n)
    BY <2>1, FS_Interval
  <2>3. IsFiniteSet(Over) /\ IsFiniteSet(Rest)
    BY <2>1, <2>2, FS_Subset
  <2> QED BY <2>1, <2>3
<1>1. PICK s \in Increasing(Over) : tasks' = tasks \o [i \in DOMAIN s |-> scheduled[s[i]].task]
  BY DEF Sweep
<1>2. PICK k \in Increasing(Rest) : scheduled' = [i \in DOMAIN k |-> scheduled[k[i]]]
  BY DEF Sweep
<1>3. UNCHANGED <<state, ptasks, own, count, runFlag, pc, cur, taskVars, now>> /\ ~Priority
  BY DEF Sweep
<1> DEFINE a == Cardinality(Over)
           b == Cardinality(Rest)
           m == [i \in 1 .. a |-> scheduled[s[i]].task]
<1>4. a \in Nat /\ b \in Nat
  BY <1>0, FS_CardinalityType
<1>5. /\ s \in [1 .. a -> Over] /\ (\A i, j \in 1 .. a : i # j => s[i] # s[j])
      /\ k \in [1 .. b -> Rest] /\ (\A i, j \in 1 .. b : i # j => k[i] # k[j])
  BY <1>0, IncreasingInjective
<1>6. /\ m \in Seq(Tasks) /\ Len(m) = a
      /\ \A i \in 1 .. a : s[i] \in 1 .. n /\ s[i] \in Over /\ m[i] = scheduled[s[i]].task
  <2>1. \A i \in 1 .. a : s[i] \in 1 .. n /\ s[i] \in Over
    BY <1>0, <1>5
  <2>0. \A i \in 1 .. n : scheduled[i] \in Entry
    BY DEF TypeOK
  <2>2. \A i \in 1 .. n : scheduled[i].task \in Tasks
    BY <2>0 DEF Entry
  <2>3. m \in [1 .. a -> Tasks]
    BY <2>1, <2>2
  <2>4. m \in Seq(Tasks) /\ Len(m) = a
    BY <1>4, <2>3
  <2> QED BY <2>1, <2>4
<1>7. /\ scheduled' \in Seq(Entry) /\ Len(scheduled') = b
      /\ \A i \in 1 .. b : k[i] \in 1 .. n /\ k[i] \in Rest /\ scheduled'[i] = scheduled[k[i]]
  <2>1. \A i \in 1 .. b : k[i] \in 1 .. n /\ k[i] \in Rest
    BY <1>0, <1>5
  <2>2. \A i \in 1 .. n : scheduled[i] \in Entry
    BY DEF TypeOK
  <2>3. scheduled' = [i \in 1 .. b |-> scheduled[k[i]]]
    BY <1>2, <1>5
  <2>4. scheduled' \in [1 .. b -> Entry]
    BY <2>1, <2>2, <2>3
  <2>5. scheduled' \in Seq(Entry) /\ Len(scheduled') = b
    BY <1>4, <2>4, FcnSeq
  <2> QED BY <2>1, <2>3, <2>5
<1>8. tasks' = tasks \o m
  BY <1>1, <1>5
<1> HIDE DEF m, a, b, n
<1>9. /\ tasks' \in Seq(Tasks)
      /\ \A i \in 1 .. Len(tasks') :
            \/ i \in 1 .. Len(tasks) /\ tasks'[i] = tasks[i]
            \/ i - Len(tasks) \in 1 .. a /\ tasks'[i] = m[i - Len(tasks)]
      /\ Len(tasks) \in Nat
  BY <1>4, <1>6, <1>8 DEF TypeOK
<1>10. TypeOK'
  BY <1>3, <1>7, <1>9 DEF TypeOK, taskVars
<1>11. NotYetRun'
  <2>1. \A q : Pending(q) => Pending(q)'
    BY <1>3 DEF Pending, taskVars
  <2>2. \A i \in 1 .. Len(tasks') : Pending(tasks'[i])
    BY <1>6, <1>9 DEF NotYetRun, n
  <2>3. \A i \in 1 .. Len(scheduled') : Pending(scheduled'[i].task)
    BY <1>7 DEF NotYetRun, n
  <2> QED BY <1>3, <2>1, <2>2, <2>3 DEF NotYetRun, taskVars
<1>12. OnePlace'
  <2>a. \A i, j \in 1 .. n : i # j => scheduled[i].task # scheduled[j].task
    BY DEF OnePlace, n
  <2>b. \A i \in 1 .. Len(tasks), j \in 1 .. n : tasks[i] # scheduled[j].task
    BY DEF OnePlace, n
  <2>c. \A w \in Workers, j \in 1 .. n : pc[w] = "run" => cur[w] # scheduled[j].task
    BY DEF OnePlace, n
  <2>d. \A i, j \in 1 .. a : i # j => m[i] # m[j]
    BY <2>a, <1>5, <1>6
  <2>e. \A i \in 1 .. Len(tasks), j \in 1 .. a : tasks[i] # m[j]
    BY <2>b, <1>6
  <2>f. \A w \in Workers, j \in 1 .. a : pc[w] = "run" => cur[w] # m[j]
    BY <2>c, <1>6
  <2>1. \A i, j \in 1 .. Len(tasks') : i # j => tasks'[i] # tasks'[j]
    <3> SUFFICES ASSUME NEW i \in 1 .. Len(tasks'), NEW j \in 1 .. Len(tasks'), i # j
                 PROVE  tasks'[i] # tasks'[j]
      OBVIOUS
    <3>1. i \in Int /\ j \in Int
      BY <1>9
    <3>2. CASE i \in 1 .. Len(tasks) /\ tasks'[i] = tasks[i]
               /\ j \in 1 .. Len(tasks) /\ tasks'[j] = tasks[j]
      BY <3>2 DEF OnePlace
    <3>3. CASE i - Len(tasks) \in 1 .. a /\ tasks'[i] = m[i - Len(tasks)]
               /\ j - Len(tasks) \in 1 .. a /\ tasks'[j] = m[j - Len(tasks)]
      BY <3>1, <3>3, <2>d, <1>9
    <3>4. CASE i \in 1 .. Len(tasks) /\ tasks'[i] = tasks[i]
               /\ j - Len(tasks) \in 1 .. a /\ tasks'[j] = m[j - Len(tasks)]
      BY <3>4, <2>e
    <3>5. CASE i - Len(tasks) \in 1 .. a /\ tasks'[i] = m[i - Len(tasks)]
               /\ j \in 1 .. Len(tasks) /\ tasks'[j] = tasks[j]
      BY <3>5, <2>e
    <3> QED BY <1>9, <3>2, <3>3, <3>4, <3>5
  <2>2. \A i, j \in 1 .. Len(scheduled') : i # j => scheduled'[i].task # scheduled'[j].task
    BY <1>5, <1>7 DEF OnePlace, n
  <2>3. \A i \in 1 .. Len(tasks'), j \in 1 .. Len(scheduled') : tasks'[i] # scheduled'[j].task
    <3> SUFFICES ASSUME NEW i \in 1 .. Len(tasks'), NEW j \in 1 .. Len(scheduled')
                 PROVE  tasks'[i] # scheduled'[j].task
      OBVIOUS
    <3>1. k[j] \in 1 .. n /\ k[j] \notin Over /\ scheduled'[j] = scheduled[k[j]]
      BY <1>7
    <3>2. CASE i \in 1 .. Len(tasks) /\ tasks'[i] = tasks[i]
      BY <3>1, <3>2, <2>b
    <3>3. CASE i - Len(tasks) \in 1 .. a /\ tasks'[i] = m[i - Len(tasks)]
      <4>1. PICK h \in 1 .. a : h = i - Len(tasks)
        BY <3>3
      <4>2. tasks'[i] = scheduled[s[h]].task /\ s[h] \in 1 .. n /\ s[h] # k[j]
        BY <3>1, <3>3, <4>1, <1>6
      <4> QED BY <3>1, <4>2, <2>a
    <3> QED BY <1>9, <3>2, <3>3
  <2>4. \A w \in Workers : pc[w] = "run" =>
           /\ \A i \in 1 .. Len(tasks') : cur[w] # tasks'[i]
           /\ \A i \in 1 .. Len(scheduled') : cur[w] # scheduled'[i].task
    <3>1. \A w \in Workers, i \in 1 .. Len(scheduled') :
             pc[w] = "run" => cur[w] # scheduled'[i].task
      BY <2>c, <1>7
    <3>2. \A w \in Workers, i \in 1 .. Len(tasks) : pc[w] = "run" => cur[w] # tasks[i]
      BY DEF OnePlace
    <3>3. \A w \in Workers, i \in 1 .. Len(tasks') : pc[w] = "run" => cur[w] # tasks'[i]
      BY <2>f, <3>2, <1>9
    <3> QED BY <3>1, <3>3
  <2> QED BY <2>1, <2>2, <2>3, <2>4, <1>3 DEF OnePlace
<1>13. CalledFirst' /\ FutureOutcome'
  BY <1>3 DEF CalledFirst, FutureOutcome, taskVars
<1> QED BY <1>10, <1>11, <1>12, <1>13

\* The clock
LEMMA TickKeeps ==
    ASSUME IInv, Tick PROVE IInv'
<1>1. now' \in Nat
  BY TaskPoolAssumption DEF Tick
<1> QED BY <1>1, Unmoved DEF Tick, IInv, TypeOK, queueVars, taskVars

-----------------------------------------------------------------------------
(* The workers *)

\* What getTask takes is in the queue and leaves it; the rest stays.
LEMMA GetTaskTakes ==
    ASSUME IInv, NEW t \in Tasks \cup {NoTask}, GetTask(t)
    PROVE  /\ ptasks' \subseteq ptasks /\ tasks' \in Seq(Tasks) /\ count' \in Int
           /\ UNCHANGED <<scheduled, own>>
           /\ \A i \in 1 .. Len(tasks') : \E j \in 1 .. Len(tasks) : tasks'[i] = tasks[j]
           /\ \A i, j \in 1 .. Len(tasks') : i # j => tasks'[i] # tasks'[j]
           /\ Priority => tasks' = <<>>
           /\ t # NoTask =>
                /\ Pending(t) /\ t \notin ptasks'
                /\ \A i \in 1 .. Len(tasks') : tasks'[i] # t
                /\ \A i \in 1 .. Len(scheduled) : scheduled[i].task # t
                /\ \A w \in Workers : pc[w] = "run" => cur[w] # t
<1> USE DEF IInv
<1>0. NoTask \notin Tasks
  BY TaskPoolAssumption
<1>1. CASE /\ ~Priority /\ tasks # <<>> /\ t = Head(tasks)
           /\ tasks' = Tail(tasks) /\ count' = count - 1 /\ UNCHANGED ptasks
           /\ UNCHANGED <<scheduled, own>>
  <2>1. /\ tasks' \in Seq(Tasks) /\ Len(tasks') = Len(tasks) - 1 /\ Len(tasks) \in Nat \ {0}
        /\ \A i \in 1 .. Len(tasks') : tasks'[i] = tasks[i + 1] /\ i + 1 \in 2 .. Len(tasks)
        /\ t = tasks[1]
    BY <1>1 DEF TypeOK
  <2>2. \A i, j \in 1 .. Len(tasks) : i # j => tasks[i] # tasks[j]
    BY DEF OnePlace
  <2>3. \A i, j \in 1 .. Len(tasks') : i # j => tasks'[i] # tasks'[j]
    <3> SUFFICES ASSUME NEW i \in 1 .. Len(tasks'), NEW j \in 1 .. Len(tasks'), i # j
                 PROVE  tasks'[i] # tasks'[j]
      OBVIOUS
    <3>1. i + 1 \in 1 .. Len(tasks) /\ j + 1 \in 1 .. Len(tasks) /\ i + 1 # j + 1
      BY <2>1
    <3> QED BY <2>1, <2>2, <3>1
  <2>4. \A i \in 1 .. Len(tasks') : tasks'[i] # t /\ (\E j \in 1 .. Len(tasks) : tasks'[i] = tasks[j])
    <3> TAKE i \in 1 .. Len(tasks')
    <3>1. i + 1 \in 1 .. Len(tasks) /\ 1 \in 1 .. Len(tasks) /\ i + 1 # 1
      BY <2>1
    <3> QED BY <2>1, <2>2, <3>1
  <2>5. 1 \in 1 .. Len(tasks)
    BY <2>1
  <2>6. Pending(t) /\ \A i \in 1 .. Len(scheduled) : scheduled[i].task # t
    BY <2>1, <2>5 DEF NotYetRun, OnePlace
  <2>7. \A w \in Workers : pc[w] = "run" => cur[w] # t
    BY <2>1, <2>5 DEF OnePlace
  <2>8. t \notin ptasks'
    BY <1>1 DEF OnePlace
  <2>9. count' \in Int
    BY <1>1 DEF TypeOK
  <2> QED BY <1>1, <2>1, <2>3, <2>4, <2>6, <2>7, <2>8, <2>9
<1>2. CASE /\ Priority /\ t \in ptasks
           /\ ptasks' = ptasks \ {t} /\ count' = count - 1 /\ UNCHANGED tasks
           /\ UNCHANGED <<scheduled, own>>
  <2>1. tasks' = <<>> /\ scheduled = <<>> /\ tasks = <<>>
    BY <1>2 DEF OnePlace
  <2>2. Pending(t) /\ \A w \in Workers : pc[w] = "run" => cur[w] # t
    BY <1>2 DEF NotYetRun, OnePlace
  <2>3. count' \in Int
    BY <1>2 DEF TypeOK
  <2> QED BY <1>2, <2>1, <2>2, <2>3 DEF TypeOK
<1>3. CASE /\ t = NoTask /\ UNCHANGED <<tasks, ptasks, count>>
           /\ UNCHANGED <<scheduled, own>>
  BY <1>3 DEF TypeOK, OnePlace
<1> QED BY <1>1, <1>2, <1>3 DEF GetTask

\* Fetch hands the task to one worker; Drain throws it away.
LEMMA FetchKeeps ==
    ASSUME IInv, NEW w \in Workers, Fetch(w) PROVE IInv'
<1> USE DEF IInv
<1>1. PICK t \in Tasks \cup {NoTask} :
         /\ GetTask(t)
         /\ cur' = [cur EXCEPT ![w] = t]
         /\ Goto(w, IF t = NoTask THEN "loop" ELSE "run")
  BY DEF Fetch
<1>2. /\ ptasks' \subseteq ptasks /\ tasks' \in Seq(Tasks) /\ count' \in Int
      /\ UNCHANGED <<scheduled, own>>
      /\ \A i \in 1 .. Len(tasks') : \E j \in 1 .. Len(tasks) : tasks'[i] = tasks[j]
      /\ \A i, j \in 1 .. Len(tasks') : i # j => tasks'[i] # tasks'[j]
      /\ Priority => tasks' = <<>>
      /\ t # NoTask =>
           /\ Pending(t) /\ t \notin ptasks'
           /\ \A i \in 1 .. Len(tasks') : tasks'[i] # t
           /\ \A i \in 1 .. Len(scheduled) : scheduled[i].task # t
           /\ \A v \in Workers : pc[v] = "run" => cur[v] # t
  BY <1>1, GetTaskTakes
<1>3. /\ UNCHANGED <<state, runFlag, isFuture, ran, called, isComplete, now>>
      /\ pc[w] = "fetch"
  BY DEF Fetch, taskVars
<1>4. /\ pc' \in [Workers -> Pcs] /\ cur' \in [Workers -> Tasks \cup {NoTask}]
      /\ \A v \in Workers : v # w => pc'[v] = pc[v] /\ cur'[v] = cur[v]
      /\ pc'[w] # "complete" /\ cur'[w] = t /\ (pc'[w] = "run" => t # NoTask)
  BY <1>1 DEF Goto, TypeOK, Pcs
<1>5. TypeOK'
  BY <1>2, <1>3, <1>4 DEF TypeOK
<1>6. NotYetRun'
  <2>1. \A q : Pending(q)' <=> Pending(q)
    BY <1>3 DEF Pending
  <2>2. \A v \in Workers : pc'[v] = "run" => Pending(cur'[v])
    BY <1>2, <1>4 DEF NotYetRun
  <2>3. \A i \in 1 .. Len(tasks') : Pending(tasks'[i])
    BY <1>2 DEF NotYetRun
  <2>4. \A i \in 1 .. Len(scheduled) : Pending(scheduled[i].task)
    BY DEF NotYetRun
  <2>5. \A q \in ptasks' : Pending(q)
    BY <1>2 DEF NotYetRun
  <2> QED BY <1>2, <1>3, <2>2, <2>3, <2>4, <2>5 DEF NotYetRun, Pending
<1>7. OnePlace'
  <2>1. \A v \in Workers : pc'[v] = "run" =>
           /\ cur'[v] \notin ptasks'
           /\ \A i \in 1 .. Len(tasks') : cur'[v] # tasks'[i]
           /\ \A i \in 1 .. Len(scheduled) : cur'[v] # scheduled[i].task
    BY <1>2, <1>4 DEF OnePlace
  <2>2. \A u, v \in Workers : u # v /\ pc'[u] = "run" /\ pc'[v] = "run" => cur'[u] # cur'[v]
    BY <1>2, <1>4 DEF OnePlace
  <2>3. \A i \in 1 .. Len(tasks'), j \in 1 .. Len(scheduled) : tasks'[i] # scheduled[j].task
    BY <1>2 DEF OnePlace
  <2> QED BY <1>2, <2>1, <2>2, <2>3 DEF OnePlace
<1>8. CalledFirst' /\ FutureOutcome'
  BY <1>3, <1>4 DEF CalledFirst, FutureOutcome
<1> QED BY <1>5, <1>6, <1>7, <1>8

LEMMA DrainKeeps ==
    ASSUME IInv, NEW w \in Workers, Drain(w) PROVE IInv'
<1> USE DEF IInv
<1>1. PICK t \in Tasks \cup {NoTask} : GetTask(t) /\ Goto(w, IF t = NoTask THEN "done" ELSE "drain")
  BY DEF Drain
<1>2. /\ ptasks' \subseteq ptasks /\ tasks' \in Seq(Tasks) /\ count' \in Int
      /\ UNCHANGED <<scheduled, own>>
      /\ \A i \in 1 .. Len(tasks') : \E j \in 1 .. Len(tasks) : tasks'[i] = tasks[j]
      /\ \A i, j \in 1 .. Len(tasks') : i # j => tasks'[i] # tasks'[j]
      /\ Priority => tasks' = <<>>
  BY <1>1, GetTaskTakes
<1>3. UNCHANGED <<state, runFlag, cur, isFuture, ran, called, isComplete, now>>
  BY DEF Drain, taskVars
<1>4. /\ pc' \in [Workers -> Pcs]
      /\ \A v \in Workers : pc'[v] \in {"run", "complete"} => pc'[v] = pc[v]
  BY <1>1 DEF Goto, TypeOK, Pcs
<1>5. TypeOK'
  BY <1>2, <1>3, <1>4 DEF TypeOK
<1>6. NotYetRun'
  <2>1. \A i \in 1 .. Len(tasks') : Pending(tasks'[i])
    BY <1>2 DEF NotYetRun
  <2> QED BY <1>2, <1>3, <1>4, <2>1 DEF NotYetRun, Pending
<1>7. OnePlace'
  <2> HIDE DEF IInv
  <2>0. OnePlace
    BY DEF IInv
  <2>1. ASSUME NEW v \in Workers, pc[v] = "run"
        PROVE  /\ cur[v] \notin ptasks'
               /\ \A i \in 1 .. Len(tasks') : cur[v] # tasks'[i]
    BY <1>2, <2>0, <2>1 DEF OnePlace
  <2>2. ASSUME NEW i \in 1 .. Len(tasks'), NEW j \in 1 .. Len(scheduled)
        PROVE  tasks'[i] # scheduled[j].task
    <3>1. PICK k \in 1 .. Len(tasks) : tasks'[i] = tasks[k]
      BY <1>2
    <3> QED BY <2>0, <3>1 DEF OnePlace
  <2>3. ASSUME NEW v \in Workers, pc'[v] = "run"
        PROVE  /\ cur'[v] \notin ptasks'
               /\ \A i \in 1 .. Len(tasks') : cur'[v] # tasks'[i]
               /\ \A i \in 1 .. Len(scheduled') : cur'[v] # scheduled'[i].task
               /\ \A u \in Workers : u # v /\ pc'[u] = "run" => cur'[u] # cur'[v]
    <3>1. pc[v] = "run" /\ \A u \in Workers : pc'[u] = "run" => pc[u] = "run"
      BY <1>4, <2>3
    <3> QED BY <1>2, <1>3, <2>0, <2>1, <3>1 DEF OnePlace
  <2>4. /\ Priority => tasks' = <<>> /\ scheduled' = <<>>
        /\ ~Priority => ptasks' = {}
        /\ \A i, j \in 1 .. Len(scheduled') : i # j => scheduled'[i].task # scheduled'[j].task
    BY <1>2, <2>0 DEF OnePlace
  <2> QED BY <1>2, <2>2, <2>3, <2>4 DEF OnePlace
<1>8. CalledFirst' /\ FutureOutcome'
  BY <1>3, <1>4 DEF CalledFirst, FutureOutcome
<1> QED BY <1>5, <1>6, <1>7, <1>8

\* A worker executes the task it holds: nothing else holds or queues that task.
LEMMA ExecuteKeeps ==
    ASSUME IInv, NEW w \in Workers, RunTask(w) \/ CallFuture(w) PROVE IInv'
<1> USE DEF IInv
<1> DEFINE t == cur[w]
<1>1. /\ pc[w] = "run"
      /\ UNCHANGED <<state, ptasks, tasks, scheduled, own, count, runFlag, cur, isFuture,
                     isComplete, now>>
      /\ \/ ran' = ran \cup {t} /\ called' = called /\ Goto(w, "fetch")
         \/ ran' = ran /\ called' = called \cup {t} /\ Goto(w, "complete")
  BY DEF RunTask, CallFuture, queueVars
<1>2. /\ Pending(t) /\ t \notin ptasks
      /\ \A i \in 1 .. Len(tasks) : t # tasks[i]
      /\ \A i \in 1 .. Len(scheduled) : t # scheduled[i].task
      /\ \A v \in Workers : v # w /\ pc[v] = "run" => cur[v] # t
  BY <1>1 DEF NotYetRun, OnePlace
<1>3. /\ pc' \in [Workers -> Pcs] /\ pc'[w] # "run"
      /\ \A v \in Workers : v # w => pc'[v] = pc[v]
      /\ pc'[w] = "complete" => t \in called'
      /\ called \subseteq called'
  BY <1>1 DEF Goto, TypeOK, Pcs
<1> HIDE DEF t
<1>4. TypeOK'
  BY <1>1, <1>2, <1>3 DEF TypeOK, Pending
<1>5. NotYetRun'
  <2>1. \A q : q # t /\ Pending(q) => Pending(q)'
    BY <1>1 DEF Pending
  <2>2. (\A q \in ptasks : Pending(q))'
    BY <1>1, <1>2, <2>1 DEF NotYetRun
  <2>3. (\A i \in 1 .. Len(tasks) : Pending(tasks[i]))'
    BY <1>1, <1>2 DEF NotYetRun, Pending
  <2>4. (\A i \in 1 .. Len(scheduled) : Pending(scheduled[i].task))'
    BY <1>1, <1>2 DEF NotYetRun, Pending
  <2>5. (\A v \in Workers : pc[v] = "run" => Pending(cur[v]))'
    BY <1>1, <1>2, <1>3 DEF NotYetRun, Pending
  <2>6. (\A q \in ran \cup called : state[q] # "new")'
    BY <1>1, <1>2 DEF NotYetRun, Pending
  <2> QED BY <2>2, <2>3, <2>4, <2>5, <2>6 DEF NotYetRun
<1>6. OnePlace'
  BY <1>1, <1>3 DEF OnePlace
<1>7. CalledFirst'
  BY <1>1, <1>3 DEF CalledFirst, t
<1>8. FutureOutcome'
  BY <1>1, <1>2, <1>3 DEF FutureOutcome, Pending
<1> QED BY <1>4, <1>5, <1>6, <1>7, <1>8

LEMMA TaskCompleteKeeps ==
    ASSUME IInv, NEW w \in Workers, TaskComplete(w) PROVE IInv'
<1> USE DEF IInv
<1>1. /\ UNCHANGED <<state, ptasks, tasks, scheduled, own, count, runFlag, cur, isFuture,
                     ran, called, now>>
      /\ isComplete' = isComplete \cup {cur[w]} /\ cur[w] \in called
  BY DEF TaskComplete, queueVars, CalledFirst
<1>2. /\ pc' \in [Workers -> Pcs]
      /\ \A v \in Workers : pc'[v] \in {"run", "complete"} => pc'[v] = pc[v]
  BY DEF TaskComplete, Goto, TypeOK, Pcs
<1>3. TypeOK'
  BY <1>1, <1>2 DEF TypeOK
<1>4. NotYetRun'
  BY <1>1, <1>2 DEF NotYetRun, Pending
<1>5. OnePlace'
  BY <1>1, <1>2 DEF OnePlace
<1>6. CalledFirst' /\ FutureOutcome'
  BY <1>1, <1>2 DEF CalledFirst, FutureOutcome
<1> QED BY <1>3, <1>4, <1>5, <1>6

\* Loop, Check and Stop change nothing of the tasks.
LEMMA ControlKeeps ==
    ASSUME IInv, NEW w \in Workers, Loop(w) \/ Check(w) \/ Stop(w) PROVE IInv'
<1>1. /\ UNCHANGED <<state, ptasks, tasks, scheduled, own, count, cur, isFuture,
                     ran, called, isComplete, now>>
      /\ pc' \in [Workers -> Pcs]
      /\ \A v \in Workers : pc'[v] \in {"run", "complete"} => pc'[v] = pc[v]
      /\ runFlag' \in [Workers -> BOOLEAN]
  BY DEF Loop, Check, Stop, Goto, IInv, TypeOK, Pcs, queueVars, taskVars
<1> QED BY <1>1, Unmoved DEF IInv, TypeOK

-----------------------------------------------------------------------------
(* The invariant *)

LEMMA InitImplies == Init => IInv
  BY TaskPoolAssumption
  DEF Init, IInv, TypeOK, NotYetRun, OnePlace, CalledFirst, FutureOutcome, Pcs, Entry

LEMMA NextImplies == IInv /\ [Next]_vars => IInv'
<1> SUFFICES ASSUME IInv, [Next]_vars PROVE IInv'
  OBVIOUS
<1>1. CASE UNCHANGED vars
  BY <1>1, Unmoved DEF vars, queueVars, taskVars, IInv, TypeOK
<1>2. ASSUME NEW t \in Tasks, SubmitPriority(t) \/ SetFuture(t) \/ Schedule(t) \/ SubmitOwn(t)
      PROVE  IInv'
  BY <1>2, SubmitPriorityKeeps, SetFutureKeeps, ScheduleKeeps, SubmitOwnKeeps
<1>3. CASE Sweep \/ Tick
  BY <1>3, SweepKeeps, TickKeeps
<1>4. ASSUME NEW w \in Workers, Work(w) \/ Stop(w) PROVE IInv'
  BY <1>4, ControlKeeps, FetchKeeps, ExecuteKeeps, TaskCompleteKeeps, DrainKeeps DEF Work
<1> QED BY <1>1, <1>2, <1>3, <1>4 DEF Next

\* Every task is in one place, is called before it is complete and is released
\* only when its wait is over: IInv holds in every reachable state of both modes.
THEOREM Inductive == Spec => []IInv
  BY InitImplies, NextImplies, PTL DEF Spec

-----------------------------------------------------------------------------
(* The time of release *)

\* addSTask admits only tasks with a unit and a positive wait.
Timed == \A i \in 1 .. Len(scheduled) :
            /\ scheduled[i] \in Entry
            /\ Type[scheduled[i].task] \in Units /\ Tunit[scheduled[i].task] > 0

\* Task::isWaitOver is true at the earliest one second before the time, for every unit.
LEMMA WaitOverIsLate ==
    ASSUME NEW t \in Tasks, NEW start \in Nat, now \in Nat,
           Type[t] \in Units, Tunit[t] > 0, WaitOver(t, start)
    PROVE  now - start + 2 > Wait(t)
<1> DEFINE u == Tunit[t]
<1>0. u \in Int /\ u > 0
  BY TaskPoolAssumption
<1> HIDE DEF u
<1>1. CASE Type[t] \in 0 .. 2
  <2>1. CASE Type[t] = 0
    BY <1>0, <2>1 DEF WaitOver, Wait, PerSecond, u
  <2>2. CASE Type[t] = 1
    BY <1>0, <2>2 DEF WaitOver, Wait, PerSecond, u
  <2>3. CASE Type[t] = 2
    BY <1>0, <2>3 DEF WaitOver, Wait, PerSecond, u
  <2> QED BY <1>1, <2>1, <2>2, <2>3
<1>2. Seconds(start) \in Int /\ 2 * Seconds(start) <= now - start + 1
  BY DEF Seconds
<1>3. CASE Type[t] = 3
  BY <1>0, <1>2, <1>3 DEF WaitOver, Wait, u
<1>4. CASE Type[t] = 4
  BY <1>0, <1>2, <1>4 DEF WaitOver, Wait, u
<1>5. CASE Type[t] = 5
  BY <1>0, <1>2, <1>5 DEF WaitOver, Wait, u
<1>6. CASE Type[t] = 6
  BY <1>0, <1>2, <1>6 DEF WaitOver, Wait, u
<1> QED BY <1>1, <1>3, <1>4, <1>5, <1>6 DEF Units

LEMMA TimedInit == Init => Timed
  BY DEF Init, Timed

\* An entry of scheduled' was there before or is the one that Schedule adds.
LEMMA TimedNext == IInv /\ Timed /\ [Next]_vars => Timed'
<1> SUFFICES ASSUME IInv, Timed, [Next]_vars PROVE Timed'
  OBVIOUS
<1>1. CASE UNCHANGED scheduled
  BY <1>1 DEF Timed
<1>2. ASSUME NEW t \in Tasks, Schedule(t) PROVE Timed'
  <2> DEFINE e == [task |-> t, start |-> now]
  <2>1. CASE UNCHANGED scheduled
    BY <2>1 DEF Timed
  <2>2. CASE /\ Type[t] \in Units /\ Tunit[t] > 0
             /\ scheduled' = Append(scheduled, e)
    <3>1. scheduled \in Seq(Entry) /\ e \in Entry /\ e.task = t
      BY DEF IInv, TypeOK, Entry
    <3> HIDE DEF e
    <3>2. /\ Len(scheduled) \in Nat /\ Len(scheduled') = Len(scheduled) + 1
          /\ \A i \in 1 .. Len(scheduled) : scheduled'[i] = scheduled[i]
          /\ scheduled'[Len(scheduled) + 1] = e
      BY <2>2, <3>1, AppendProperties
    <3> QED BY <2>2, <3>1, <3>2 DEF Timed
  <2> QED BY <1>2, <2>1, <2>2 DEF Schedule
<1>3. CASE Sweep
  <2>1. PICK k \in Increasing((1 .. Len(scheduled)) \ Over) :
           scheduled' = [i \in DOMAIN k |-> scheduled[k[i]]]
    BY <1>3 DEF Sweep
  <2>2. \A i \in DOMAIN k : k[i] \in 1 .. Len(scheduled)
    BY DEF Increasing
  <2>3. scheduled' \in Seq(Entry)
    BY <1>3, SweepKeeps DEF IInv, TypeOK
  <2>4. 1 .. Len(scheduled') = DOMAIN k
    BY <2>1, <2>3
  <2> QED BY <2>1, <2>2, <2>4 DEF Timed
<1>4. ASSUME NEW t \in Tasks, SubmitPriority(t) \/ SetFuture(t) \/ SubmitOwn(t)
      PROVE  UNCHANGED scheduled
  BY <1>4 DEF SubmitPriority, AddPTask, SetFuture, SubmitOwn, queueVars
<1>5. ASSUME NEW w \in Workers, Work(w) \/ Stop(w) PROVE UNCHANGED scheduled
  BY <1>5 DEF Work, Stop, Loop, Check, Fetch, RunTask, CallFuture, TaskComplete, Drain,
              GetTask, queueVars
<1>6. CASE Tick \/ UNCHANGED vars
  BY <1>1, <1>6 DEF Tick, vars, queueVars
<1> QED BY <1>1, <1>2, <1>3, <1>4, <1>5, <1>6 DEF Next

\* An entry that a step takes out of scheduled was over: only Sweep takes any
\* out, and what it keeps is everything else.
LEMMA OnlyOverLeave ==
    ASSUME IInv, [Next]_vars, NEW i \in 1 .. Len(scheduled),
           \A j \in 1 .. Len(scheduled') : scheduled'[j] # scheduled[i]
    PROVE  WaitOver(scheduled[i].task, scheduled[i].start)
<1>0. scheduled \in Seq(Entry) /\ Len(scheduled) \in Nat
  BY DEF IInv, TypeOK
<1>1. CASE UNCHANGED scheduled
  BY <1>1
<1>2. ASSUME NEW t \in Tasks, Schedule(t) PROVE FALSE
  <2> DEFINE e == [task |-> t, start |-> now]
  <2>1. scheduled' = scheduled \/ scheduled' = Append(scheduled, e)
    BY <1>2 DEF Schedule
  <2>2. e \in Entry
    BY DEF IInv, TypeOK, Entry
  <2> HIDE DEF e
  <2>3. CASE scheduled' = Append(scheduled, e)
    <3>1. Len(scheduled') = Len(scheduled) + 1 /\ scheduled'[i] = scheduled[i]
      BY <1>0, <2>2, <2>3, AppendProperties
    <3> QED BY <1>0, <3>1
  <2> QED BY <2>1, <2>3
<1>3. CASE Sweep
  <2> DEFINE Rest == (1 .. Len(scheduled)) \ Over
  <2>1. PICK k \in Increasing(Rest) : scheduled' = [h \in DOMAIN k |-> scheduled[k[h]]]
    BY <1>3 DEF Sweep
  <2>2. scheduled' \in Seq(Entry)
    BY <1>3, SweepKeeps DEF IInv, TypeOK
  <2>3. 1 .. Len(scheduled') = DOMAIN k
    BY <2>1, <2>2
  <2>4. Rest \subseteq Nat /\ IsFiniteSet(Rest)
    <3>0. 1 \in Int /\ Len(scheduled) \in Int
      BY <1>0
    <3>1. IsFiniteSet(1 .. Len(scheduled))
      BY <3>0, FS_Interval, Zenon
    <3>2. Rest \in SUBSET (1 .. Len(scheduled))
      BY Zenon
    <3> HIDE DEF Rest
    <3>3. IsFiniteSet(Rest)
      BY <3>1, <3>2, FS_Subset, Zenon
    <3> QED BY <1>0, <3>2, <3>3
  <2>5. CASE i \in Rest
    <3> HIDE DEF Rest
    <3>1. \E h \in DOMAIN k : k[h] = i
      BY <2>4, <2>5, IncreasingCovers
    <3> QED BY <2>1, <2>3, <3>1
  <2>6. CASE i \in Over
    BY <2>6 DEF Over
  <2> QED BY <2>5, <2>6
<1>4. ASSUME NEW t \in Tasks, SubmitPriority(t) \/ SetFuture(t) \/ SubmitOwn(t)
      PROVE  UNCHANGED scheduled
  BY <1>4 DEF SubmitPriority, AddPTask, SetFuture, SubmitOwn, queueVars
<1>5. ASSUME NEW w \in Workers, Work(w) \/ Stop(w) PROVE UNCHANGED scheduled
  BY <1>5 DEF Work, Stop, Loop, Check, Fetch, RunTask, CallFuture, TaskComplete, Drain,
              GetTask, queueVars
<1>6. CASE Tick \/ UNCHANGED vars
  BY <1>1, <1>6 DEF Tick, vars, queueVars
<1> QED BY <1>1, <1>2, <1>3, <1>4, <1>5, <1>6 DEF Next

\* No scheduled task is released more than a second before its time, for any
\* unit and wait, at whatever instants the timer thread looks.
THEOREM NeverEarlyHolds == Spec => NeverEarly
<1>1. Spec => []Timed
  BY TimedInit, TimedNext, Inductive, PTL DEF Spec
<1>2. IInv /\ Timed /\ [Next]_vars =>
         [\A i \in 1 .. Len(scheduled) :
            (\A j \in 1 .. Len(scheduled') : scheduled'[j] # scheduled[i])
                => now - scheduled[i].start + 2 > Wait(scheduled[i].task)]_vars
  <2> SUFFICES ASSUME IInv, Timed, [Next]_vars, NEW i \in 1 .. Len(scheduled),
                      \A j \in 1 .. Len(scheduled') : scheduled'[j] # scheduled[i]
               PROVE  now - scheduled[i].start + 2 > Wait(scheduled[i].task)
    OBVIOUS
  <2>1. WaitOver(scheduled[i].task, scheduled[i].start)
    BY OnlyOverLeave
  <2>2. /\ scheduled[i].task \in Tasks /\ scheduled[i].start \in Nat /\ now \in Nat
        /\ Type[scheduled[i].task] \in Units /\ Tunit[scheduled[i].task] > 0
    BY DEF Timed, Entry, IInv, TypeOK
  <2> QED BY <2>1, <2>2, WaitOverIsLate
<1> QED BY <1>1, <1>2, Inductive, PTL DEF Spec, NeverEarly

\* The variables keep their types.
THEOREM TypeCorrect == Spec => []TypeOK
<1>1. IInv => TypeOK
  BY DEF IInv
<1> QED BY <1>1, Inductive, PTL

\* A future is complete only after call, and one that ran as an empty task
\* before submit had marked it is never called: for any workers, any tasks, in
\* both modes and whenever the pool is joined.
THEOREM FutureOutcomeHolds == Spec => []FutureOutcome
<1>1. IInv => FutureOutcome
  BY DEF IInv
<1> QED BY <1>1, Inductive, PTL

-----------------------------------------------------------------------------
(***************************************************************************)
(* JobScheduler, for any jobs, expressions, dates and durations.           *)
(***************************************************************************)
\* The two ways in which a job ends by itself.
EndsByItself(j) == j \in threw \/ ~Sched!Accepted(Sched!Parts[j])

(***************************************************************************)
(* stop is called once, so until then doRun is set in every task and no    *)
(* thread has left its loop for it: a task that is gone has ended by       *)
(* itself.  Afterwards stale and threw only keep what they hold.           *)
(***************************************************************************)
Ended ==
    /\ jobPc \in [Jobs -> {"none", "new", "poll", "run", "ended"}]
    /\ doRun \in [Jobs -> BOOLEAN]
    /\ sched = "init" => \A j \in Jobs : jobPc[j] = "none"
    /\ sched = "started" => \A j \in Jobs :
         doRun[j] /\ (jobPc[j] = "ended" => EndsByItself(j))
    /\ sched \in {"init", "started"} => stale = {}

JobsInv == Ended /\ Sched!StopTouchesLive

LEMMA JobsInit == Sched!Init => JobsInv
  BY DEF Sched!Init, JobsInv, Ended, Sched!StopTouchesLive

\* A thread's own step leaves stale alone, and before stop it ends the task only
\* for an invalid expression or an exception.
LEMMA JobKeeps ==
    ASSUME JobsInv, NEW j \in Jobs, Sched!Job(j) PROVE JobsInv'
<1>1. /\ UNCHANGED <<sched, doRun, stale>> /\ threw \subseteq threw'
      /\ \A k \in Jobs : k # j => jobPc'[k] = jobPc[k]
      /\ jobPc' \in [Jobs -> {"none", "new", "poll", "run", "ended"}]
      /\ jobPc[j] # "none"
  BY DEF JobsInv, Ended, Sched!Job, Sched!Begin, Sched!Run, Sched!Returns, Sched!Throws,
         Sched!Exit, Sched!Goto
<1>2. sched = "started" /\ jobPc'[j] = "ended" => EndsByItself(j)'
  BY DEF JobsInv, Ended, EndsByItself, Sched!Job, Sched!Begin, Sched!Run, Sched!Returns,
         Sched!Throws, Sched!Exit, Sched!Goto
<1>3. \A k \in Jobs : EndsByItself(k) => EndsByItself(k)'
  BY <1>1 DEF EndsByItself
<1>4. Sched!StopTouchesLive'
  BY <1>1 DEF JobsInv, Sched!StopTouchesLive
<1> QED BY <1>1, <1>2, <1>3, <1>4 DEF JobsInv, Ended

LEMMA JobsNext == JobsInv /\ [Sched!Next]_Sched!vars => JobsInv'
<1> SUFFICES ASSUME JobsInv, [Sched!Next]_Sched!vars PROVE JobsInv'
  OBVIOUS
<1>1. CASE Sched!Start
  BY <1>1 DEF Sched!Start, JobsInv, Ended, EndsByItself, Sched!StopTouchesLive
<1>2. CASE Sched!Stop
  BY <1>2 DEF Sched!Stop, JobsInv, Ended, EndsByItself, Sched!StopTouchesLive
<1>3. CASE Sched!Minute \/ UNCHANGED Sched!vars
  BY <1>3 DEF Sched!Minute, Sched!vars, JobsInv, Ended, EndsByItself, Sched!StopTouchesLive
<1> QED BY <1>1, <1>2, <1>3, JobKeeps DEF Sched!Next

\* stop touches no JobTask that its thread has deleted, except one whose
\* expression was invalid or whose function threw: for any jobs and whenever
\* stop is called.
THEOREM StopTouchesLiveHolds == Sched!Spec => []StopTouchesLive
<1>1. JobsInv => StopTouchesLive
  BY DEF JobsInv, StopTouchesLive
<1> QED BY <1>1, JobsInit, JobsNext, PTL DEF Sched!Spec
=============================================================================
