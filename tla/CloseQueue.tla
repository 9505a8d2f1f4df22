----------------------------- MODULE CloseQueue -----------------------------
(***************************************************************************)
(* The end of a connection in the pooled server: closeSocket, which the    *)
(* event loop and the worker a socket is pinned to may both call, the      *)
(* queue of closed connections and the thread that deletes them, with the  *)
(* descriptor numbers the kernel hands out again.                          *)
(*                                                                         *)
(* Time is in seconds, kept as ages.  A second passes only between the     *)
(* handlers of the two threads: no handler is that slow inside closeSocket *)
(* or between taking an event and submitting its task.  How long a task    *)
(* waits for its worker is the parameter MaxWait.                          *)
(***************************************************************************)
EXTENDS Integers, Sequences

CONSTANTS
    Conns,          \* socket objects; bound: each is accepted once
    Fds,            \* descriptor numbers
    Grace,          \* the 10 s of closeConnectionsInternal
    Period,         \* the 5 of closeConnections
    MaxKept,        \* the 10 entries a sweep puts back at most
    MaxWait,        \* longest time a task waits for its worker
    None

ASSUME CloseAssumption ==
    /\ Fds \subseteq Nat /\ None \notin Conns
    /\ {Grace, Period, MaxWait} \subseteq Nat /\ MaxKept \in Nat \ {0}

VARIABLES
    object,         \* object[c]: "none", "live" or "deleted"
    fd,             \* fd[c]
    openFd,         \* openFd[f]: the connection whose descriptor f is, or None
    closed,         \* BaseSocket::closed
    cqat,           \* cqat[c]: seconds since closeConnection, up to Grace + 1
    toBeClosedConns,
    task,           \* task[c]: how long its task has been queued; -1 when none is
    at,             \* at[t]: [pc, conn] of thread t, "loop" or "worker"
    sweep,          \* entries put back by the sweep under way; -1 outside one
    counter,        \* the counter of closeConnections
    slept,          \* its sSleep(1) is over
    run,
    misused,        \* history: connections touched after their deletion
    foreign,        \* history: connections whose closeSocket closed another's descriptor
    raced           \* history: connections both threads took through closeSocket

conns == <<object, fd, openFd, closed>>
sweeper == <<sweep, counter, slept>>
history == <<misused, foreign, raced>>
vars == <<conns, cqat, toBeClosedConns, task, at, sweeper, run, history>>

Threads == {"loop", "worker"}
Other(t) == IF t = "loop" THEN "worker" ELSE "loop"
Idle == [pc |-> "idle", conn |-> None]
Pcs == {"idle", "event", "test", "fd", "queue", "mark", "ended"}

Init ==
    /\ object = [c \in Conns |-> "none"]
    /\ fd = [c \in Conns |-> None]
    /\ openFd = [f \in Fds |-> None]
    /\ closed = [c \in Conns |-> FALSE]
    /\ cqat = [c \in Conns |-> 0]
    /\ toBeClosedConns = <<>>
    /\ task = [c \in Conns |-> -1]
    /\ at = [t \in Threads |-> Idle]
    /\ sweep = -1 /\ counter = 0 /\ slept = FALSE /\ run = TRUE
    /\ misused = {} /\ foreign = {} /\ raced = {}

Touch(c) == misused' = misused \cup (IF object[c] = "deleted" THEN {c} ELSE {})
Go(t, pc, c) == at' = [at EXCEPT ![t] = [pc |-> pc, conn |-> c]]
Done(t) == at' = [at EXCEPT ![t] = Idle]

-----------------------------------------------------------------------------
(* The event loop *)

\* accept returns the lowest number that is free.
Accepted(c) ==
    /\ at["loop"] = Idle /\ object[c] = "none"
    /\ \E f \in Fds :
         /\ openFd[f] = None
         /\ \A g \in Fds : openFd[g] = None => f <= g
         /\ fd' = [fd EXCEPT ![c] = f]
         /\ openFd' = [openFd EXCEPT ![f] = c]
    /\ object' = [object EXCEPT ![c] = "live"]
    /\ UNCHANGED <<closed, cqat, toBeClosedConns, task, at, sweeper, run, history>>

\* epoll_wait reports a descriptor that is open.
Event(c) ==
    /\ at["loop"] = Idle /\ c \in {openFd[f] : f \in Fds}
    /\ Go("loop", "event", c)
    /\ UNCHANGED <<conns, cqat, toBeClosedConns, task, sweeper, run, history>>

\* READ_READY or WRITE_READY: a task unless the socket is closed.  Bound: one
\* task of a socket waits at a time.
Dispatch(c) ==
    /\ at["loop"] = [pc |-> "event", conn |-> c]
    /\ Touch(c)
    /\ \/ closed[c] /\ UNCHANGED task
       \/ ~closed[c] /\ task[c] = -1 /\ task' = [task EXCEPT ![c] = 0]
    /\ Done("loop")
    /\ UNCHANGED <<conns, cqat, toBeClosedConns, sweeper, run, foreign, raced>>

\* CLOSED
Hangup(c) ==
    /\ at["loop"] = [pc |-> "event", conn |-> c]
    /\ Go("loop", "test", c)
    /\ UNCHANGED <<conns, cqat, toBeClosedConns, task, sweeper, run, history>>

-----------------------------------------------------------------------------
(* The worker *)

\* A task reads or writes its socket, and closes it when that fails.
RunTask(c) ==
    /\ at["worker"] = Idle /\ task[c] >= 0
    /\ task' = [task EXCEPT ![c] = -1]
    /\ Touch(c)
    /\ UNCHANGED at \/ Go("worker", "test", c)
    /\ UNCHANGED <<conns, cqat, toBeClosedConns, sweeper, run, foreign, raced>>

-----------------------------------------------------------------------------
(* closeSocket, step by step *)

CloseTest(t, c) ==
    /\ at[t] = [pc |-> "test", conn |-> c]
    /\ Touch(c)
    /\ IF closed[c] THEN Done(t) /\ UNCHANGED raced
       ELSE /\ Go(t, "fd", c)
            /\ raced' = IF at[Other(t)].conn = c /\ at[Other(t)].pc \in {"fd", "queue", "mark"}
                        THEN raced \cup {c} ELSE raced
    /\ UNCHANGED <<conns, cqat, toBeClosedConns, task, sweeper, run, foreign>>

\* close(fd) releases the number whoever has it now.
CloseFd(t, c) ==
    /\ at[t] = [pc |-> "fd", conn |-> c]
    /\ openFd' = [openFd EXCEPT ![fd[c]] = None]
    /\ foreign' = IF openFd[fd[c]] \in {c, None} THEN foreign ELSE foreign \cup {c}
    /\ Go(t, "queue", c)
    /\ Touch(c)
    /\ UNCHANGED <<object, fd, closed, cqat, toBeClosedConns, task, sweeper, run, raced>>

\* Mutant: the socket is not put in the queue.
CloseNoQueue(t, c) ==
    /\ at[t] = [pc |-> "queue", conn |-> c]
    /\ Go(t, "mark", c)
    /\ Touch(c)
    /\ UNCHANGED <<conns, cqat, toBeClosedConns, task, sweeper, run, foreign, raced>>

\* sockCloseFunc: ServiceHandler::closeConnection
CloseConnection(t, c) ==
    /\ at[t] = [pc |-> "queue", conn |-> c]
    /\ cqat' = [cqat EXCEPT ![c] = 0]
    /\ toBeClosedConns' = Append(toBeClosedConns, c)
    /\ Go(t, "mark", c)
    /\ Touch(c)
    /\ UNCHANGED <<conns, task, sweeper, run, foreign, raced>>

\* Mutant: closed is never set.
CloseUnmarked(t, c) ==
    /\ at[t] = [pc |-> "mark", conn |-> c]
    /\ Done(t)
    /\ Touch(c)
    /\ UNCHANGED <<conns, cqat, toBeClosedConns, task, sweeper, run, foreign, raced>>

CloseMark(t, c) ==
    /\ at[t] = [pc |-> "mark", conn |-> c]
    /\ closed' = [closed EXCEPT ![c] = TRUE]
    /\ Done(t)
    /\ Touch(c)
    /\ UNCHANGED <<object, fd, openFd, cqat, toBeClosedConns, task, sweeper, run, foreign, raced>>

-----------------------------------------------------------------------------
(* closeConnections *)

Wake ==
    /\ sweep = -1 /\ slept /\ run
    /\ slept' = FALSE
    /\ IF counter >= Period THEN sweep' = 0 /\ counter' = 0
                            ELSE counter' = counter + 1 /\ UNCHANGED sweep
    /\ UNCHANGED <<conns, cqat, toBeClosedConns, task, at, run, history>>

\* Mutant: one second too early.
SweepEarly ==
    /\ sweep >= 0 /\ toBeClosedConns # <<>>
    /\ LET c == Head(toBeClosedConns) IN
       /\ Touch(c)
       /\ IF cqat[c] >= Grace
          THEN /\ object' = [object EXCEPT ![c] = "deleted"]
               /\ toBeClosedConns' = Tail(toBeClosedConns)
               /\ UNCHANGED sweep
          ELSE /\ toBeClosedConns' = Append(Tail(toBeClosedConns), c)
               /\ sweep' = IF sweep + 1 >= MaxKept THEN -1 ELSE sweep + 1
               /\ UNCHANGED object
    /\ UNCHANGED <<fd, openFd, closed, cqat, task, at, counter, slept, run, foreign, raced>>

\* One round of closeConnectionsInternal.  useCounter is 0: nothing calls use.
SweepOne ==
    /\ sweep >= 0 /\ toBeClosedConns # <<>>
    /\ LET c == Head(toBeClosedConns) IN
       /\ Touch(c)
       /\ IF cqat[c] > Grace
          THEN /\ object' = [object EXCEPT ![c] = "deleted"]
               /\ toBeClosedConns' = Tail(toBeClosedConns)
               /\ UNCHANGED sweep
          ELSE /\ toBeClosedConns' = Append(Tail(toBeClosedConns), c)
               /\ sweep' = IF sweep + 1 >= MaxKept THEN -1 ELSE sweep + 1
               /\ UNCHANGED object
    /\ UNCHANGED <<fd, openFd, closed, cqat, task, at, counter, slept, run, foreign, raced>>

SweepEnds ==
    /\ sweep >= 0 /\ toBeClosedConns = <<>>
    /\ sweep' = -1
    /\ UNCHANGED <<conns, cqat, toBeClosedConns, task, at, counter, slept, run, history>>

\* The main loop has ended: joinAll has run every task, then run = false.
Stop ==
    /\ run /\ at = [t \in Threads |-> Idle] /\ \A c \in Conns : task[c] = -1
    /\ run' = FALSE
    /\ at' = [t \in Threads |-> [pc |-> "ended", conn |-> None]]
    /\ UNCHANGED <<conns, cqat, toBeClosedConns, task, sweeper, history>>

Tick ==
    /\ \A t \in Threads : at[t].conn = None
    /\ \A c \in Conns : task[c] < MaxWait
    /\ cqat' = [c \in Conns |-> IF cqat[c] > Grace THEN cqat[c] ELSE cqat[c] + 1]
    /\ task' = [c \in Conns |-> IF task[c] = -1 THEN -1 ELSE task[c] + 1]
    /\ slept' = TRUE
    /\ UNCHANGED <<conns, toBeClosedConns, at, sweep, counter, run, history>>

CloseSocket(t) == \E c \in Conns :
    CloseTest(t, c) \/ CloseFd(t, c) \/ CloseConnection(t, c) \/ CloseMark(t, c)
Loop == \E c \in Conns : Accepted(c) \/ Event(c) \/ Dispatch(c) \/ Hangup(c)
Worker == \E c \in Conns : RunTask(c)
Sweeper == Wake \/ SweepOne \/ SweepEnds

Next == Loop \/ Worker \/ (\E t \in Threads : CloseSocket(t)) \/ Sweeper \/ Stop \/ Tick

Spec == Init /\ [][Next]_vars

\* Threads that can go on do, a worker's queue is first in first out and the
\* clock does not wait for events; nobody need stop the server.
Fairness ==
    /\ \A t \in Threads : WF_vars(CloseSocket(t))
    /\ WF_vars(\E c \in Conns : Dispatch(c))
    /\ \A c \in Conns : WF_vars(RunTask(c))
    /\ WF_vars(Sweeper) /\ SF_vars(Tick)
FairSpec == Spec /\ Fairness

-----------------------------------------------------------------------------
(* Properties *)

\* A socket object is not touched after its deletion, by a task, by closeSocket
\* or by the sweep itself, unless both threads went through closeSocket at once:
\* the grace period outlasts every task that was queued when the socket closed.
NoUseAfterDelete == misused # {} => raced # {}

\* closeSocket gives back no descriptor number that the kernel has meanwhile
\* handed to another connection, unless both threads went through it at once.
ClosesOwnDescriptor == foreign # {} => raced # {}

\* While the server runs a closed connection is deleted in the end, although a
\* sweep stops after MaxKept entries it had to put back.
ClosedIsDeleted ==
    \A c \in Conns : closed[c] ~> (object[c] = "deleted" \/ ~run)
=============================================================================
