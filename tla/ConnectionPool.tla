---------------------------- MODULE ConnectionPool ----------------------------
(***************************************************************************)
(* The connection pool of common/ConnectionPooler.cpp and the sessions     *)
(* that draw on it: an SQLDataSourceImpl checks a connection out at its    *)
(* first statement, keeps it, and gives it back when it is deleted.  Many  *)
(* threads run a session each; the pool's only synchronisation is its      *)
(* lock-free queue.                                                        *)
(*                                                                         *)
(* A wrapper (class Connection) is [h, oop]: the driver's handle, NoHandle *)
(* when connecting failed, and the out-of-pool mark.  The database is      *)
(* external: auto[h] is the autocommit attribute of handle h and           *)
(* pending[h] the work of its open transaction.                            *)
(***************************************************************************)
EXTENDS Naturals, FiniteSets

CONSTANTS
    Clients,     \* threads, each running one data source after the other
    PoolSize,    \* ConnectionProperties::poolWriteSize
    Extra,       \* handles the database can give beyond the pool's own
    Tries,       \* dequeues before checkout connects by itself (5)
    MaxWork      \* statements a client executes

ASSUME PoolAssumption ==
    /\ PoolSize \in Nat \ {0} /\ Extra \in Nat
    /\ Tries \in Nat \ {0} /\ MaxWork \in Nat

VARIABLES
    initialized, \* the pool made at least one connection
    idle,        \* wrappers in the queue
    open,        \* handles the database holds open
    auto,        \* per handle, the autocommit attribute
    pending,     \* per handle, the work of its open transaction
    pc,          \* per client: where it is
    conn,        \* per client, the data source's wrapper or NoConn
    tran,        \* per client, isTransaction
    op,          \* per client, the operation being executed
    tries,       \* per client, checkoutInternal's counter
    made,        \* per client, statements executed
    committed,   \* work the database has committed, with the session's commit
    abandoned,   \* handles given back by a session with isTransaction still set,
                 \* or whose autocommit could not be turned on again
    down         \* destroyPool has run

vars == <<initialized, idle, open, auto, pending, pc, conn, tran, op, tries,
          made, committed, abandoned, down>>

Handles  == 1 .. (PoolSize + Extra)
NoHandle == 0
NoConn   == [h |-> NoHandle, oop |-> FALSE]
Ops      == {"none", "begin", "execute", "commit", "rollback"}

Pooled(c)   == conn[c] # NoConn /\ ~conn[c].oop
HeldBy(c)   == IF conn[c].h = NoHandle THEN {} ELSE {conn[c].h}
IdleHandles == {w.h : w \in idle}

(* createPool: with one node the loop stops at the first failure, so any  *)
(* number of connections up to the pool's size may have been made.         *)
Init ==
    \E n \in 0 .. PoolSize :
        /\ initialized = (n > 0)
        /\ idle = {[h |-> k, oop |-> FALSE] : k \in 1 .. n}
        /\ open = 1 .. n
        /\ auto = [h \in Handles |-> TRUE]
        /\ pending = [h \in Handles |-> {}]
        /\ pc = [c \in Clients |-> "none"]
        /\ conn = [c \in Clients |-> NoConn]
        /\ tran = [c \in Clients |-> FALSE]
        /\ op = [c \in Clients |-> "none"]
        /\ tries = [c \in Clients |-> 0]
        /\ made = [c \in Clients |-> 0]
        /\ committed = {}
        /\ abandoned = {}
        /\ down = FALSE

database == <<auto, pending, committed, abandoned>>

(* DataSourceManager::getImpl: a new data source, without a connection. *)
GetImpl(c) ==
    /\ pc[c] = "none" /\ ~down
    /\ pc' = [pc EXCEPT ![c] = "ready"]
    /\ UNCHANGED <<initialized, idle, open, database, conn, tran, op, tries,
                   made, down>>

(* An operation begins with allocateStmt: refused without an initialised  *)
(* pool, run at once on a connection the data source already has, and      *)
(* otherwise after a checkout.  commit returns before that when no         *)
(* transaction was started.                                                *)
Call(c, o) ==
    /\ pc[c] = "ready" /\ initialized
    /\ o = "commit" => tran[c]
    /\ o = "execute" => made[c] < MaxWork
    /\ op' = [op EXCEPT ![c] = o]
    /\ pc' = [pc EXCEPT ![c] = IF conn[c] = NoConn THEN "checkout" ELSE "run"]
    /\ UNCHANGED <<initialized, idle, open, database, conn, tran, tries, made, down>>

(* Mutant: checkout waits until a connection is idle. *)
DequeueWaits(c) ==
    /\ pc[c] = "checkout"
    /\ \E w \in idle :
          /\ idle' = idle \ {w}
          /\ conn' = [conn EXCEPT ![c] = w]
    /\ pc' = [pc EXCEPT ![c] = "run"]
    /\ UNCHANGED <<initialized, open, database, tran, op, tries, made, down>>

(* checkoutInternal: one try_dequeue; which of the idle wrappers comes out *)
(* the queue of many producers does not say.  A miss sleeps and counts.    *)
Dequeue(c) ==
    /\ pc[c] = "checkout" /\ tries[c] < Tries
    /\ \/ \E w \in idle :
            /\ idle' = idle \ {w}
            /\ conn' = [conn EXCEPT ![c] = w]
            /\ pc' = [pc EXCEPT ![c] = "run"]
            /\ tries' = [tries EXCEPT ![c] = 0]
       \/ /\ idle = {}
          /\ tries' = [tries EXCEPT ![c] = @ + 1]
          /\ UNCHANGED <<idle, conn, pc>>
    /\ UNCHANGED <<initialized, open, database, tran, op, made, down>>

(* checkoutInternal after the last miss: an out-of-pool connection, with a *)
(* null handle when the database refuses; SQLAllocHandle then fails and    *)
(* the operation returns false, the data source keeping the wrapper.       *)
NewConnection(c) ==
    /\ pc[c] = "checkout" /\ tries[c] = Tries
    /\ \/ \E h \in Handles \ open :
            /\ open' = open \cup {h}
            /\ auto' = [auto EXCEPT ![h] = TRUE]
            /\ conn' = [conn EXCEPT ![c] = [h |-> h, oop |-> TRUE]]
            /\ pc' = [pc EXCEPT ![c] = "run"]
            /\ UNCHANGED op
       \/ /\ conn' = [conn EXCEPT ![c] = [h |-> NoHandle, oop |-> TRUE]]
          /\ pc' = [pc EXCEPT ![c] = "ready"]
          /\ op' = [op EXCEPT ![c] = "none"]
          /\ UNCHANGED <<open, auto>>
    /\ tries' = [tries EXCEPT ![c] = 0]
    /\ UNCHANGED <<initialized, idle, pending, committed, abandoned, tran, made, down>>

Return(c) ==
    /\ pc' = [pc EXCEPT ![c] = "ready"]
    /\ op' = [op EXCEPT ![c] = "none"]

(* The transaction of handle h ends with its work committed by client c. *)
Commits(c, h) ==
    /\ committed' = committed \cup {<<w, c>> : w \in pending[h]}
    /\ pending' = [pending EXCEPT ![h] = {}]

(* startTransaction: isTransaction is set before the driver is asked to    *)
(* turn autocommit off, and stays set when it refuses.                     *)
StartTransaction(c) ==
    /\ pc[c] = "run" /\ op[c] = "begin"
    /\ tran' = [tran EXCEPT ![c] = TRUE]
    /\ \/ conn[c].h # NoHandle /\ auto' = [auto EXCEPT ![conn[c].h] = FALSE]
       \/ UNCHANGED auto
    /\ Return(c)
    /\ UNCHANGED <<initialized, idle, open, pending, conn, tries, made,
                   committed, abandoned, down>>

(* A statement joins the connection's open transaction, or is committed at *)
(* once under autocommit; on a null handle it fails.                       *)
Execute(c) ==
    /\ pc[c] = "run" /\ op[c] = "execute"
    /\ made' = [made EXCEPT ![c] = @ + 1]
    /\ LET h == conn[c].h  w == <<c, made[c] + 1>>
       IN IF h = NoHandle
          THEN UNCHANGED <<pending, committed>>
          ELSE IF auto[h]
               THEN committed' = committed \cup {<<w, c>>} /\ UNCHANGED pending
               ELSE pending' = [pending EXCEPT ![h] = @ \cup {w}] /\ UNCHANGED committed
    /\ Return(c)
    /\ UNCHANGED <<initialized, idle, open, auto, conn, tran, tries, abandoned, down>>

(* Mutant: autocommit stays off after the transaction. *)
EndKeepsManual(c) ==
    /\ pc[c] = "run" /\ op[c] \in {"commit", "rollback"}
    /\ tran' = [tran EXCEPT ![c] = FALSE]
    /\ conn[c].h # NoHandle /\ Commits(c, conn[c].h)
    /\ Return(c)
    /\ UNCHANGED <<initialized, idle, open, auto, conn, tries, made, abandoned, down>>

(* commit and rollback: SQLEndTran may fail, which leaves the transaction  *)
(* open; autocommit is turned on again either way, which commits whatever  *)
(* is still open.  That may fail too, and nobody looks: the handle stays   *)
(* in manual commit while the session believes its transaction over.       *)
EndTransaction(c) ==
    /\ pc[c] = "run" /\ op[c] \in {"commit", "rollback"}
    /\ tran' = [tran EXCEPT ![c] = FALSE]
    /\ LET h == conn[c].h
           Discards == pending' = [pending EXCEPT ![h] = {}] /\ UNCHANGED committed
       IN \/ h = NoHandle /\ UNCHANGED database
          \/ /\ h # NoHandle
             /\ auto' = [auto EXCEPT ![h] = TRUE]
             /\ Commits(c, h) \/ (op[c] = "rollback" /\ Discards)
             /\ UNCHANGED abandoned
          \/ /\ h # NoHandle
             /\ abandoned' = abandoned \cup {h}
             /\ \/ op[c] = "commit" /\ Commits(c, h)
                \/ op[c] = "rollback" /\ Discards
                \/ UNCHANGED <<pending, committed>>
             /\ UNCHANGED auto
    /\ Return(c)
    /\ UNCHANGED <<initialized, idle, open, conn, tries, made, down>>

(* Mutant: release closes no out-of-pool handle. *)
ReleaseLeaks(c) ==
    /\ conn' = [conn EXCEPT ![c] = NoConn]
    /\ idle' = IF Pooled(c) THEN idle \cup {conn[c]} ELSE idle
    /\ UNCHANGED <<open, auto, pending, abandoned>>

(* ConnectionPooler::release: an out-of-pool handle is closed, which       *)
(* discards its open transaction; a pooled wrapper goes back to the queue  *)
(* as it is, its transaction still open.                                   *)
Release(c) ==
    /\ conn' = [conn EXCEPT ![c] = NoConn]
    /\ IF conn[c].oop
       THEN /\ open' = open \ {conn[c].h}
            /\ pending' = [h \in Handles |-> IF h = conn[c].h THEN {} ELSE pending[h]]
            /\ UNCHANGED <<idle, auto, abandoned>>
       ELSE /\ idle' = idle \cup {conn[c]}
            /\ abandoned' = IF tran[c] THEN abandoned \cup {conn[c].h} ELSE abandoned
            /\ UNCHANGED <<open, auto, pending>>

(* cleanImpl: the data source is deleted and closeConn releases its        *)
(* connection.  One that never had a connection releases a null pointer,   *)
(* which ends the process.                                                 *)
CleanImpl(c) ==
    /\ pc[c] = "ready"
    /\ tran' = [tran EXCEPT ![c] = FALSE]
    /\ IF conn[c] = NoConn
       THEN /\ pc' = [k \in Clients |-> "crashed"]
            /\ UNCHANGED <<idle, open, auto, pending, conn, abandoned>>
       ELSE /\ pc' = [pc EXCEPT ![c] = "none"]
            /\ Release(c)
    /\ UNCHANGED <<initialized, op, tries, made, committed, down>>

(* destroyPool, when every data source is gone: the wrappers are dequeued  *)
(* and deleted, but closeConnection is given the wrapper, not its handle,  *)
(* so the handles stay open.                                               *)
DestroyPool ==
    /\ ~down /\ \A c \in Clients : pc[c] = "none"
    /\ down' = TRUE
    /\ idle' = {}
    /\ UNCHANGED <<initialized, open, database, pc, conn, tran, op, tries, made>>

Step(c) == Dequeue(c) \/ NewConnection(c) \/ StartTransaction(c) \/ Execute(c)
           \/ EndTransaction(c)

Next ==
    \/ \E c \in Clients :
          GetImpl(c) \/ Step(c) \/ CleanImpl(c) \/ \E o \in Ops \ {"none"} : Call(c, o)
    \/ DestroyPool

(* An operation that was called is executed by its running thread. *)
Fairness == \A c \in Clients : WF_vars(Step(c))

Spec == Init /\ [][Next]_vars /\ Fairness

-------------------------------------------------------------------------------
(* checkout and release race through the lock-free queue, yet a handle in  *)
(* use belongs to one session and is neither idle nor closed.  And until   *)
(* destroyPool every open handle is idle or held by a session: no          *)
(* checkout, failure or release loses one, and the connections made beyond *)
(* the pool are closed when they come back, so that the pool neither       *)
(* shrinks nor grows.                                                      *)
OneOwner ==
    /\ \A c \in Clients :
          /\ HeldBy(c) \subseteq open
          /\ HeldBy(c) \cap IdleHandles = {}
          /\ \A d \in Clients \ {c} : HeldBy(c) \cap HeldBy(d) = {}
    /\ ~down =>
          /\ open = IdleHandles \cup UNION {HeldBy(c) : c \in Clients}
          /\ Cardinality(idle) + Cardinality({c \in Clients : Pooled(c)}) <= PoolSize

(* The database commits the work of a session only in that session, unless *)
(* a connection had been given back in the middle of a transaction, for    *)
(* closeConn neither rolls back nor turns autocommit on again, or the end  *)
(* of a transaction failed to turn it on.                                  *)
OwnWork ==
    abandoned = {} => \A x \in committed : x[1][1] = x[2]

(* Every operation returns: an exhausted pool makes checkout connect by    *)
(* itself after its tries instead of waiting for a release.  Only the null *)
(* release of another session stops it.                                    *)
CallReturns ==
    \A c \in Clients :
        (op[c] # "none") ~> (op[c] = "none" \/ pc[c] = "crashed")
===============================================================================
